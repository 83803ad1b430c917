--------------------------- MODULE FirewallResponse ---------------------------
(***************************************************************************)
(* Temporary outbound blocks: the block and unblock responses, the expiry  *)
(* thread of every block, and the recovery of those threads at service     *)
(* start.  A block lives in two places that no transaction spans: a rule   *)
(* in Windows Firewall (netsh) and a row in response_rollbacks.  The pipe  *)
(* serves one response at a time; expiry threads run beside it.            *)
(***************************************************************************)
EXTENDS Naturals

CONSTANTS
  BlockIds,     \* rollback identifiers; the rule name is derived from it
  BlockFaults,  \* the failing calls this instance admits
  MaxCrashes    \* bound: how often the service process may die

BlockFaultKinds == {"db", "netsh", "spawn"}

ASSUME BlockFaultsAssumption == BlockFaults \subseteq BlockFaultKinds
ASSUME MaxCrashesAssumption == MaxCrashes \in Nat

VARIABLES
  rule,     \* ids whose firewall rule exists (survives the service)
  row,      \* the response_rollbacks table (survives the service)
  due,      \* ids whose expires_at has passed
  api,      \* where the response under way stands, per id it works on
  timer,    \* the expiry thread of an id
  up,       \* the service process runs
  crashes,
  unkept,   \* history: ids whose expiry thread failed, or could not start
  unclosed  \* history: ids whose rule was removed, the row never updated

blockVars == <<rule, row, due, api, timer, up, crashes, unkept, unclosed>>

ApiSteps == {"idle", "added", "unblocking", "unblocked"}
TimerSteps == {"none", "sleeping", "active", "removed"}

BlockTypeOK ==
  /\ rule \subseteq BlockIds
  /\ row \in [BlockIds -> {"none", "active", "restored"}]
  /\ due \subseteq BlockIds
  /\ api \in [BlockIds -> ApiSteps]
  /\ timer \in [BlockIds -> TimerSteps]
  /\ up \in BOOLEAN
  /\ crashes \in 0..MaxCrashes
  /\ unkept \subseteq BlockIds
  /\ unclosed \subseteq BlockIds

BlockInit ==
  /\ rule = {}
  /\ row = [id \in BlockIds |-> "none"]
  /\ due = {}
  /\ api = [id \in BlockIds |-> "idle"]
  /\ timer = [id \in BlockIds |-> "none"]
  /\ up = TRUE
  /\ crashes = 0
  /\ unkept = {}
  /\ unclosed = {}

ApiIdle == \A id \in BlockIds : api[id] = "idle"

\* remove_firewall_rule: netsh reports an error when no such rule exists.
CanRemove(id) == id \in rule
RemovalMayFail(id) == id \notin rule \/ "netsh" \in BlockFaults

\* mark_response_restored; both callers report a failing update and stop.
MarkRestored(id) ==
  \/ row' = [row EXCEPT ![id] = "restored"] /\ UNCHANGED unclosed
  \/ /\ "db" \in BlockFaults
     /\ unclosed' = unclosed \cup {id}
     /\ UNCHANGED row

-----------------------------------------------------------------------------
(***************************************************************************)
(* BlockRemoteAddress                                                      *)
(***************************************************************************)

\* block_remote_address succeeds for a fresh id; when it fails nothing is done.
AddRule(id) ==
  /\ up /\ ApiIdle
  /\ row[id] = "none" /\ id \notin rule
  /\ rule' = rule \cup {id}
  /\ api' = [api EXCEPT ![id] = "added"]
  /\ UNCHANGED <<row, due, timer, up, crashes, unkept, unclosed>>

\* The row is inserted and the expiry thread spawned; a failed spawn is ignored.
RecordBlock(id) ==
  /\ api[id] = "added"
  /\ row' = [row EXCEPT ![id] = "active"]
  /\ \/ timer' = [timer EXCEPT ![id] = "sleeping"] /\ UNCHANGED unkept
     \/ /\ "spawn" \in BlockFaults
        /\ unkept' = unkept \cup {id}
        /\ UNCHANGED timer
  /\ api' = [api EXCEPT ![id] = "idle"]
  /\ UNCHANGED <<rule, due, up, crashes, unclosed>>

\* A failed insert is audited and returned to the client; the rule stays.
RecordBlockFails(id) ==
  /\ api[id] = "added"
  /\ "db" \in BlockFaults
  /\ api' = [api EXCEPT ![id] = "idle"]
  /\ UNCHANGED <<rule, row, due, timer, up, crashes, unkept, unclosed>>

(***************************************************************************)
(* UnblockRemoteAddress                                                    *)
(***************************************************************************)

LookupUnblock(id) ==
  /\ up /\ ApiIdle
  /\ row[id] = "active"
  /\ api' = [api EXCEPT ![id] = "unblocking"]
  /\ UNCHANGED <<rule, row, due, timer, up, crashes, unkept, unclosed>>

\* No active row of that id: an error, and no change but the audit.
RejectUnblock(id) ==
  /\ up /\ ApiIdle
  /\ row[id] # "active"
  /\ UNCHANGED blockVars

\* Variant with a bug: a failing removal counts as done.
RemoveUnblockUnchecked(id) ==
  /\ api[id] = "unblocking"
  /\ rule' \in {rule, rule \ {id}}
  /\ api' = [api EXCEPT ![id] = "unblocked"]
  /\ UNCHANGED <<row, due, timer, up, crashes, unkept, unclosed>>

RemoveUnblock(id) ==
  /\ api[id] = "unblocking"
  /\ \/ /\ CanRemove(id)
        /\ rule' = rule \ {id}
        /\ api' = [api EXCEPT ![id] = "unblocked"]
     \/ /\ RemovalMayFail(id)
        /\ api' = [api EXCEPT ![id] = "idle"]
        /\ UNCHANGED rule
  /\ UNCHANGED <<row, due, timer, up, crashes, unkept, unclosed>>

MarkUnblock(id) ==
  /\ api[id] = "unblocked"
  /\ MarkRestored(id)
  /\ api' = [api EXCEPT ![id] = "idle"]
  /\ UNCHANGED <<rule, due, timer, up, crashes, unkept>>

-----------------------------------------------------------------------------
(***************************************************************************)
(* The expiry thread                                                       *)
(***************************************************************************)

\* Variant with a bug: the thread does not sleep out the time that is left.
WakeTimerAtOnce(id) ==
  /\ timer[id] = "sleeping"
  /\ row[id] = "active"
  /\ timer' = [timer EXCEPT ![id] = "active"]
  /\ UNCHANGED <<rule, row, due, api, up, crashes, unkept, unclosed>>

\* The sleep is over.  A row that is not active, or cannot be read, ends the
\* thread.
WakeTimer(id) ==
  /\ timer[id] = "sleeping"
  /\ id \in due
  /\ \/ /\ row[id] = "active"
        /\ timer' = [timer EXCEPT ![id] = "active"]
        /\ UNCHANGED unkept
     \/ /\ \/ row[id] # "active" /\ UNCHANGED unkept
           \/ "db" \in BlockFaults /\ unkept' = unkept \cup {id}
        /\ timer' = [timer EXCEPT ![id] = "none"]
  /\ UNCHANGED <<rule, row, due, api, up, crashes, unclosed>>

\* Variant with a bug: the row is not updated at expiry.
RemoveExpiredOnly(id) ==
  /\ timer[id] = "active"
  /\ CanRemove(id)
  /\ rule' = rule \ {id}
  /\ timer' = [timer EXCEPT ![id] = "none"]
  /\ UNCHANGED <<row, due, api, up, crashes, unkept, unclosed>>

\* One attempt: a failed removal is logged and the thread ends.
RemoveExpired(id) ==
  /\ timer[id] = "active"
  /\ \/ /\ CanRemove(id)
        /\ rule' = rule \ {id}
        /\ timer' = [timer EXCEPT ![id] = "removed"]
        /\ UNCHANGED unkept
     \/ /\ RemovalMayFail(id)
        /\ timer' = [timer EXCEPT ![id] = "none"]
        /\ unkept' = IF id \in rule THEN unkept \cup {id} ELSE unkept
        /\ UNCHANGED rule
  /\ UNCHANGED <<row, due, api, up, crashes, unclosed>>

MarkExpired(id) ==
  /\ timer[id] = "removed"
  /\ MarkRestored(id)
  /\ timer' = [timer EXCEPT ![id] = "none"]
  /\ UNCHANGED <<rule, due, api, up, crashes, unkept>>

-----------------------------------------------------------------------------
(***************************************************************************)
(* Time, and the life of the process                                       *)
(***************************************************************************)

Elapse(id) ==
  /\ row[id] # "none" /\ id \notin due
  /\ due' = due \cup {id}
  /\ UNCHANGED <<rule, row, api, timer, up, crashes, unkept, unclosed>>

\* A stop or a crash: handlers and threads are gone, rule and row stay.
Crash ==
  /\ up /\ crashes < MaxCrashes
  /\ up' = FALSE
  /\ crashes' = crashes + 1
  /\ api' = [id \in BlockIds |-> "idle"]
  /\ timer' = [id \in BlockIds |-> "none"]
  /\ unclosed' = unclosed \cup {id \in BlockIds :
                                  api[id] = "unblocked" \/ timer[id] = "removed"}
  /\ UNCHANGED <<rule, row, due, unkept>>

\* Variant with a bug: blocks that expired while the service was down are skipped.
RestartPendingOnly ==
  /\ ~up
  /\ up' = TRUE
  /\ timer' = [id \in BlockIds |-> IF row[id] = "active" /\ id \notin due
                                   THEN "sleeping" ELSE "none"]
  /\ unkept' = {}
  /\ UNCHANGED <<rule, row, due, api, crashes, unclosed>>

\* recover_temporary_firewall_rules: a thread for every active row.
Restart ==
  /\ ~up
  /\ up' = TRUE
  /\ \E lost \in SUBSET BlockIds :
       /\ lost # {} => "spawn" \in BlockFaults
       /\ timer' = [id \in BlockIds |-> IF row[id] = "active" /\ id \notin lost
                                        THEN "sleeping" ELSE "none"]
       /\ unkept' = lost
  /\ UNCHANGED <<rule, row, due, api, crashes, unclosed>>

Response(id) ==
  \/ RecordBlock(id) \/ RecordBlockFails(id)
  \/ RemoveUnblock(id) \/ MarkUnblock(id)

Expiry(id) == WakeTimer(id) \/ RemoveExpired(id) \/ MarkExpired(id)

BlockNext ==
  \/ \E id \in BlockIds :
       \/ AddRule(id) \/ LookupUnblock(id) \/ RejectUnblock(id)
       \/ Response(id) \/ Expiry(id) \/ Elapse(id)
  \/ Crash
  \/ Restart

BlockSpec == BlockInit /\ [][BlockNext]_blockVars

\* A response and an expiry thread run on once started, deadlines pass, and
\* the service manager starts the service again.
BlockFairness ==
  /\ \A id \in BlockIds :
       /\ WF_blockVars(Response(id))
       /\ WF_blockVars(Expiry(id))
       /\ WF_blockVars(Elapse(id))
  /\ WF_blockVars(Restart)

BlockFairSpec == BlockSpec /\ BlockFairness

-----------------------------------------------------------------------------
(***************************************************************************)
(* Properties                                                              *)
(***************************************************************************)

\* A row is marked restored, by whichever of the racing threads, only when
\* its rule is gone: history never says "lifted" of a block still in force.
RestoredMeansGone == \A id \in BlockIds : row[id] = "restored" => id \notin rule

\* Rule and row, which no transaction ties together, agree at rest: an active
\* row without its rule belongs to a removal still under way, or to one cut
\* off between its two steps.
RowFollowsRule ==
  \A id \in BlockIds : row[id] = "active" /\ id \notin rule =>
    api[id] = "unblocked" \/ timer[id] = "removed" \/ id \in unclosed

\* While the service runs, every block it has on record has a live thread
\* that will lift it, restarts included; one whose thread could not be
\* started, or failed, is the exception, until the next restart.
BlockHasKeeper ==
  up => \A id \in rule \ unkept : row[id] = "active" => timer[id] # "none"

\* A block is lifted only at its deadline or by the unblock under way for it;
\* recovery after a restart does not cut it short.
NoEarlyLift ==
  [][\A id \in rule \ rule' : id \in due \/ api[id] = "unblocking"]_blockVars

\* The deadline of a recorded block lifts it, through any finite number of
\* crashes and whatever fails for other blocks.
ExpiryLiftsBlock ==
  \A id \in BlockIds :
    (id \in due /\ row[id] = "active") ~> (id \notin rule \/ id \in unkept)

\* It also closes the record, whichever of the expiry thread and the unblock
\* response wins each step, unless the service dies or the database fails
\* just between the two.
ExpiryClosesRecord ==
  \A id \in BlockIds :
    (id \in due /\ row[id] = "active")
      ~> (row[id] = "restored" \/ id \in unkept \cup unclosed)

\* What the documentation says of every rule (refuted by the code): it goes,
\* at expiry or by rollback, whatever fails on the way.
BlockIsTemporary == \A id \in BlockIds : id \in rule ~> id \notin rule

=============================================================================
