---------------------------- MODULE BehaviorChain ----------------------------
(***************************************************************************)
(* The behaviour chains of the protection thread.  Once per cycle it takes *)
(* a batch of Sysmon events, all stamped with the time of the drain, and   *)
(* adds each to the chain of its process; a rule whose kinds of signal are *)
(* all in the chain raises an alert, at most once per cooldown.  Chains    *)
(* forget signals older than the window; their number, and the length of   *)
(* each, is bounded.                                                       *)
(***************************************************************************)
EXTENDS EventMonitors, FiniteSets

CONSTANTS
  Procs,       \* correlation identifiers: ProcessGuid, or the process id
  Kinds,       \* the kinds of signal events have here
  Never,       \* no time
  Window, Cooldown,        \* CHAIN_WINDOW and ALERT_COOLDOWN
  MaxSignals, MaxChains,   \* MAXIMUM_SIGNALS_PER_CHAIN, MAXIMUM_CHAINS
  MaxTime      \* bound on the clock

AllKinds == {"credential", "injection", "drop", "persistence", "network"}
Rules == {"exfiltration", "beacon", "dropper"}

\* matching_rules: the kinds of signal a rule asks for, in whatever order.
Needs(rule) ==
  CASE rule = "exfiltration" -> {"credential", "network"}
    [] rule = "beacon"       -> {"injection", "network"}
    [] rule = "dropper"      -> {"drop", "persistence", "network"}

\* An event classify makes nothing of has kind "other".
Event == [proc : Procs, kind : Kinds \cup {"other"}]
Signal == [kind : Kinds, at : Nat]

ASSUME ChainConstants ==
  /\ Kinds \subseteq AllKinds
  /\ Signals = Event
  /\ Never \notin Nat
  /\ Window \in Nat /\ Cooldown \in Nat /\ Window < Cooldown
  /\ MaxSignals \in Nat \ {0} /\ MaxChains \in Nat /\ MaxTime \in Nat

VARIABLES
  now,
  pc,        \* "waiting", "ingest" or "evict"
  batch,     \* the drained Sysmon events still to be ingested
  at,        \* the time of the drain
  chains,    \* per process, its signals; an empty chain does not exist
  reported,  \* per process and rule, when it was last reported
  last,      \* history: the last alert
  seen,      \* history: the last signal of each kind
  shortened, \* history: chains that lost a signal to the length bound
  evicted    \* history: chains that lost everything to the number bound

engine == <<chains, reported, last, seen, shortened, evicted>>
vars == <<monitorVars, now, pc, batch, at, engine>>

Times == Nat \cup {Never}

TypeOK ==
  /\ MonitorTypeOK
  /\ now \in Nat /\ at \in Nat
  /\ pc \in {"waiting", "ingest", "evict"}
  /\ batch \in Seq(Event)
  /\ chains \in [Procs -> Seq(Signal)]
  /\ reported \in [Procs \X Rules -> Times]
  /\ last \in [Procs \X Rules -> Times]
  /\ seen \in [Procs \X Kinds -> Times]
  /\ shortened \subseteq Procs /\ evicted \subseteq Procs

Init ==
  /\ MonitorInit
  /\ now = 0 /\ pc = "waiting" /\ batch = <<>> /\ at = 0
  /\ chains = [p \in Procs |-> <<>>]
  /\ reported = [pr \in Procs \X Rules |-> Never]
  /\ last = [pr \in Procs \X Rules |-> Never]
  /\ seen = [pk \in Procs \X Kinds |-> Never]
  /\ shortened = {} /\ evicted = {}

-----------------------------------------------------------------------------
InWindow(signal) == now - signal.at <= Window

\* Variant with a bug: cooldowns are pruned with the window of the signals.
PruneReportedEarly ==
  [pr \in Procs \X Rules |->
     IF reported[pr] # Never /\ now - reported[pr] <= Window
     THEN reported[pr] ELSE Never]

\* Variant with a bug: a chain that is still active keeps all its signals.
PruneIdleChain(p) ==
  IF \E i \in DOMAIN chains[p] : InWindow(chains[p][i]) THEN chains[p] ELSE <<>>

\* prune: cooldowns that are over are forgotten.
PruneReported ==
  [pr \in Procs \X Rules |->
     IF reported[pr] # Never /\ now - reported[pr] <= Cooldown
     THEN reported[pr] ELSE Never]

\* prune: retain keeps the signals within the window.  Signals are added in
\* the order of time, so these are the end of the chain.
Fresh(p) == {i \in DOMAIN chains[p] : InWindow(chains[p][i])}
PruneChain(p) ==
  IF Fresh(p) = {} THEN <<>>
  ELSE SubSeq(chains[p], CHOOSE i \in Fresh(p) : \A j \in Fresh(p) : i <= j, Len(chains[p]))

\* persist_windows_events and persist_sysmon_events drain their monitors and
\* write the timeline, as well as they can; ingest_at starts with prune.
BeginCycle ==
  /\ pc = "waiting"
  /\ Drain({"sysmon", "eventlog"})
  /\ batch' = Batch("sysmon") /\ at' = now
  /\ chains' = [p \in Procs |-> PruneChain(p)]
  /\ reported' = PruneReported
  /\ pc' = "ingest"
  /\ UNCHANGED <<now, last, seen, shortened, evicted>>

\* Variant with a bug: only the first matching rule is looked at.
MatchesFirst(chain, rule) ==
  /\ Needs(rule) \subseteq {chain[i].kind : i \in DOMAIN chain}
  /\ rule = "beacon" => ~(Needs("exfiltration") \subseteq
                            {chain[i].kind : i \in DOMAIN chain})

Matches(chain, rule) == Needs(rule) \subseteq {chain[i].kind : i \in DOMAIN chain}
Cooling(p, rule) == reported[<<p, rule>>] # Never /\ at - reported[<<p, rule>>] < Cooldown

\* push_back, then pop_front down to the bound.
Extended(chain, signal) ==
  IF Len(chain) < MaxSignals THEN Append(chain, signal)
  ELSE Append(Tail(chain), signal)

\* Variant with a bug: an event classify rejects is added all the same.
IngestUnclassified ==
  /\ pc = "ingest" /\ batch # <<>>
  /\ LET e == Head(batch)
     IN  chains' = [chains EXCEPT ![e.proc] =
                      Extended(@, [kind |-> e.kind, at |-> at])]
  /\ batch' = Tail(batch)
  /\ UNCHANGED <<monitorVars, now, pc, at, reported, last, seen, shortened, evicted>>

\* One turn of ingest_at's loop: the signal is added, and every rule that now
\* matches and is not cooling down raises an alert.
Ingest ==
  /\ pc = "ingest" /\ batch # <<>>
  /\ LET e == Head(batch)
         chain == Extended(chains[e.proc], [kind |-> e.kind, at |-> at])
         raised == {rule \in Rules : Matches(chain, rule) /\ ~Cooling(e.proc, rule)}
         alert(f) == [pr \in Procs \X Rules |->
                        IF pr[1] = e.proc /\ pr[2] \in raised THEN at ELSE f[pr]]
     IN  IF e.kind = "other" THEN UNCHANGED engine
         ELSE /\ chains' = [chains EXCEPT ![e.proc] = chain]
              /\ reported' = alert(reported)
              /\ last' = alert(last)
              /\ seen' = [seen EXCEPT ![<<e.proc, e.kind>>] = at]
              /\ shortened' = IF Len(chains[e.proc]) < MaxSignals THEN shortened
                              ELSE shortened \cup {e.proc}
              /\ UNCHANGED evicted
  /\ batch' = Tail(batch)
  /\ UNCHANGED <<monitorVars, now, pc, at>>

EndIngest ==
  /\ pc = "ingest" /\ batch = <<>>
  /\ pc' = "evict"
  /\ UNCHANGED <<monitorVars, now, batch, at, engine>>

Chained == {p \in Procs : chains[p] # <<>>}
LastSeen(p) == chains[p][Len(chains[p])].at

\* One turn of enforce_capacity: the chain seen longest ago goes, and its
\* cooldowns with it; the map's order decides between equals.
Evict(p) ==
  /\ pc = "evict" /\ Cardinality(Chained) > MaxChains
  /\ p \in Chained /\ \A q \in Chained : LastSeen(p) <= LastSeen(q)
  /\ chains' = [chains EXCEPT ![p] = <<>>]
  /\ reported' = [pr \in Procs \X Rules |->
                    IF pr[1] = p THEN Never ELSE reported[pr]]
  /\ evicted' = evicted \cup {p}
  /\ UNCHANGED <<monitorVars, now, pc, batch, at, last, seen, shortened>>

EndCycle ==
  /\ pc = "evict" /\ Cardinality(Chained) <= MaxChains
  /\ pc' = "waiting" /\ at' = 0
  /\ UNCHANGED <<monitorVars, now, batch, engine>>

\* The clock is read once per cycle, so it need not move during one.
Tick ==
  /\ pc = "waiting" /\ now < MaxTime
  /\ now' = now + 1
  /\ UNCHANGED <<monitorVars, pc, batch, at, engine>>

\* drain_etw_activity, by the pipe thread: the events go to the timeline.
DrainEtw == Drain({"etw"}) /\ UNCHANGED <<now, pc, batch, at, engine>>

Notify == Callback /\ UNCHANGED <<now, pc, batch, at, engine>>

Cycle == BeginCycle \/ Ingest \/ EndIngest \/ (\E p \in Procs : Evict(p)) \/ EndCycle
Next == Notify \/ DrainEtw \/ Tick \/ Cycle

Spec == Init /\ [][Next]_vars

-----------------------------------------------------------------------------
(***************************************************************************)
(* Properties                                                              *)
(***************************************************************************)

(* No alert without its evidence (behavior_chain.rs, ingest_at and prune): *)
(* when an alert is raised, a signal of every kind its rule asks for was   *)
(* seen no longer than the window ago.                                     *)
AlertHasEvidence ==
  [][\A p \in Procs, rule \in Rules :
       last'[<<p, rule>>] # last[<<p, rule>>] =>
         \A kind \in Needs(rule) :
           /\ kind \in Kinds /\ seen'[<<p, kind>>] # Never
           /\ at - seen'[<<p, kind>>] <= Window]_vars

(* Duplicate alerts are suppressed for the cooldown (behavior_chain.rs,    *)
(* reported): a rule fires again for a process only a full cooldown after  *)
(* its last alert, unless the process's chain was evicted.                 *)
CooldownHolds ==
  [][\A p \in Procs, rule \in Rules :
       /\ last'[<<p, rule>>] # last[<<p, rule>>] /\ last[<<p, rule>>] # Never
       /\ p \notin evicted
       => at - last[<<p, rule>>] >= Cooldown]_vars

(* No chain is missed (behavior_chain.rs, matching_rules): when the newest *)
(* signals of all kinds a rule asks for lie within one window, however     *)
(* many batches they came in, an alert was raised with the last of them,   *)
(* or less than a cooldown before it; chains that hit a bound excepted.    *)
ChainIsReported ==
  \A p \in Procs \ (shortened \cup evicted), rule \in Rules :
    LET times == {seen[<<p, kind>>] : kind \in Needs(rule)}
    IN  Needs(rule) \subseteq Kinds /\ Never \notin times
          /\ (\A s, t \in times : s - t <= Window)
        => \E t \in times : (\A s \in times : s <= t)
             /\ last[<<p, rule>>] # Never /\ t - last[<<p, rule>>] < Cooldown
=============================================================================
