------------------------ MODULE BehaviorChain_proofs ------------------------
(***************************************************************************)
(* Proofs about BehaviorChain, for every window, cooldown, capacity and    *)
(* number of processes: the counters of the event sources add up, the      *)
(* cooldown between two alerts holds, every alert has its evidence and no  *)
(* chain that is complete within a window goes unreported.                 *)
(***************************************************************************)
EXTENDS BehaviorChain, TLAPS, WellFoundedInduction

USE MonitorConstants, ChainConstants

-----------------------------------------------------------------------------
(***************************************************************************)
(* The event sources                                                       *)
(***************************************************************************)
MonitorInv == MonitorTypeOK /\ EventsAccounted

\* A batch and what it leaves behind have the length of the channel.
LEMMA DrainLengths ==
  ASSUME MonitorTypeOK, NEW m \in Monitors
  PROVE  /\ Rest(m) \in Seq(Signals \cup LogEvents)
         /\ Len(Batch(m)) \in Nat /\ Len(Rest(m)) \in Nat
         /\ Len(Batch(m)) + Len(Rest(m)) = Len(queue[m])
<1> DEFINE q == queue[m]
           n == IF Len(q) < DrainLimit THEN Len(q) ELSE DrainLimit
<1>1. q \in Seq(Signals \cup LogEvents) /\ Len(q) \in Nat /\ n \in 0..Len(q)
  BY DEF MonitorTypeOK
<1>2. Batch(m) = SubSeq(q, 1, n)
  BY DEF Batch
<1> HIDE DEF q, n
<1>3. Len(Batch(m)) = n
  BY <1>1, <1>2
<1>4. Rest(m) = SubSeq(q, n + 1, Len(q))
  BY <1>3 DEF Rest, q
<1>5. Rest(m) \in Seq(Signals \cup LogEvents) /\ Len(Rest(m)) = Len(q) - n
  BY <1>1, <1>4
<1>6. QED
  BY <1>1, <1>3, <1>5 DEF q

\* The balance of one source.
Balanced(m) ==
  /\ received[m] = drained[m] + Len(queue[m]) + dropped[m] + failures[m]
  /\ Len(queue[m]) <= Capacity
Counters(m) == received[m] \in Nat /\ drained[m] \in Nat /\ dropped[m] \in Nat
               /\ failures[m] \in Nat /\ Len(queue[m]) \in Nat

LEMMA OneMore ==
  ASSUME NEW d \in Nat, NEW l \in Nat, NEW x \in Nat, NEW f \in Nat
  PROVE  /\ d + l + x + f + 1 = d + (l + 1) + x + f
         /\ d + l + x + f + 1 = d + l + (x + 1) + f
         /\ d + l + x + f + 1 = d + l + x + (f + 1)
  OBVIOUS

LEMMA CallbackStep == MonitorInv /\ Callback => MonitorInv'
<1> SUFFICES ASSUME MonitorInv, Callback PROVE MonitorInv'
  OBVIOUS
<1>1. \A k \in Monitors : Balanced(k) /\ Counters(k)
  BY DEF MonitorInv, EventsAccounted, MonitorTypeOK, Balanced, Counters
<1>2. ASSUME NEW m \in Monitors, NEW event \in Payload(m), Deliver(m, event)
      PROVE  MonitorTypeOK' /\ \A k \in Monitors : Balanced(k)'
  <2>1. event \in Signals \cup LogEvents
    BY <1>2 DEF Payload
  <2>2. queue[m] \in Seq(Signals \cup LogEvents)
    BY <1>2 DEF MonitorInv, MonitorTypeOK
  <2>3. /\ Append(queue[m], event) \in Seq(Signals \cup LogEvents)
        /\ Len(Append(queue[m], event)) = Len(queue[m]) + 1
    BY <2>1, <2>2
  <2>4. MonitorTypeOK'
    BY <1>2, <2>3 DEF Deliver, Count, MonitorInv, MonitorTypeOK
  <2>5. ASSUME NEW k \in Monitors PROVE Balanced(k)'
    <3>1. drained'[k] = drained[k] /\ dropped'[k] = dropped[k] /\ failures'[k] = failures[k]
      BY <1>2 DEF Deliver
    <3>2. CASE k = m
      <4>1. queue'[k] = Append(queue[k], event) /\ received'[k] = received[k] + 1
            /\ Len(queue[k]) < Capacity
        BY <1>2, <3>2 DEF Deliver, Count, MonitorInv, MonitorTypeOK
      <4>2. Len(queue'[k]) = Len(queue[k]) + 1
        BY <2>3, <3>2, <4>1
      <4>3. Balanced(k) /\ Counters(k)
        BY <1>1
      <4>4. Len(queue'[k]) <= Capacity
        BY <4>1, <4>2, <4>3 DEF Counters
      <4>5. received'[k] = drained'[k] + Len(queue'[k]) + dropped'[k] + failures'[k]
        <5>1. received[k] + 1 = drained[k] + (Len(queue[k]) + 1) + dropped[k] + failures[k]
          BY <4>3, OneMore DEF Balanced, Counters
        <5>2. QED
          BY <3>1, <4>1, <4>2, <5>1
      <4>6. QED
        BY <4>4, <4>5 DEF Balanced
    <3>3. CASE k # m
      <4>1. UNCHANGED <<received[k], queue[k]>>
        BY <1>2, <3>3 DEF Deliver, Count, MonitorInv, MonitorTypeOK
      <4>2. QED
        BY <1>1, <3>1, <4>1 DEF Balanced
    <3>4. QED
      BY <3>2, <3>3
  <2>6. QED
    BY <2>4, <2>5
<1>3. ASSUME NEW m \in Monitors, Overflow(m) \/ ParseFails(m)
      PROVE  MonitorTypeOK' /\ \A k \in Monitors : Balanced(k)'
  <2>1. MonitorTypeOK'
    <3>1. CASE Overflow(m)
      BY <3>1 DEF Overflow, Count, MonitorInv, MonitorTypeOK
    <3>2. CASE ParseFails(m)
      BY <3>2 DEF ParseFails, Count, MonitorInv, MonitorTypeOK
    <3>3. QED
      BY <1>3, <3>1, <3>2
  <2>2. ASSUME NEW k \in Monitors PROVE Balanced(k)'
    <3>1. drained'[k] = drained[k] /\ queue'[k] = queue[k]
      BY <1>3 DEF Overflow, ParseFails
    <3>2. CASE k = m
      <4>1. /\ received'[k] = received[k] + 1
            /\ \/ dropped'[k] = dropped[k] + 1 /\ failures'[k] = failures[k]
               \/ failures'[k] = failures[k] + 1 /\ dropped'[k] = dropped[k]
        BY <1>3, <3>2 DEF Overflow, ParseFails, Count, MonitorInv, MonitorTypeOK
      <4>2. Balanced(k) /\ Counters(k)
        BY <1>1
      <4>3. received'[k] = drained'[k] + Len(queue'[k]) + dropped'[k] + failures'[k]
        <5>1. /\ received[k] + 1 = drained[k] + Len(queue[k]) + (dropped[k] + 1) + failures[k]
              /\ received[k] + 1 = drained[k] + Len(queue[k]) + dropped[k] + (failures[k] + 1)
          <6>1. /\ received[k] = drained[k] + Len(queue[k]) + dropped[k] + failures[k]
                /\ drained[k] \in Nat /\ Len(queue[k]) \in Nat
                /\ dropped[k] \in Nat /\ failures[k] \in Nat
            BY <4>2 DEF Balanced, Counters
          <6>2. QED
            <7>1. received[k] + 1 = drained[k] + Len(queue[k]) + (dropped[k] + 1) + failures[k]
              <8> DEFINE d == drained[k]
                         l == Len(queue[k])
                         x == dropped[k]
                         f == failures[k]
              <8>1. d \in Nat /\ l \in Nat /\ x \in Nat /\ f \in Nat /\ received[k] = d + l + x + f
                BY <6>1
              <8> HIDE DEF d, l, x, f
              <8>2. received[k] + 1 = d + l + (x + 1) + f
                BY <8>1
              <8>3. QED
                BY <8>2 DEF d, l, x, f
            <7>2. received[k] + 1 = drained[k] + Len(queue[k]) + dropped[k] + (failures[k] + 1)
              BY <6>1, OneMore
            <7>3. QED
              BY <7>1, <7>2
        <5>2. CASE dropped'[k] = dropped[k] + 1 /\ failures'[k] = failures[k]
          <6>1. received'[k] = received[k] + 1 /\ Len(queue'[k]) = Len(queue[k])
            BY <3>1, <4>1
          <6>2. QED
            BY <3>1, <5>1, <5>2, <6>1
        <5>3. CASE failures'[k] = failures[k] + 1 /\ dropped'[k] = dropped[k]
          BY <3>1, <4>1, <5>1, <5>3
        <5>4. QED
          BY <4>1, <5>2, <5>3
      <4>4. QED
        BY <3>1, <4>2, <4>3 DEF Balanced
    <3>3. CASE k # m
      <4>1. UNCHANGED <<received[k], dropped[k], failures[k]>>
        BY <1>3, <3>3 DEF Overflow, ParseFails, Count, MonitorInv, MonitorTypeOK
      <4>2. QED
        BY <1>1, <3>1, <4>1 DEF Balanced
    <3>4. QED
      BY <3>2, <3>3
  <2>3. QED
    BY <2>1, <2>2
<1>4. QED
  BY <1>2, <1>3 DEF Callback, MonitorInv, EventsAccounted, Balanced

LEMMA DrainStep ==
  ASSUME MonitorInv, NEW ms \in SUBSET Monitors, Drain(ms)
  PROVE  MonitorInv'
<1>1. MonitorTypeOK'
  BY DrainLengths DEF Drain, MonitorInv, MonitorTypeOK
<1>2. ASSUME NEW k \in Monitors
      PROVE  /\ received'[k] = drained'[k] + Len(queue'[k]) + dropped'[k] + failures'[k]
             /\ Len(queue'[k]) <= Capacity
  <2>1. /\ received[k] = drained[k] + Len(queue[k]) + dropped[k] + failures[k]
        /\ Len(queue[k]) <= Capacity /\ Len(queue[k]) \in Nat
        /\ received'[k] = received[k] /\ dropped'[k] = dropped[k] /\ failures'[k] = failures[k]
        /\ drained[k] \in Nat /\ dropped[k] \in Nat /\ failures[k] \in Nat
    BY DEF Drain, MonitorInv, MonitorTypeOK, EventsAccounted
  <2>2. CASE k \in ms
    <3>1. queue'[k] = Rest(k) /\ drained'[k] = drained[k] + Len(Batch(k))
      BY <2>2 DEF Drain
    <3>2. /\ Len(Batch(k)) \in Nat /\ Len(Rest(k)) \in Nat
          /\ Len(Batch(k)) + Len(Rest(k)) = Len(queue[k])
      BY DrainLengths DEF MonitorInv
    <3>3. QED
      BY <2>1, <3>1, <3>2
  <2>3. CASE k \notin ms
    BY <2>1, <2>3 DEF Drain
  <2>4. QED
    BY <2>2, <2>3
<1>3. QED
  BY <1>1, <1>2 DEF MonitorInv, EventsAccounted

LEMMA MonitorStep == MonitorInv /\ [Next]_vars => MonitorInv'
<1> SUFFICES ASSUME MonitorInv, [Next]_vars PROVE MonitorInv'
  OBVIOUS
<1>1. CASE Notify
  BY <1>1, CallbackStep DEF Notify
<1>2. CASE DrainEtw
  BY <1>2, DrainStep DEF DrainEtw, Monitors
<1>3. CASE BeginCycle
  BY <1>3, DrainStep DEF BeginCycle, Monitors
<1>4. CASE UNCHANGED monitorVars
  BY <1>4 DEF monitorVars, MonitorInv, MonitorTypeOK, EventsAccounted
<1>5. QED
  BY <1>1, <1>2, <1>3, <1>4
     DEF Next, Cycle, Tick, Ingest, EndIngest, Evict, EndCycle, vars

(* Every event a source delivered was drained, waits in its channel, or is *)
(* counted as dropped or unreadable, whatever the capacities and however   *)
(* callbacks and drains interleave (sysmon.rs and eventlog.rs,             *)
(* subscription_callback; main.rs, spawn_etw_reader).                      *)
THEOREM EventsAccountedHolds == Spec => []EventsAccounted
<1>1. Init => MonitorInv
  BY DEF Init, MonitorInit, MonitorInv, MonitorTypeOK, EventsAccounted
<1>2. MonitorInv => EventsAccounted
  BY DEF MonitorInv
<1>3. QED
  BY <1>1, <1>2, MonitorStep, PTL DEF Spec

-----------------------------------------------------------------------------
(***************************************************************************)
(* The cooldown                                                            *)
(***************************************************************************)

\* Within a cycle the clock stands still; the table of cooldowns forgets the
\* last alert of a chain only when it is old enough, or the chain is evicted.
CooldownInv ==
  /\ now \in Nat /\ at \in Nat
  /\ pc = "ingest" => at = now
  /\ reported \in [Procs \X Rules -> Times]
  /\ last \in [Procs \X Rules -> Times]
  /\ \A p \in Procs, rule \in Rules :
       /\ last[<<p, rule>>] # Never => last[<<p, rule>>] <= now
       /\ p \notin evicted /\ last[<<p, rule>>] # Never =>
            \/ reported[<<p, rule>>] = last[<<p, rule>>]
            \/ reported[<<p, rule>>] = Never /\ now - last[<<p, rule>>] > Cooldown

LEMMA CooldownInit == Init => CooldownInv
<1> SUFFICES ASSUME Init PROVE CooldownInv
  OBVIOUS
<1>1. now \in Nat /\ at \in Nat /\ pc # "ingest"
  BY DEF Init
<1>2. /\ reported \in [Procs \X Rules -> Times]
      /\ last \in [Procs \X Rules -> Times]
      /\ \A p \in Procs, rule \in Rules : last[<<p, rule>>] = Never
  BY DEF Init, Times
<1>3. QED
  BY <1>1, <1>2 DEF CooldownInv

LEMMA IngestStep ==
  ASSUME CooldownInv, Ingest
  PROVE  /\ CooldownInv'
         /\ \A p \in Procs, rule \in Rules :
              /\ last'[<<p, rule>>] # last[<<p, rule>>] /\ last[<<p, rule>>] # Never
              /\ p \notin evicted
              => at - last[<<p, rule>>] >= Cooldown
<1> DEFINE e == Head(batch)
           chain == Extended(chains[e.proc], [kind |-> e.kind, at |-> at])
           raised == {rule \in Rules : Matches(chain, rule) /\ ~Cooling(e.proc, rule)}
<1>1. at = now /\ at \in Nat /\ now' = now /\ at' = at /\ pc' = pc
  BY DEF Ingest, CooldownInv
<1>2. CASE e.kind = "other"
  <2>1. UNCHANGED engine
    BY <1>2 DEF Ingest
  <2>2. QED
    BY <1>1, <2>1 DEF CooldownInv, engine
<1>3. CASE e.kind # "other"
  <2>1. /\ reported' = [pr \in Procs \X Rules |->
                          IF pr[1] = e.proc /\ pr[2] \in raised THEN at ELSE reported[pr]]
        /\ last' = [pr \in Procs \X Rules |->
                      IF pr[1] = e.proc /\ pr[2] \in raised THEN at ELSE last[pr]]
        /\ evicted' = evicted
    BY <1>3 DEF Ingest
  <2> HIDE DEF e, raised
  <2>2. reported' \in [Procs \X Rules -> Times] /\ last' \in [Procs \X Rules -> Times]
    BY <1>1, <2>1 DEF CooldownInv, Times
  <2>3. ASSUME NEW p \in Procs, NEW rule \in Rules
        PROVE  /\ last'[<<p, rule>>] # Never => last'[<<p, rule>>] <= now
               /\ p \notin evicted /\ last'[<<p, rule>>] # Never =>
                    \/ reported'[<<p, rule>>] = last'[<<p, rule>>]
                    \/ reported'[<<p, rule>>] = Never /\ now - last'[<<p, rule>>] > Cooldown
               /\ last'[<<p, rule>>] # last[<<p, rule>>] /\ last[<<p, rule>>] # Never
                    /\ p \notin evicted =>
                    at - last[<<p, rule>>] >= Cooldown
    <3>1. CASE p = e.proc /\ rule \in raised
      <4>1. last'[<<p, rule>>] = at /\ reported'[<<p, rule>>] = at
        BY <2>1, <3>1
      <4>2. reported[<<p, rule>>] # Never => ~(at - reported[<<p, rule>>] < Cooldown)
        BY <3>1 DEF raised, Cooling
      <4>3. last[<<p, rule>>] \in Times /\ reported[<<p, rule>>] \in Times
        BY DEF CooldownInv
      <4>4. p \notin evicted /\ last[<<p, rule>>] # Never =>
                    \/ reported[<<p, rule>>] = last[<<p, rule>>]
                    \/ reported[<<p, rule>>] = Never /\ now - last[<<p, rule>>] > Cooldown
        BY DEF CooldownInv
      <4>5. QED
        <5>1. last'[<<p, rule>>] \in Nat /\ last'[<<p, rule>>] <= now
          BY <1>1, <4>1
        <5>2. ASSUME last[<<p, rule>>] # Never, p \notin evicted
              PROVE  at - last[<<p, rule>>] >= Cooldown
          <6>1. last[<<p, rule>>] \in Nat
            BY <4>3, <5>2 DEF Times
          <6>2. CASE reported[<<p, rule>>] = last[<<p, rule>>]
            BY <1>1, <4>2, <5>2, <6>1, <6>2
          <6>3. CASE reported[<<p, rule>>] = Never /\ now - last[<<p, rule>>] > Cooldown
            BY <1>1, <6>1, <6>3
          <6>4. QED
            BY <4>4, <5>2, <6>2, <6>3
        <5>3. QED
          BY <4>1, <5>1, <5>2
    <3>2. CASE ~(p = e.proc /\ rule \in raised)
      <4>1. last'[<<p, rule>>] = last[<<p, rule>>] /\ reported'[<<p, rule>>] = reported[<<p, rule>>]
        BY <2>1, <3>2
      <4>2. QED
        BY <4>1 DEF CooldownInv
    <3>3. QED
      BY <3>1, <3>2
  <2>4. QED
    BY <1>1, <2>1, <2>2, <2>3 DEF CooldownInv
<1>4. QED
  BY <1>2, <1>3

LEMMA CooldownStep == CooldownInv /\ [Next]_vars => CooldownInv'
<1> SUFFICES ASSUME CooldownInv, [Next]_vars PROVE CooldownInv'
  OBVIOUS
<1>1. CASE Notify
  BY <1>1 DEF Notify, CooldownInv, engine
<1>2. CASE DrainEtw
  BY <1>2 DEF DrainEtw, CooldownInv, engine
<1>3. CASE Tick
  <2>1. /\ now' = now + 1 /\ pc = "waiting" /\ pc' = pc /\ at' = at
        /\ reported' = reported /\ last' = last /\ evicted' = evicted
    BY <1>3 DEF Tick, engine
  <2>2. ASSUME NEW p \in Procs, NEW rule \in Rules
        PROVE  /\ last'[<<p, rule>>] # Never => last'[<<p, rule>>] <= now'
               /\ p \notin evicted' /\ last'[<<p, rule>>] # Never =>
                    \/ reported'[<<p, rule>>] = last'[<<p, rule>>]
                    \/ reported'[<<p, rule>>] = Never /\ now' - last'[<<p, rule>>] > Cooldown
    <3>1. now \in Nat /\ (last[<<p, rule>>] # Never => last[<<p, rule>>] \in Nat)
      BY DEF CooldownInv, Times
    <3>2. CASE last[<<p, rule>>] = Never
      BY <2>1, <3>2
    <3>3. CASE last[<<p, rule>>] # Never
      <4>1. /\ last[<<p, rule>>] <= now
            /\ p \notin evicted =>
                 \/ reported[<<p, rule>>] = last[<<p, rule>>]
                 \/ reported[<<p, rule>>] = Never /\ now - last[<<p, rule>>] > Cooldown
        BY <3>3 DEF CooldownInv
      <4>2. last[<<p, rule>>] <= now + 1
            /\ (now - last[<<p, rule>>] > Cooldown => now + 1 - last[<<p, rule>>] > Cooldown)
        BY <3>1, <3>3, <4>1
      <4>3. QED
        <5>1. CASE p \in evicted
          BY <2>1, <4>2, <5>1
        <5>2. CASE reported[<<p, rule>>] = last[<<p, rule>>]
          BY <2>1, <4>2, <5>2
        <5>3. CASE reported[<<p, rule>>] = Never /\ now - last[<<p, rule>>] > Cooldown
          <6>1. /\ last'[<<p, rule>>] = last[<<p, rule>>]
                /\ reported'[<<p, rule>>] = Never
            BY <2>1, <5>3
          <6>2. now' - last[<<p, rule>>] > Cooldown /\ last[<<p, rule>>] <= now'
            BY <2>1, <3>1, <3>3, <4>2, <5>3
          <6>3. QED
            BY <6>1, <6>2, Zenon
        <5>4. QED
          BY <4>1, <5>1, <5>2, <5>3
    <3>4. QED
      BY <3>2, <3>3
  <2>3. now' \in Nat /\ at' \in Nat /\ pc' # "ingest"
    BY <2>1 DEF CooldownInv
  <2>4. reported' \in [Procs \X Rules -> Times] /\ last' \in [Procs \X Rules -> Times]
    BY <2>1 DEF CooldownInv
  <2>5. QED
    BY <2>2, <2>3, <2>4 DEF CooldownInv
<1>4. CASE BeginCycle
  <2>1. /\ reported' = PruneReported /\ at' = now
        /\ UNCHANGED <<now, last, evicted>>
    BY <1>4 DEF BeginCycle
  <2>2. reported' \in [Procs \X Rules -> Times]
    BY <2>1 DEF PruneReported, CooldownInv, Times
  <2>3. ASSUME NEW p \in Procs, NEW rule \in Rules, p \notin evicted, last[<<p, rule>>] # Never
        PROVE  \/ reported'[<<p, rule>>] = last[<<p, rule>>]
               \/ reported'[<<p, rule>>] = Never /\ now - last[<<p, rule>>] > Cooldown
    <3>1. reported'[<<p, rule>>] =
            IF reported[<<p, rule>>] # Never /\ now - reported[<<p, rule>>] <= Cooldown
            THEN reported[<<p, rule>>] ELSE Never
      BY <2>1 DEF PruneReported
    <3>2. /\ last[<<p, rule>>] \in Nat /\ now \in Nat
          /\ \/ reported[<<p, rule>>] = last[<<p, rule>>]
             \/ reported[<<p, rule>>] = Never /\ now - last[<<p, rule>>] > Cooldown
      BY <2>3 DEF CooldownInv, Times
    <3>3. CASE reported[<<p, rule>>] = last[<<p, rule>>]
      <4>1. CASE now - last[<<p, rule>>] <= Cooldown
        BY <2>3, <3>1, <3>3, <4>1
      <4>2. CASE ~(now - last[<<p, rule>>] <= Cooldown)
        <5>1. reported'[<<p, rule>>] = Never
          BY <3>1, <3>3, <4>2
        <5>2. now - last[<<p, rule>>] > Cooldown
          BY <3>2, <4>2
        <5>3. QED
          BY <5>1, <5>2
      <4>3. QED
        BY <4>1, <4>2
    <3>4. CASE reported[<<p, rule>>] = Never /\ now - last[<<p, rule>>] > Cooldown
      BY <3>1, <3>4
    <3>5. QED
      BY <3>2, <3>3, <3>4
  <2>4. QED
    BY <2>1, <2>2, <2>3 DEF CooldownInv
<1>5. CASE Ingest
  BY <1>5, IngestStep
<1>6. CASE EndIngest
  BY <1>6 DEF EndIngest, CooldownInv, engine
<1>7. ASSUME NEW p \in Procs, Evict(p) PROVE CooldownInv'
  BY <1>7 DEF Evict, CooldownInv, Times
<1>8. CASE EndCycle
  BY <1>8 DEF EndCycle, CooldownInv, engine
<1>9. CASE UNCHANGED vars
  BY <1>9 DEF vars, engine, CooldownInv
<1>10. QED
  BY <1>1, <1>2, <1>3, <1>4, <1>5, <1>6, <1>7, <1>8, <1>9 DEF Next, Cycle

(* The same rule alerts on the same process at most once per cooldown,     *)
(* across any number of batches, unless the chain was evicted; pruning the *)
(* table never forgets an alert that is still cooling down                 *)
(* (behavior_chain.rs, ingest_at and prune).                               *)
THEOREM CooldownCorrect == Spec => CooldownHolds
<1>1. ASSUME CooldownInv, [Next]_vars
      PROVE  [\A p \in Procs, rule \in Rules :
                /\ last'[<<p, rule>>] # last[<<p, rule>>] /\ last[<<p, rule>>] # Never
                /\ p \notin evicted
                => at - last[<<p, rule>>] >= Cooldown]_vars
  <2>1. CASE Ingest
    BY <1>1, <2>1, IngestStep
  <2>2. CASE last' = last
    BY <2>2
  <2>3. QED
    BY <1>1, <2>1, <2>2 DEF Next, Cycle, Notify, DrainEtw, Tick, BeginCycle, EndIngest,
       Evict, EndCycle, engine, vars
<1>2. QED
  BY <1>1, CooldownInit, CooldownStep, PTL DEF Spec, CooldownHolds

-----------------------------------------------------------------------------
(***************************************************************************)
(* What the chains hold                                                    *)
(***************************************************************************)

\* A chain is in the order of time.
Ordered(p) ==
  \A i, j \in DOMAIN chains[p] : i <= j => chains[p][i].at <= chains[p][j].at

\* Its signals were seen, and while events are ingested none is too old.
Sound(p) ==
  \A i \in DOMAIN chains[p] :
    /\ chains[p][i].at <= now
    /\ seen[<<p, chains[p][i].kind>>] # Never
    /\ chains[p][i].at <= seen[<<p, chains[p][i].kind>>]
    /\ pc = "ingest" => now - chains[p][i].at <= Window

\* The newest signal of a kind is in the chain for as long as the window lasts,
\* unless the chain hit a bound.
Complete(p) ==
  p \notin shortened \cup evicted =>
    \A kind \in Kinds :
      seen[<<p, kind>>] # Never /\ now - seen[<<p, kind>>] <= Window =>
        \E i \in DOMAIN chains[p] :
          chains[p][i].kind = kind /\ chains[p][i].at = seen[<<p, kind>>]

ChainInv ==
  /\ TypeOK
  /\ queue["sysmon"] \in Seq(Event)
  /\ pc = "ingest" => at = now
  /\ \A pk \in Procs \X Kinds : seen[pk] # Never => seen[pk] <= now
  /\ \A pr \in Procs \X Rules : reported[pr] # Never => reported[pr] = last[pr]
  /\ \A p \in Procs : Ordered(p) /\ Sound(p) /\ Complete(p)

\* A set of indices has a least one.
LEMMA LeastIndex ==
  ASSUME NEW S \in SUBSET Nat, S # {}
  PROVE  \E i \in S : \A j \in S : i <= j
<1> DEFINE R == OpToRel(<, Nat)
<1>1. IsWellFoundedOn(R, Nat)
  BY NatLessThanWellFounded DEF R
<1>2. \E i \in S : \A j \in S : ~(<<j, i>> \in R)
  <2> HIDE DEF R
  <2>1. QED
    BY <1>1, WFMin
<1>3. \E i \in S : \A j \in S : ~(j < i)
  BY <1>2 DEF OpToRel
<1>4. QED
  BY <1>3

\* What prune leaves of a chain: the signals within the window, all of them,
\* in their order.
LEMMA PrunedChain ==
  ASSUME NEW p \in Procs, chains[p] \in Seq(Signal), now \in Nat, Ordered(p)
  PROVE  /\ PruneChain(p) \in Seq(Signal)
         /\ \A j \in DOMAIN PruneChain(p) :
              \E i \in Fresh(p) : PruneChain(p)[j] = chains[p][i]
         /\ \A i \in Fresh(p) :
              \E j \in DOMAIN PruneChain(p) : PruneChain(p)[j] = chains[p][i]
         /\ \A i, j \in DOMAIN PruneChain(p) :
              i <= j => PruneChain(p)[i].at <= PruneChain(p)[j].at
<1> DEFINE c == chains[p]
           n == Len(c)
           m == CHOOSE i \in Fresh(p) : \A j \in Fresh(p) : i <= j
<1>1. n \in Nat /\ DOMAIN c = 1..n /\ \A i \in 1..n : c[i] \in Signal
  OBVIOUS
<1>2. Fresh(p) \subseteq 1..n
  BY <1>1 DEF Fresh
<1>3. CASE Fresh(p) = {}
  BY <1>3 DEF PruneChain
<1>4. CASE Fresh(p) # {}
  <2>1. m \in Fresh(p) /\ \A j \in Fresh(p) : m <= j
    <3>1. Fresh(p) \in SUBSET Nat
      BY <1>2
    <3>2. \E i \in Fresh(p) : \A j \in Fresh(p) : i <= j
      BY <1>4, <3>1, LeastIndex
    <3>3. QED
      BY <3>2
  <2>2. PruneChain(p) = SubSeq(c, m, n)
    BY <1>4 DEF PruneChain
  <2> HIDE DEF m
  <2>3. m \in 1..n
    BY <1>2, <2>1
  <2>4. /\ PruneChain(p) \in Seq(Signal) /\ Len(PruneChain(p)) = n - m + 1
        /\ DOMAIN PruneChain(p) = 1..(n - m + 1)
        /\ \A j \in 1..(n - m + 1) : PruneChain(p)[j] = c[m + j - 1]
    BY <1>1, <2>2, <2>3
  <2>5. \A i \in m..n : i \in Fresh(p)
    <3> SUFFICES ASSUME NEW i \in m..n PROVE i \in Fresh(p)
      OBVIOUS
    <3>1. i \in 1..n /\ m <= i
      BY <1>1, <2>3
    <3>2. c[m].at <= c[i].at /\ c[m].at \in Nat /\ c[i].at \in Nat
      BY <1>1, <2>3, <3>1 DEF Ordered, Signal
    <3>3. now - c[m].at <= Window
      BY <2>1 DEF Fresh, InWindow
    <3>4. now - c[i].at <= Window
      BY <3>2, <3>3
    <3>5. QED
      BY <1>1, <3>1, <3>4 DEF Fresh, InWindow
  <2>6. \A j \in DOMAIN PruneChain(p) : \E i \in Fresh(p) : PruneChain(p)[j] = chains[p][i]
    <3> SUFFICES ASSUME NEW j \in 1..(n - m + 1)
                 PROVE  \E i \in Fresh(p) : PruneChain(p)[j] = chains[p][i]
      BY <2>4
    <3>1. m + j - 1 \in m..n
      BY <1>1, <2>3
    <3>2. QED
      BY <2>4, <2>5, <3>1
  <2>7. \A i \in Fresh(p) : \E j \in DOMAIN PruneChain(p) : PruneChain(p)[j] = chains[p][i]
    <3> SUFFICES ASSUME NEW i \in Fresh(p)
                 PROVE  \E j \in DOMAIN PruneChain(p) : PruneChain(p)[j] = chains[p][i]
      OBVIOUS
    <3>1. i \in 1..n /\ m <= i
      BY <1>2, <2>1
    <3>2. i - m + 1 \in 1..(n - m + 1) /\ m + (i - m + 1) - 1 = i
      BY <1>1, <2>3, <3>1
    <3>3. QED
      BY <2>4, <3>2
  <2>8. ASSUME NEW i \in DOMAIN PruneChain(p), NEW j \in DOMAIN PruneChain(p), i <= j
        PROVE  PruneChain(p)[i].at <= PruneChain(p)[j].at
    <3>1. m + i - 1 \in 1..n /\ m + j - 1 \in 1..n /\ m + i - 1 <= m + j - 1
      BY <1>1, <2>3, <2>4, <2>8
    <3>2. c[m + i - 1].at <= c[m + j - 1].at
      BY <1>1, <3>1 DEF Ordered
    <3>3. QED
      BY <2>4, <2>8, <3>2
  <2>9. QED
    BY <2>4, <2>6, <2>7, <2>8
<1>5. QED
  BY <1>3, <1>4

LEMMA ChainInit == Init => ChainInv
<1> SUFFICES ASSUME Init PROVE ChainInv
  OBVIOUS
<1>1. MonitorTypeOK /\ queue["sysmon"] \in Seq(Event)
  BY DEF Init, MonitorInit, MonitorTypeOK, Monitors
<1>2. TypeOK
  BY <1>1 DEF Init, TypeOK, Times
<1>3. \A p \in Procs : Ordered(p) /\ Sound(p) /\ Complete(p)
  BY DEF Init, Ordered, Sound, Complete
<1>4. QED
  BY <1>1, <1>2, <1>3 DEF Init, ChainInv

LEMMA EndOfSequence ==
  ASSUME NEW T, NEW q \in Seq(T), NEW n \in 0..Len(q)
  PROVE  SubSeq(q, n + 1, Len(q)) \in Seq(T)
  OBVIOUS

\* The channel of Sysmon holds Sysmon events.
LEMMA SysmonQueue ==
  ASSUME MonitorTypeOK, queue["sysmon"] \in Seq(Event), [Next]_vars
  PROVE  queue'["sysmon"] \in Seq(Event)
<1>1. "sysmon" \in Monitors
  BY DEF Monitors
<1>2. ASSUME NEW m \in Monitors, NEW event \in Payload(m), Deliver(m, event)
      PROVE  queue'["sysmon"] \in Seq(Event)
  <2>1. CASE m = "sysmon"
    <3>1. event \in Event
      BY <2>1 DEF Payload
    <3>2. queue'["sysmon"] = Append(queue["sysmon"], event)
      BY <1>1, <1>2, <2>1 DEF Deliver, MonitorTypeOK
    <3>3. QED
      BY <3>1, <3>2
  <2>2. CASE m # "sysmon"
    BY <1>1, <1>2, <2>2 DEF Deliver, MonitorTypeOK
  <2>3. QED
    BY <2>1, <2>2
<1>3. ASSUME NEW ms \in SUBSET Monitors, Drain(ms)
      PROVE  queue'["sysmon"] \in Seq(Event)
  <2> DEFINE q == queue["sysmon"]
             n == IF Len(q) < DrainLimit THEN Len(q) ELSE DrainLimit
  <2>1. q \in Seq(Event) /\ Len(q) \in Nat /\ n \in 0..Len(q)
    OBVIOUS
  <2>2. Batch("sysmon") = SubSeq(q, 1, n)
    BY DEF Batch
  <2> HIDE DEF q, n
  <2>3. Len(Batch("sysmon")) = n
    BY <2>1, <2>2
  <2>4. Rest("sysmon") = SubSeq(q, n + 1, Len(q))
    BY <2>3 DEF Rest, q
  <2>5. Rest("sysmon") \in Seq(Event)
    BY <2>1, <2>4, EndOfSequence
  <2>6. QED
    BY <1>1, <1>3, <2>5 DEF Drain
<1>4. CASE Notify
  BY <1>2, <1>4 DEF Notify, Callback, Overflow, ParseFails
<1>5. CASE DrainEtw \/ BeginCycle
  BY <1>3, <1>5 DEF DrainEtw, BeginCycle, Monitors
<1>6. CASE UNCHANGED queue
  BY <1>6
<1>7. QED
  BY <1>4, <1>5, <1>6
     DEF Next, Cycle, Tick, Ingest, EndIngest, Evict, EndCycle, vars, monitorVars

\* Steps that leave the chains alone and do not begin to ingest.
LEMMA ChainQuiet ==
  ASSUME ChainInv, UNCHANGED engine, MonitorTypeOK', queue'["sysmon"] \in Seq(Event),
         now' \in Nat, now' >= now, at' \in Nat, batch' \in Seq(Event),
         pc' \in {"waiting", "ingest", "evict"},
         pc' = "ingest" => pc = "ingest" /\ now' = now /\ at' = at
  PROVE  ChainInv'
<1>1. TypeOK'
  BY DEF ChainInv, TypeOK, engine
<1>2. \A pk \in Procs \X Kinds : seen'[pk] # Never => seen'[pk] <= now'
  <2> SUFFICES ASSUME NEW pk \in Procs \X Kinds, seen'[pk] # Never PROVE seen'[pk] <= now'
    OBVIOUS
  <2>1. seen'[pk] = seen[pk] /\ seen[pk] \in Nat /\ seen[pk] <= now /\ now \in Nat
    BY DEF ChainInv, TypeOK, engine, Times
  <2>2. QED
    BY <2>1
<1>3. \A p \in Procs : Ordered(p)'
  BY DEF ChainInv, engine, Ordered
<1>4. \A p \in Procs : Sound(p)'
  <2> SUFFICES ASSUME NEW p \in Procs, NEW i \in DOMAIN chains[p]
               PROVE  /\ chains[p][i].at <= now'
                      /\ seen[<<p, chains[p][i].kind>>] # Never
                      /\ chains[p][i].at <= seen[<<p, chains[p][i].kind>>]
                      /\ pc' = "ingest" => now' - chains[p][i].at <= Window
    BY DEF Sound, engine
  <2>1. chains[p][i] \in Signal /\ now \in Nat
    BY DEF ChainInv, TypeOK
  <2>2. /\ chains[p][i].at <= now
        /\ seen[<<p, chains[p][i].kind>>] # Never
        /\ chains[p][i].at <= seen[<<p, chains[p][i].kind>>]
        /\ pc = "ingest" => now - chains[p][i].at <= Window
    BY DEF ChainInv, Sound
  <2>3. chains[p][i].at <= now'
    BY <2>1, <2>2 DEF Signal
  <2>4. QED
    BY <2>2, <2>3
<1>5. \A p \in Procs : Complete(p)'
  <2> SUFFICES ASSUME NEW p \in Procs, p \notin shortened \cup evicted, NEW kind \in Kinds,
                      seen[<<p, kind>>] # Never, now' - seen[<<p, kind>>] <= Window
               PROVE  \E i \in DOMAIN chains[p] :
                        chains[p][i].kind = kind /\ chains[p][i].at = seen[<<p, kind>>]
    BY DEF Complete, engine
  <2>1. seen[<<p, kind>>] \in Nat /\ now \in Nat
    BY DEF ChainInv, TypeOK, Times
  <2>2. now - seen[<<p, kind>>] <= Window
    BY <2>1
  <2>3. QED
    BY <2>2 DEF ChainInv, Complete
<1>6. QED
  BY <1>1, <1>2, <1>3, <1>4, <1>5 DEF ChainInv, engine

\* A cycle begins by pruning.
LEMMA ChainBegin ==
  ASSUME ChainInv, BeginCycle, MonitorTypeOK', queue'["sysmon"] \in Seq(Event)
  PROVE  ChainInv'
<1>1. /\ batch' = Batch("sysmon") /\ at' = now /\ now' = now /\ pc' = "ingest"
      /\ chains' = [p \in Procs |-> PruneChain(p)] /\ reported' = PruneReported
      /\ UNCHANGED <<last, seen, shortened, evicted>>
  BY DEF BeginCycle
<1>2. TypeOK /\ now \in Nat /\ \A p \in Procs : chains[p] \in Seq(Signal) /\ Ordered(p)
  BY DEF ChainInv, TypeOK
<1>3. Batch("sysmon") \in Seq(Event)
  BY DEF ChainInv, Batch
<1>4. /\ reported' \in [Procs \X Rules -> Times]
      /\ \A pr \in Procs \X Rules : reported'[pr] # Never => reported'[pr] = last'[pr]
  BY <1>1, <1>2 DEF PruneReported, ChainInv, TypeOK, Times
<1>5. chains' \in [Procs -> Seq(Signal)]
  BY <1>1, <1>2, PrunedChain
<1>6. TypeOK'
  BY <1>1, <1>2, <1>3, <1>4, <1>5 DEF TypeOK
<1>7. ASSUME NEW p \in Procs PROVE Ordered(p)' /\ Sound(p)' /\ Complete(p)'
  <2>1. chains'[p] = PruneChain(p)
    BY <1>1
  <2>2. Ordered(p)'
    BY <1>2, <2>1, PrunedChain DEF Ordered
  <2>3. ASSUME NEW j \in DOMAIN chains'[p]
        PROVE  /\ chains'[p][j].at <= now
               /\ seen[<<p, chains'[p][j].kind>>] # Never
               /\ chains'[p][j].at <= seen[<<p, chains'[p][j].kind>>]
               /\ now - chains'[p][j].at <= Window
    <3>1. PICK i \in Fresh(p) : chains'[p][j] = chains[p][i]
      BY <1>2, <2>1, PrunedChain
    <3>2. i \in DOMAIN chains[p] /\ now - chains[p][i].at <= Window
      BY DEF Fresh, InWindow
    <3>3. QED
      BY <3>1, <3>2 DEF ChainInv, Sound
  <2>4. Sound(p)'
    BY <1>1, <2>3 DEF Sound
  <2>5. ASSUME p \notin shortened \cup evicted, NEW kind \in Kinds,
               seen[<<p, kind>>] # Never, now - seen[<<p, kind>>] <= Window
        PROVE  \E j \in DOMAIN chains'[p] :
                 chains'[p][j].kind = kind /\ chains'[p][j].at = seen[<<p, kind>>]
    <3>1. PICK i \in DOMAIN chains[p] :
            chains[p][i].kind = kind /\ chains[p][i].at = seen[<<p, kind>>]
      BY <2>5 DEF ChainInv, Complete
    <3>2. i \in Fresh(p)
      BY <2>5, <3>1 DEF Fresh, InWindow
    <3>3. QED
      BY <1>2, <2>1, <3>1, <3>2, PrunedChain
  <2>6. Complete(p)'
    BY <1>1, <2>5 DEF Complete
  <2>7. QED
    BY <2>2, <2>4, <2>6
<1>8. \A pk \in Procs \X Kinds : seen'[pk] # Never => seen'[pk] <= now'
  BY <1>1 DEF ChainInv
<1>9. QED
  BY <1>1, <1>4, <1>6, <1>7, <1>8 DEF ChainInv

\* What push_back and pop_front leave in a chain.
LEMMA ExtendedChain ==
  ASSUME NEW c \in Seq(Signal), NEW signal \in Signal,
         \A i, j \in DOMAIN c : i <= j => c[i].at <= c[j].at,
         \A i \in DOMAIN c : c[i].at <= signal.at
  PROVE  /\ Extended(c, signal) \in Seq(Signal)
         /\ \E j \in DOMAIN Extended(c, signal) : Extended(c, signal)[j] = signal
         /\ \A j \in DOMAIN Extended(c, signal) :
              \/ Extended(c, signal)[j] = signal
              \/ \E i \in DOMAIN c : Extended(c, signal)[j] = c[i]
         /\ Len(c) < MaxSignals =>
              \A i \in DOMAIN c : \E j \in DOMAIN Extended(c, signal) :
                Extended(c, signal)[j] = c[i]
         /\ \A i, j \in DOMAIN Extended(c, signal) :
              i <= j => Extended(c, signal)[i].at <= Extended(c, signal)[j].at
<1> DEFINE n == Len(c)
           x == Extended(c, signal)
<1>1. n \in Nat /\ DOMAIN c = 1..n /\ \A i \in 1..n : c[i] \in Signal
  OBVIOUS
<1>2. signal.at \in Nat /\ \A i \in 1..n : c[i].at \in Nat
  BY <1>1 DEF Signal
<1>3. CASE n < MaxSignals
  <2>1. x = Append(c, signal)
    BY <1>3 DEF Extended
  <2> HIDE DEF x
  <2>2. /\ x \in Seq(Signal) /\ DOMAIN x = 1..(n + 1) /\ x[n + 1] = signal
        /\ \A i \in 1..n : x[i] = c[i]
    BY <1>1, <2>1
  <2>3. n + 1 \in DOMAIN x /\ (\A i \in 1..n : i \in DOMAIN x)
        /\ \A j \in DOMAIN x : j = n + 1 \/ j \in 1..n
    BY <1>1, <2>2
  <2>4. \A i, j \in DOMAIN x : i <= j => x[i].at <= x[j].at
    <3> SUFFICES ASSUME NEW i \in DOMAIN x, NEW j \in DOMAIN x, i <= j PROVE x[i].at <= x[j].at
      OBVIOUS
    <3>1. CASE j = n + 1 /\ i = n + 1
      BY <1>2, <2>2, <3>1
    <3>2. CASE j = n + 1 /\ i \in 1..n
      BY <1>1, <2>2, <3>2
    <3>3. CASE j \in 1..n /\ i \in 1..n
      BY <1>1, <2>2, <3>3
    <3>4. CASE j \in 1..n /\ i = n + 1
      BY <1>1, <3>4
    <3>5. QED
      BY <2>3, <3>1, <3>2, <3>3, <3>4
  <2>5. QED
    BY <1>1, <2>2, <2>3, <2>4 DEF x
<1>4. CASE ~(n < MaxSignals)
  <2>1. x = Append(Tail(c), signal)
    BY <1>4 DEF Extended
  <2>2. n \in Nat \ {0} /\ c # <<>>
    BY <1>1, <1>4
  <2>3. /\ Tail(c) \in Seq(Signal) /\ Len(Tail(c)) = n - 1
        /\ \A i \in 1..(n - 1) : Tail(c)[i] = c[i + 1]
    BY <1>1, <2>2
  <2> HIDE DEF x
  <2>4. /\ x \in Seq(Signal) /\ DOMAIN x = 1..n /\ x[n] = signal
        /\ \A i \in 1..(n - 1) : x[i] = Tail(c)[i]
    BY <1>1, <2>1, <2>2, <2>3
  <2>5. \A i \in 1..(n - 1) : x[i] = c[i + 1] /\ i + 1 \in 1..n
    BY <1>1, <2>2, <2>3, <2>4
  <2>6. n \in DOMAIN x /\ \A j \in DOMAIN x : j = n \/ j \in 1..(n - 1)
    BY <1>1, <2>2, <2>4
  <2>7. \A i, j \in DOMAIN x : i <= j => x[i].at <= x[j].at
    <3> SUFFICES ASSUME NEW i \in DOMAIN x, NEW j \in DOMAIN x, i <= j PROVE x[i].at <= x[j].at
      OBVIOUS
    <3>1. CASE j = n /\ i = n
      BY <1>2, <2>4, <3>1
    <3>2. CASE j = n /\ i \in 1..(n - 1)
      BY <1>1, <2>4, <2>5, <3>2
    <3>3. CASE j \in 1..(n - 1) /\ i \in 1..(n - 1)
      <4>1. i + 1 <= j + 1
        BY <3>3
      <4>2. QED
        BY <1>1, <2>5, <3>3, <4>1
    <3>4. CASE j \in 1..(n - 1) /\ i = n
      BY <1>1, <3>4
    <3>5. QED
      BY <2>6, <3>1, <3>2, <3>3, <3>4
  <2>8. QED
    BY <1>1, <1>4, <2>4, <2>5, <2>6, <2>7 DEF x
<1>5. QED
  BY <1>3, <1>4

\* What one turn of ingest_at's loop does with an event it classifies.
Ingesting(e, chain, raised) ==
  /\ e \in Event /\ e.kind \in Kinds
  /\ chain = Extended(chains[e.proc], [kind |-> e.kind, at |-> at])
  /\ raised = {rule \in Rules : Matches(chain, rule) /\ ~Cooling(e.proc, rule)}
  /\ chains' = [chains EXCEPT ![e.proc] = chain]
  /\ reported' = [pr \in Procs \X Rules |->
                    IF pr[1] = e.proc /\ pr[2] \in raised THEN at ELSE reported[pr]]
  /\ last' = [pr \in Procs \X Rules |->
                IF pr[1] = e.proc /\ pr[2] \in raised THEN at ELSE last[pr]]
  /\ seen' = [seen EXCEPT ![<<e.proc, e.kind>>] = at]
  /\ shortened' = IF Len(chains[e.proc]) < MaxSignals THEN shortened
                  ELSE shortened \cup {e.proc}
  /\ evicted' = evicted

LEMMA IngestCases ==
  ASSUME ChainInv, Ingest
  PROVE  /\ pc = "ingest" /\ at = now /\ batch' \in Seq(Event)
         /\ UNCHANGED <<monitorVars, now, pc, at>>
         /\ \/ UNCHANGED engine
            \/ \E e, chain, raised : Ingesting(e, chain, raised)
<1> DEFINE e == Head(batch)
           chain == Extended(chains[e.proc], [kind |-> e.kind, at |-> at])
           raised == {rule \in Rules : Matches(chain, rule) /\ ~Cooling(e.proc, rule)}
<1>1. batch \in Seq(Event) /\ batch # <<>> /\ batch' = Tail(batch)
  BY DEF Ingest, ChainInv, TypeOK
<1>2. e \in Event /\ batch' \in Seq(Event)
  BY <1>1
<1>3. CASE e.kind = "other"
  <2>1. UNCHANGED engine
    BY <1>3 DEF Ingest
  <2>2. QED
    BY <1>2, <2>1 DEF Ingest, ChainInv
<1>4. CASE e.kind # "other"
  <2>1. e.kind \in Kinds
    BY <1>2, <1>4 DEF Event
  <2>2. Ingesting(e, chain, raised)
    BY <1>2, <1>4, <2>1 DEF Ingest, Ingesting
  <2>3. QED
    BY <1>2, <2>2 DEF Ingest, ChainInv
<1>5. QED
  BY <1>3, <1>4

\* A new chain holds the new signal and old ones only, and all the old ones.
OldOrNew(e, chain) ==
  \A j \in DOMAIN chain :
    \/ chain[j].kind = e.kind /\ chain[j].at = at
    \/ \E i \in DOMAIN chains[e.proc] : chain[j] = chains[e.proc][i]
HoldsNew(e, chain) == \E j \in DOMAIN chain : chain[j].kind = e.kind /\ chain[j].at = at
AllOld(e, chain) ==
  \A i \in DOMAIN chains[e.proc] : \E j \in DOMAIN chain : chain[j] = chains[e.proc][i]

\* The chain a classified event leaves behind, and what is known of it.
LEMMA IngestedChain ==
  ASSUME ChainInv, NEW e, NEW chain, NEW raised, Ingesting(e, chain, raised),
         pc = "ingest"
  PROVE  /\ e.proc \in Procs /\ at = now /\ now \in Nat
         /\ chain \in Seq(Signal)
         /\ HoldsNew(e, chain) /\ OldOrNew(e, chain)
         /\ e.proc \notin shortened' => AllOld(e, chain)
         /\ \A i, j \in DOMAIN chain : i <= j => chain[i].at <= chain[j].at
<1> DEFINE c == chains[e.proc]
           signal == [kind |-> e.kind, at |-> at]
<1>1. e.proc \in Procs /\ e.kind \in Kinds /\ at = now /\ now \in Nat
  BY DEF Ingesting, Event, ChainInv, TypeOK
<1>2. c \in Seq(Signal) /\ signal \in Signal /\ signal.at = at /\ signal.kind = e.kind
  BY <1>1 DEF ChainInv, TypeOK, Signal
<1>3. /\ \A i, j \in DOMAIN c : i <= j => c[i].at <= c[j].at
      /\ \A i \in DOMAIN c : c[i].at <= signal.at
  BY <1>1 DEF ChainInv, Ordered, Sound
<1>4. chain = Extended(c, signal)
  BY DEF Ingesting
<1>5. e.proc \notin shortened' => Len(c) < MaxSignals
  BY DEF Ingesting
<1> HIDE DEF c, signal
<1>6. /\ chain \in Seq(Signal)
      /\ \E j \in DOMAIN chain : chain[j] = signal
      /\ \A j \in DOMAIN chain : chain[j] = signal \/ \E i \in DOMAIN c : chain[j] = c[i]
      /\ Len(c) < MaxSignals => \A i \in DOMAIN c : \E j \in DOMAIN chain : chain[j] = c[i]
      /\ \A i, j \in DOMAIN chain : i <= j => chain[i].at <= chain[j].at
  BY <1>2, <1>3, <1>4, ExtendedChain
<1>7. HoldsNew(e, chain) /\ OldOrNew(e, chain)
  BY <1>2, <1>6 DEF c, HoldsNew, OldOrNew
<1>8. e.proc \notin shortened' => AllOld(e, chain)
  BY <1>5, <1>6 DEF c, AllOld
<1>9. QED
  BY <1>1, <1>2, <1>6, <1>7, <1>8

LEMMA ChainIngest ==
  ASSUME ChainInv, pc = "ingest", NEW e, NEW chain, NEW raised, Ingesting(e, chain, raised),
         batch' \in Seq(Event), UNCHANGED <<monitorVars, now, pc, at>>
  PROVE  ChainInv'
<1>1. /\ e.proc \in Procs /\ at = now /\ now \in Nat /\ chain \in Seq(Signal)
      /\ e.kind \in Kinds
  BY IngestedChain DEF Ingesting
<1>2. /\ chains' = [chains EXCEPT ![e.proc] = chain]
      /\ seen' = [seen EXCEPT ![<<e.proc, e.kind>>] = at]
      /\ evicted' = evicted
      /\ reported' = [pr \in Procs \X Rules |->
                        IF pr[1] = e.proc /\ pr[2] \in raised THEN at ELSE reported[pr]]
      /\ last' = [pr \in Procs \X Rules |->
                    IF pr[1] = e.proc /\ pr[2] \in raised THEN at ELSE last[pr]]
      /\ shortened \subseteq shortened' /\ shortened' \subseteq shortened \cup {e.proc}
  BY DEF Ingesting
<1>3. /\ now' = now /\ pc' = pc /\ at' = at
      /\ UNCHANGED <<queue, received, dropped, failures, drained>>
  BY DEF monitorVars
<1>4. /\ seen \in [Procs \X Kinds -> Times] /\ chains \in [Procs -> Seq(Signal)]
      /\ reported \in [Procs \X Rules -> Times] /\ last \in [Procs \X Rules -> Times]
  BY DEF ChainInv, TypeOK
<1>5. /\ seen' \in [Procs \X Kinds -> Times] /\ chains' \in [Procs -> Seq(Signal)]
      /\ reported' \in [Procs \X Rules -> Times] /\ last' \in [Procs \X Rules -> Times]
  BY <1>1, <1>2, <1>4 DEF Times
<1>6. TypeOK'
  <2>1. MonitorTypeOK'
    BY <1>3 DEF ChainInv, TypeOK, MonitorTypeOK
  <2>2. shortened' \subseteq Procs /\ evicted' \subseteq Procs
    BY <1>1, <1>2 DEF ChainInv, TypeOK
  <2>3. now' \in Nat /\ at' \in Nat /\ pc' \in {"waiting", "ingest", "evict"}
    BY <1>1, <1>3
  <2>4. QED
    BY <1>5, <2>1, <2>2, <2>3 DEF TypeOK
<1>7. \A pk \in Procs \X Kinds : seen'[pk] # Never => seen'[pk] <= now'
  BY <1>1, <1>2, <1>3, <1>4 DEF ChainInv
<1>8. \A pr \in Procs \X Rules : reported'[pr] # Never => reported'[pr] = last'[pr]
  BY <1>2 DEF ChainInv
<1>9. ASSUME NEW p \in Procs, p # e.proc PROVE Ordered(p)' /\ Sound(p)' /\ Complete(p)'
  <2>1. chains'[p] = chains[p] /\ \A kind \in Kinds : seen'[<<p, kind>>] = seen[<<p, kind>>]
    BY <1>1, <1>2, <1>4, <1>9
  <2>2. \A i \in DOMAIN chains[p] : chains[p][i].kind \in Kinds
    <3>1. \A i \in DOMAIN chains[p] : chains[p][i] \in Signal
      BY <1>4
    <3>2. QED
      BY <3>1 DEF Signal
  <2>3. Ordered(p) /\ Sound(p) /\ Complete(p)
    BY DEF ChainInv
  <2>4. Ordered(p)'
    BY <2>1, <2>3 DEF Ordered
  <2>5. Sound(p)'
    BY <1>3, <2>1, <2>2, <2>3 DEF Sound
  <2>6. Complete(p)'
    BY <1>2, <1>3, <2>1, <2>3 DEF Complete
  <2>7. QED
    BY <2>4, <2>5, <2>6
<1>10. Ordered(e.proc)' /\ Sound(e.proc)' /\ Complete(e.proc)'
  <2> DEFINE p == e.proc
  <2>0. HoldsNew(e, chain) /\ OldOrNew(e, chain) /\ (p \notin shortened' => AllOld(e, chain))
    BY IngestedChain
  <2>1. chains'[p] = chain
    BY <1>1, <1>2, <1>4
  <2>2. /\ seen'[<<p, e.kind>>] = at
        /\ \A kind \in Kinds : kind # e.kind => seen'[<<p, kind>>] = seen[<<p, kind>>]
    BY <1>1, <1>2, <1>4
  <2>3. Ordered(p)'
    BY <2>1, IngestedChain DEF Ordered
  <2>4. ASSUME NEW j \in DOMAIN chain
        PROVE  /\ chain[j].at <= now
               /\ seen'[<<p, chain[j].kind>>] # Never
               /\ chain[j].at <= seen'[<<p, chain[j].kind>>]
               /\ now - chain[j].at <= Window
    <3>1. CASE chain[j].kind = e.kind /\ chain[j].at = at
      BY <1>1, <2>2, <3>1
    <3>2. ASSUME NEW i \in DOMAIN chains[p], chain[j] = chains[p][i]
          PROVE  /\ chain[j].at <= now
                 /\ seen'[<<p, chain[j].kind>>] # Never
                 /\ chain[j].at <= seen'[<<p, chain[j].kind>>]
                 /\ now - chain[j].at <= Window
      <4>1. chains[p][i].kind \in Kinds /\ chains[p][i].at \in Nat
        <5>1. chains[p][i] \in Signal
          BY <1>1, <1>4
        <5>2. QED
          BY <5>1 DEF Signal
      <4>2. /\ chains[p][i].at <= now
            /\ seen[<<p, chains[p][i].kind>>] # Never
            /\ chains[p][i].at <= seen[<<p, chains[p][i].kind>>]
            /\ now - chains[p][i].at <= Window
        BY <1>1 DEF ChainInv, Sound
      <4>3. CASE chains[p][i].kind = e.kind
        BY <1>1, <2>2, <3>2, <4>2, <4>3
      <4>4. CASE chains[p][i].kind # e.kind
        BY <2>2, <3>2, <4>1, <4>2, <4>4
      <4>5. QED
        BY <4>3, <4>4
    <3>3. QED
      BY <2>0, <3>1, <3>2 DEF OldOrNew
  <2>5. Sound(p)'
    BY <1>3, <2>1, <2>4 DEF Sound
  <2>6. ASSUME p \notin shortened' \cup evicted', NEW kind \in Kinds,
               seen'[<<p, kind>>] # Never, now - seen'[<<p, kind>>] <= Window
        PROVE  \E j \in DOMAIN chain : chain[j].kind = kind /\ chain[j].at = seen'[<<p, kind>>]
    <3>1. CASE kind = e.kind
      BY <2>0, <2>2, <3>1 DEF HoldsNew
    <3>2. CASE kind # e.kind
      <4>1. seen'[<<p, kind>>] = seen[<<p, kind>>] /\ p \notin shortened \cup evicted
        BY <1>2, <2>2, <2>6, <3>2
      <4>2. PICK i \in DOMAIN chains[p] :
              chains[p][i].kind = kind /\ chains[p][i].at = seen[<<p, kind>>]
        BY <1>1, <2>6, <4>1 DEF ChainInv, Complete
      <4>3. \E j \in DOMAIN chain : chain[j] = chains[p][i]
        BY <2>0, <2>6 DEF AllOld
      <4>4. QED
        BY <4>1, <4>2, <4>3
    <3>3. QED
      BY <3>1, <3>2
  <2>7. Complete(p)'
    BY <1>3, <2>1, <2>6 DEF Complete
  <2>8. QED
    BY <2>3, <2>5, <2>7
<1>11. \A p \in Procs : Ordered(p)' /\ Sound(p)' /\ Complete(p)'
  BY <1>9, <1>10
<1>12. QED
  BY <1>1, <1>3, <1>6, <1>7, <1>8, <1>11 DEF ChainInv

LEMMA ChainEvict ==
  ASSUME ChainInv, NEW q \in Procs, Evict(q)
  PROVE  ChainInv'
<1>1. /\ chains' = [chains EXCEPT ![q] = <<>>] /\ evicted' = evicted \cup {q}
      /\ reported' = [pr \in Procs \X Rules |-> IF pr[1] = q THEN Never ELSE reported[pr]]
      /\ UNCHANGED <<queue, received, dropped, failures, drained, now, pc, batch, at, last,
                     seen, shortened>>
  BY DEF Evict, monitorVars
<1>2. TypeOK'
  <2>1. chains' \in [Procs -> Seq(Signal)]
    BY <1>1 DEF ChainInv, TypeOK
  <2>2. reported' \in [Procs \X Rules -> Times] /\ evicted' \subseteq Procs
    BY <1>1 DEF ChainInv, TypeOK, Times
  <2>3. QED
    BY <1>1, <2>1, <2>2 DEF ChainInv, TypeOK, MonitorTypeOK
<1>3. ASSUME NEW p \in Procs PROVE Ordered(p)' /\ Sound(p)' /\ Complete(p)'
  <2>1. CASE p = q
    <3>1. chains'[p] = <<>> /\ p \in evicted'
      BY <1>1, <2>1 DEF ChainInv, TypeOK
    <3>2. DOMAIN chains'[p] = {}
      BY <3>1
    <3>3. QED
      BY <3>1, <3>2 DEF Ordered, Sound, Complete
  <2>2. CASE p # q
    <3>1. chains'[p] = chains[p]
      BY <1>1, <2>2 DEF ChainInv, TypeOK
    <3>2. Ordered(p) /\ Sound(p) /\ Complete(p)
      BY DEF ChainInv
    <3>3. QED
      BY <1>1, <3>1, <3>2 DEF Ordered, Sound, Complete
  <2>3. QED
    BY <2>1, <2>2
<1>4. \A pr \in Procs \X Rules : reported'[pr] # Never => reported'[pr] = last'[pr]
  BY <1>1 DEF ChainInv
<1>5. QED
  BY <1>1, <1>2, <1>3, <1>4 DEF ChainInv

LEMMA ChainStep == ChainInv /\ MonitorInv /\ [Next]_vars => ChainInv'
<1> SUFFICES ASSUME ChainInv, MonitorInv, [Next]_vars PROVE ChainInv'
  OBVIOUS
<1>1. MonitorTypeOK' /\ queue'["sysmon"] \in Seq(Event)
  BY MonitorStep, SysmonQueue DEF MonitorInv, ChainInv
<1>2. /\ now \in Nat /\ at \in Nat /\ batch \in Seq(Event)
      /\ pc \in {"waiting", "ingest", "evict"}
  BY DEF ChainInv, TypeOK
<1>3. CASE Notify \/ DrainEtw \/ Tick \/ EndIngest \/ EndCycle \/ UNCHANGED vars
  <2>1. /\ UNCHANGED engine /\ batch' = batch
        /\ now' = now \/ (now' = now + 1 /\ pc' = "waiting")
        /\ \/ UNCHANGED <<pc, at>>
           \/ pc' = "evict" /\ at' = at
           \/ pc' = "waiting" /\ at' \in {0, at}
    BY <1>3 DEF Notify, DrainEtw, Tick, EndIngest, EndCycle, vars
  <2>2. /\ now' \in Nat /\ now' >= now /\ at' \in Nat /\ batch' \in Seq(Event)
        /\ pc' \in {"waiting", "ingest", "evict"}
        /\ pc' = "ingest" => pc = "ingest" /\ now' = now /\ at' = at
    BY <1>2, <2>1
  <2>3. UNCHANGED engine
    BY <2>1
  <2>4. QED
    BY <1>1, <2>2, <2>3, ChainQuiet
<1>4. CASE BeginCycle
  BY <1>1, <1>4, ChainBegin
<1>5. CASE Ingest
  <2>1. /\ pc = "ingest" /\ at = now /\ batch' \in Seq(Event)
        /\ UNCHANGED <<monitorVars, now, pc, at>>
        /\ \/ UNCHANGED engine
           \/ \E e, chain, raised : Ingesting(e, chain, raised)
    BY <1>5, IngestCases
  <2>2. CASE UNCHANGED engine
    <3>1. now' >= now
      BY <1>2, <2>1
    <3>2. QED
      BY <1>1, <1>2, <2>1, <2>2, <3>1, ChainQuiet
  <2>3. ASSUME NEW e, NEW chain, NEW raised, Ingesting(e, chain, raised) PROVE ChainInv'
    BY <2>1, <2>3, ChainIngest
  <2>4. QED
    BY <2>1, <2>2, <2>3
<1>6. ASSUME NEW p \in Procs, Evict(p) PROVE ChainInv'
  BY <1>6, ChainEvict
<1>7. QED
  BY <1>3, <1>4, <1>5, <1>6 DEF Next, Cycle

LEMMA ChainInvariance == Spec => [](ChainInv /\ MonitorInv /\ CooldownInv)
<1>1. Init => MonitorInv
  BY DEF Init, MonitorInit, MonitorInv, MonitorTypeOK, EventsAccounted
<1>2. QED
  BY <1>1, ChainInit, ChainStep, MonitorStep, CooldownInit, CooldownStep, PTL DEF Spec

\* The variables keep their types.
THEOREM TypeCorrect == Spec => []TypeOK
  BY ChainInvariance, PTL DEF ChainInv

\* last and seen change only when a classified event is ingested.
LEMMA AlertCases ==
  ASSUME ChainInv, [Next]_vars
  PROVE  \/ UNCHANGED <<last, seen>>
         \/ /\ pc = "ingest" /\ UNCHANGED <<now, pc, at>>
            /\ \E e, chain, raised : Ingesting(e, chain, raised)
<1>1. CASE Ingest
  BY <1>1, IngestCases DEF engine
<1>2. CASE ~Ingest
  BY <1>2 DEF Next, Cycle, Notify, DrainEtw, Tick, BeginCycle, EndIngest, Evict, EndCycle,
              engine, vars
<1>3. QED
  BY <1>1, <1>2

(* An alert is raised only with a signal of each kind its rule asks for    *)
(* seen within the window, whatever the batches, bounds and evictions      *)
(* before it (behavior_chain.rs, ingest_at and prune).                     *)
THEOREM AlertHasEvidenceHolds == Spec => AlertHasEvidence
<1> DEFINE Evidence ==
      \A p \in Procs, rule \in Rules :
        last'[<<p, rule>>] # last[<<p, rule>>] =>
          \A kind \in Needs(rule) :
            /\ kind \in Kinds /\ seen'[<<p, kind>>] # Never
            /\ at - seen'[<<p, kind>>] <= Window
<1>1. ASSUME ChainInv, ChainInv', [Next]_vars PROVE Evidence
  <2>1. CASE UNCHANGED <<last, seen>>
    BY <2>1
  <2>2. ASSUME pc = "ingest", UNCHANGED <<now, pc, at>>,
               NEW e, NEW chain, NEW raised, Ingesting(e, chain, raised)
        PROVE  Evidence
    <3> SUFFICES ASSUME NEW p \in Procs, NEW rule \in Rules,
                        last'[<<p, rule>>] # last[<<p, rule>>],
                        NEW kind \in Needs(rule)
                 PROVE  /\ kind \in Kinds /\ seen'[<<p, kind>>] # Never
                        /\ at - seen'[<<p, kind>>] <= Window
      OBVIOUS
    <3>1. p = e.proc /\ rule \in raised
      BY <2>2 DEF Ingesting
    <3>2. Needs(rule) \subseteq {chain[i].kind : i \in DOMAIN chain}
      BY <2>2, <3>1 DEF Ingesting, Matches
    <3>3. PICK j \in DOMAIN chain : chain[j].kind = kind
      BY <3>2
    <3>4. chains'[p] = chain
      BY <1>1, <2>2, <3>1 DEF Ingesting, ChainInv, TypeOK
    <3>5. /\ seen'[<<p, kind>>] # Never /\ chain[j].at <= seen'[<<p, kind>>]
          /\ now - chain[j].at <= Window
      BY <1>1, <2>2, <3>3, <3>4 DEF ChainInv, Sound
    <3>6. chain[j] \in Signal
      BY <1>1, <3>4 DEF ChainInv, TypeOK
    <3>7. kind \in Kinds /\ chain[j].at \in Nat
      BY <3>3, <3>6 DEF Signal
    <3>8. seen'[<<p, kind>>] \in Nat /\ now \in Nat /\ at = now
      BY <1>1, <2>2, <3>5, <3>7 DEF ChainInv, TypeOK, Times
    <3>9. QED
      BY <3>5, <3>7, <3>8
  <2>3. QED
    BY <1>1, <2>1, <2>2, AlertCases
<1>2. ChainInv /\ ChainInv' /\ [Next]_vars => [Evidence]_vars
  BY <1>1
<1>3. QED
  BY <1>2, ChainInvariance, PTL DEF Spec, AlertHasEvidence

\* When the kinds a rule asks for were seen within one window, it was reported
\* with the last of them or less than a cooldown before.
Reported(p, rule) ==
  LET times == {seen[<<p, kind>>] : kind \in Needs(rule)}
  IN  Needs(rule) \subseteq Kinds /\ Never \notin times
        /\ (\A s, t \in times : s - t <= Window)
      => \E t \in times : (\A s \in times : s <= t)
           /\ last[<<p, rule>>] # Never /\ t - last[<<p, rule>>] < Cooldown

LEMMA ReportedStep ==
  ASSUME ChainInv, CooldownInv, pc = "ingest", UNCHANGED <<now, pc, at>>,
         NEW e, NEW chain, NEW raised, Ingesting(e, chain, raised),
         NEW p \in Procs, p \notin shortened' \cup evicted', NEW rule \in Rules,
         Reported(p, rule)
  PROVE  Reported(p, rule)'
<1> DEFINE times == {seen[<<p, kind>>] : kind \in Needs(rule)}
<1> SUFFICES ASSUME Needs(rule) \subseteq Kinds, Never \notin times',
                    \A s, t \in times' : s - t <= Window
             PROVE  \E t \in times' : (\A s \in times' : s <= t)
                      /\ last'[<<p, rule>>] # Never /\ t - last'[<<p, rule>>] < Cooldown
  BY DEF Reported
<1>1. /\ e.proc \in Procs /\ e.kind \in Kinds /\ at = now /\ now \in Nat
      /\ e.proc \notin shortened' => AllOld(e, chain)
      /\ HoldsNew(e, chain)
  BY IngestedChain DEF Ingesting
<1>2. /\ seen \in [Procs \X Kinds -> Times] /\ last \in [Procs \X Rules -> Times]
      /\ \A kind \in Kinds : seen[<<p, kind>>] # Never => seen[<<p, kind>>] <= now
  BY DEF ChainInv, TypeOK
<1>3. /\ seen' = [seen EXCEPT ![<<e.proc, e.kind>>] = at]
      /\ last' = [pr \in Procs \X Rules |->
                    IF pr[1] = e.proc /\ pr[2] \in raised THEN at ELSE last[pr]]
      /\ shortened \subseteq shortened' /\ evicted' = evicted
  BY DEF Ingesting
<1>4. \A kind \in Needs(rule) : seen'[<<p, kind>>] \in Nat /\ seen'[<<p, kind>>] <= now
  <2> SUFFICES ASSUME NEW kind \in Needs(rule)
               PROVE  seen'[<<p, kind>>] \in Nat /\ seen'[<<p, kind>>] <= now
    OBVIOUS
  <2>1. kind \in Kinds /\ seen'[<<p, kind>>] # Never
    OBVIOUS
  <2>2. CASE seen'[<<p, kind>>] = at
    BY <1>1, <2>2
  <2>3. CASE seen'[<<p, kind>>] = seen[<<p, kind>>]
    BY <1>2, <2>1, <2>3 DEF Times
  <2>4. QED
    BY <1>2, <1>3, <2>1, <2>2, <2>3
<1>5. CASE p = e.proc /\ e.kind \in Needs(rule)
  <2>1. seen'[<<p, e.kind>>] = at
    BY <1>1, <1>2, <1>3, <1>5
  <2>2. at \in times' /\ \A s \in times' : s <= at /\ at - s <= Window
    BY <1>1, <1>4, <1>5, <2>1
  <2>3. Matches(chain, rule)
    <3> SUFFICES ASSUME NEW kind \in Needs(rule)
                 PROVE  \E j \in DOMAIN chain : chain[j].kind = kind
      BY DEF Matches
    <3>1. CASE kind = e.kind
      BY <1>1, <3>1 DEF HoldsNew
    <3>2. CASE kind # e.kind
      <4>1. kind \in Kinds /\ seen'[<<p, kind>>] = seen[<<p, kind>>]
        BY <1>2, <1>3, <3>2
      <4>2. seen[<<p, kind>>] # Never /\ now - seen[<<p, kind>>] <= Window
        BY <1>1, <2>2, <4>1
      <4>3. p \notin shortened \cup evicted
        BY <1>3
      <4>4. PICK i \in DOMAIN chains[p] : chains[p][i].kind = kind
        BY <4>1, <4>2, <4>3 DEF ChainInv, Complete
      <4>5. AllOld(e, chain)
        BY <1>1, <1>5
      <4>6. QED
        BY <1>5, <4>4, <4>5 DEF AllOld
    <3>3. QED
      BY <3>1, <3>2
  <2>4. CASE rule \in raised
    <3>1. last'[<<p, rule>>] = at
      BY <1>3, <1>5, <2>4
    <3>2. at # Never /\ at - at < Cooldown
      BY <1>1
    <3>3. QED
      BY <2>2, <3>1, <3>2
  <2>5. CASE rule \notin raised
    <3>1. Cooling(p, rule)
      BY <1>5, <2>3, <2>5 DEF Ingesting
    <3>2. reported[<<p, rule>>] # Never /\ at - reported[<<p, rule>>] < Cooldown
      BY <3>1 DEF Cooling
    <3>3. last[<<p, rule>>] = reported[<<p, rule>>]
      BY <3>2 DEF ChainInv
    <3>4. last'[<<p, rule>>] = last[<<p, rule>>]
      BY <1>3, <2>5
    <3>5. QED
      BY <2>2, <3>2, <3>3, <3>4
  <2>6. QED
    BY <2>4, <2>5
<1>6. CASE ~(p = e.proc /\ e.kind \in Needs(rule))
  <2>1. \A kind \in Needs(rule) : seen'[<<p, kind>>] = seen[<<p, kind>>]
    BY <1>2, <1>3, <1>6
  <2>2. times' = times
    BY <2>1
  <2>3. Never \notin times /\ \A s, t \in times : s - t <= Window
    BY <2>2
  <2>4. PICK t \in times : (\A s \in times : s <= t)
           /\ last[<<p, rule>>] # Never /\ t - last[<<p, rule>>] < Cooldown
    BY <2>3 DEF Reported
  <2>5. t \in Nat /\ t <= now
    BY <1>4, <2>1
  <2>6. CASE p = e.proc /\ rule \in raised
    <3>1. last'[<<p, rule>>] = at
      BY <1>3, <2>6
    <3>2. at # Never /\ t - at < Cooldown
      BY <1>1, <2>5
    <3>3. QED
      BY <2>2, <2>4, <3>1, <3>2
  <2>7. CASE ~(p = e.proc /\ rule \in raised)
    <3>1. last'[<<p, rule>>] = last[<<p, rule>>]
      BY <1>3, <2>7
    <3>2. QED
      BY <2>2, <2>4, <3>1
  <2>8. QED
    BY <2>6, <2>7
<1>7. QED
  BY <1>5, <1>6

(* No chain is missed: signals of every kind a rule asks for within one    *)
(* window, however they are spread over batches, were reported, unless the *)
(* chain hit one of the two bounds (behavior_chain.rs, matching_rules).    *)
THEOREM ChainIsReportedHolds == Spec => []ChainIsReported
<1> DEFINE All == \A p \in Procs \ (shortened \cup evicted), rule \in Rules : Reported(p, rule)
<1>1. Init => All
  <2> SUFFICES ASSUME Init, NEW p \in Procs, NEW rule \in Rules PROVE Reported(p, rule)
    OBVIOUS
  <2>1. Needs(rule) # {}
    BY DEF Needs, Rules
  <2>2. Needs(rule) \subseteq Kinds => \A kind \in Needs(rule) : seen[<<p, kind>>] = Never
    BY DEF Init
  <2>3. QED
    BY <2>1, <2>2 DEF Reported
<1>2. ASSUME ChainInv, CooldownInv, All, [Next]_vars PROVE All'
  <2>1. shortened \subseteq shortened' /\ evicted \subseteq evicted'
    BY <1>2 DEF Next, Cycle, Notify, DrainEtw, Tick, BeginCycle, Ingest, EndIngest, Evict,
                EndCycle, engine, vars
  <2>2. CASE UNCHANGED <<last, seen>>
    BY <1>2, <2>1, <2>2 DEF Reported
  <2>3. ASSUME pc = "ingest", UNCHANGED <<now, pc, at>>,
               NEW e, NEW chain, NEW raised, Ingesting(e, chain, raised)
        PROVE  All'
    <3> SUFFICES ASSUME NEW p \in Procs, p \notin shortened' \cup evicted', NEW rule \in Rules
                 PROVE  Reported(p, rule)'
      OBVIOUS
    <3>1. Reported(p, rule)
      BY <1>2, <2>1
    <3>2. QED
      BY <1>2, <2>3, <3>1, ReportedStep
  <2>4. QED
    BY <1>2, <2>2, <2>3, AlertCases
<1>3. ChainInv /\ CooldownInv /\ All /\ [Next]_vars => All'
  BY <1>2
<1>4. All => ChainIsReported
  BY DEF Reported, ChainIsReported
<1>5. QED
  BY <1>1, <1>3, <1>4, ChainInvariance, PTL DEF Spec
=============================================================================
