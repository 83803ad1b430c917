---------------------------- MODULE EventMonitors ----------------------------
(***************************************************************************)
(* The sources of events: two subscriptions to the Windows event log, to   *)
(* Sysmon's channel and to the security and Defender channels, and the ETW *)
(* helper, a child process that writes process starts and stops to a pipe. *)
(* A thread of each source counts the event, parses it and tries to put it *)
(* into the source's bounded channel.  The protection thread drains a      *)
(* bounded number of log events per cycle, the pipe thread those of the    *)
(* helper when it serves a request.                                        *)
(***************************************************************************)
EXTENDS Naturals, Sequences

CONSTANTS
  Signals,     \* what a Sysmon event can say
  LogEvents,   \* audit, Defender and ETW events, which are only stored
  Capacity,    \* of a channel
  DrainLimit,  \* events taken per cycle
  MaxReceived  \* bound: events delivered, by all monitors

Monitors == {"sysmon", "eventlog", "etw"}
Payload(m) == IF m = "sysmon" THEN Signals ELSE LogEvents

ASSUME MonitorConstants ==
  /\ Capacity \in Nat \ {0} /\ DrainLimit \in 1..Capacity
  /\ MaxReceived \in Nat

VARIABLES
  queue,      \* per monitor, the channel
  received, dropped, failures, \* the counters its coverage note prints
  drained     \* history: how many events were taken from it

monitorVars == <<queue, received, dropped, failures, drained>>

MonitorTypeOK ==
  /\ queue \in [Monitors -> Seq(Signals \cup LogEvents)]
  /\ received \in [Monitors -> Nat]
  /\ dropped \in [Monitors -> Nat]
  /\ failures \in [Monitors -> Nat]
  /\ drained \in [Monitors -> Nat]

MonitorInit ==
  /\ queue = [m \in Monitors |-> <<>>]
  /\ received = [m \in Monitors |-> 0]
  /\ dropped = [m \in Monitors |-> 0]
  /\ failures = [m \in Monitors |-> 0]
  /\ drained = [m \in Monitors |-> 0]

Count(counter, m) == [counter EXCEPT ![m] = @ + 1]
MayReceive ==
  received["sysmon"] + received["eventlog"] + received["etw"] < MaxReceived

\* subscription_callback: an event that parses and finds room.
Deliver(m, event) ==
  /\ MayReceive /\ Len(queue[m]) < Capacity
  /\ received' = Count(received, m)
  /\ queue' = [queue EXCEPT ![m] = Append(@, event)]
  /\ UNCHANGED <<dropped, failures, drained>>

\* Variant with a bug: the oldest waiting event makes room, uncounted.
OverflowReplacing(m) ==
  /\ MayReceive /\ Len(queue[m]) = Capacity
  /\ received' = Count(received, m)
  /\ queue' = [queue EXCEPT ![m] = Tail(@)]
  /\ dropped' = Count(dropped, m)
  /\ UNCHANGED <<failures, drained>>

\* try_send on a full channel.
Overflow(m) ==
  /\ MayReceive /\ Len(queue[m]) = Capacity
  /\ received' = Count(received, m)
  /\ dropped' = Count(dropped, m)
  /\ UNCHANGED <<queue, failures, drained>>

\* The event cannot be rendered or parsed; the helper's reader skips such a
\* line without counting it.
ParseFails(m) ==
  /\ MayReceive /\ m # "etw"
  /\ received' = Count(received, m)
  /\ failures' = Count(failures, m)
  /\ UNCHANGED <<queue, dropped, drained>>

Callback ==
  \E m \in Monitors : \/ \E event \in Payload(m) : Deliver(m, event)
                      \/ Overflow(m) \/ ParseFails(m)

\* drain: at most DrainLimit events, oldest first.
Batch(m) == SubSeq(queue[m], 1, IF Len(queue[m]) < DrainLimit
                                THEN Len(queue[m]) ELSE DrainLimit)
Rest(m) == SubSeq(queue[m], Len(Batch(m)) + 1, Len(queue[m]))
Drain(ms) ==
  /\ queue' = [m \in Monitors |-> IF m \in ms THEN Rest(m) ELSE queue[m]]
  /\ drained' = [m \in Monitors |-> IF m \in ms THEN drained[m] + Len(Batch(m)) ELSE drained[m]]
  /\ UNCHANGED <<received, dropped, failures>>

(* Nothing disappears between Windows and the service: what a coverage     *)
(* note reports as received was drained, still waits, or is in the other   *)
(* two counters of the note, and a channel never exceeds its capacity      *)
(* (sysmon.rs and eventlog.rs, subscription_callback and drain; main.rs,   *)
(* spawn_etw_reader and drain_events).                                     *)
EventsAccounted ==
  \A m \in Monitors :
    /\ received[m] = drained[m] + Len(queue[m]) + dropped[m] + failures[m]
    /\ Len(queue[m]) <= Capacity
=============================================================================
