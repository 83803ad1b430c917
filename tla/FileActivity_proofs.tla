------------------------ MODULE FileActivity_proofs ------------------------
(***************************************************************************)
(* Proofs about FileActivity, for every set of paths and threads and every *)
(* capacity and limit: no change of a file is overlooked, every reported   *)
(* change of a program is scanned, and the slots of scans add up.          *)
(***************************************************************************)
EXTENDS FileActivity, TLAPS, FiniteSetTheorems

USE FileConstants

-----------------------------------------------------------------------------
(***************************************************************************)
(* The invariant                                                           *)
(***************************************************************************)
\* The parts of the type invariant, for steps that change few of them.
SeqTypes == queue \in Seq(Events) /\ out \in Seq(Events) /\ early \in Seq(Events)
LenTypes == Len(queue) <= Capacity /\ Len(early) <= Capacity /\ Len(out) <= Limit + 1
FileTypes == /\ disk \in [Paths -> Files] /\ told \in [Paths -> Files]
             /\ collected \in [Paths -> Files] /\ baseline \in [Paths -> Files]
CountTypes == /\ dropped \in Nat /\ previousDropped \in Nat
              /\ second \in 0..MaxSeconds /\ edits \in 0..MaxEdits
FlagTypes == /\ journal \in BOOLEAN /\ pending \in BOOLEAN
             /\ stage \in {"collecting", "sent", "ready"}
KeyTypes == keys \subseteq Events /\ lost \in [Paths -> Causes \cup {No}]
ScanTypes == /\ active \in Nat /\ leaked \in Nat /\ scans \in [Threads -> Scans]
             /\ wanted \in [Paths -> 0..MaxEdits] /\ scanned \in [Paths -> 0..MaxEdits]
             /\ refused \in [Paths -> Refusals \cup {No}]
Types ==
  SeqTypes /\ LenTypes /\ FileTypes /\ CountTypes /\ FlagTypes /\ KeyTypes /\ ScanTypes

LEMMA TypesAre == Types => TypeOK
<1> SUFFICES ASSUME Types PROVE TypeOK
  OBVIOUS
<1>1. SeqTypes /\ LenTypes /\ FileTypes /\ CountTypes /\ FlagTypes /\ KeyTypes /\ ScanTypes
  BY DEF Types
<1>2. QED
  BY <1>1 DEF TypeOK, SeqTypes, LenTypes, FileTypes, CountTypes, FlagTypes, KeyTypes, ScanTypes

\* Fingerprints are never from the future: whatever was enumerated or put
\* into the baseline, an edit makes the file differ from it.
NothingFromTheFuture ==
  /\ previousDropped <= dropped
  /\ \A p \in Paths :
       /\ disk[p].edits <= edits
       /\ collected[p].edits <= disk[p].edits /\ baseline[p].edits <= disk[p].edits
       /\ wanted[p] <= disk[p].edits

\* A change that was not reported is on its way, or a gap is known and the
\* baseline does not have the change yet, so that reconciling will find it.
\* The second excuse is good only once there is a baseline.
Noticed(p) ==
  \/ Described(p) \/ Mentioned(p) \/ Coming(p)
  \/ stage = "ready" /\ Gap /\ baseline[p] # disk[p]

\* The scan last asked for is made: its own thread is still to read the file,
\* or has read it as it was then or later, or such a reading has finished.
\* That an older thread will read it is not enough, for its failure does not
\* excuse the request.
Answered(p) ==
  \/ scanned[p] >= wanted[p]
  \/ \E t \in Threads :
       /\ scans[t].path = p /\ scans[t].asked = wanted[p]
       /\ scans[t].done => scans[t].read >= wanted[p]

ScansAnswer == \A p \in Paths \ Excused : Answered(p)

\* A thread has a path while it runs and has read it when it is done.
ThreadsOK ==
  \A t \in Threads :
    /\ scans[t].done => scans[t].path # NoPath
    /\ scans[t].path = NoPath => scans[t] = NoScan

FileInv ==
  /\ Types /\ NothingFromTheFuture /\ ThreadsOK
  /\ \A p \in Paths \ GivenUp : Noticed(p)
  /\ ScansAnswer /\ SlotsAccounted

-----------------------------------------------------------------------------
(***************************************************************************)
(* What a drain takes, picks and puts into the baseline                    *)
(***************************************************************************)
\* A path has an event in a sequence.
InEvents(p, s) == \E i \in DOMAIN s : s[i].path = p

LEMMA DrainedSplits ==
  ASSUME Types
  PROVE  /\ Drained \in Seq(Events) /\ Remaining \in Seq(Events)
         /\ Len(Drained) \in 0..Limit
         /\ Len(Remaining) <= Len(queue)
         /\ \A p : Mentioned(p) => InEvents(p, Drained) \/ InEvents(p, Remaining)
<1> DEFINE q == queue
           n == IF Len(q) < Limit THEN Len(q) ELSE Limit
<1>1. q \in Seq(Events) /\ Len(q) \in Nat /\ Limit \in Nat
  BY DEF Types, SeqTypes
<1>2. n \in 0..Len(q) /\ n \in 0..Limit
  BY <1>1
<1>3. Drained = SubSeq(q, 1, n)
  BY DEF Drained
<1> HIDE DEF q, n
<1>4. Drained \in Seq(Events) /\ Len(Drained) = n /\ \A i \in 1..n : Drained[i] = q[i]
  BY <1>1, <1>2, <1>3
<1>5. Remaining = SubSeq(q, n + 1, Len(q))
  BY <1>4 DEF Remaining, q
<1>6. /\ Remaining \in Seq(Events) /\ Len(Remaining) = Len(q) - n
      /\ \A i \in 1..Len(q) - n : Remaining[i] = q[n + i]
  BY <1>1, <1>2, <1>5
<1>7. ASSUME NEW p, Mentioned(p) PROVE InEvents(p, Drained) \/ InEvents(p, Remaining)
  <2>1. PICK i \in 1..Len(q) : q[i].path = p
    BY <1>1, <1>7 DEF Mentioned, q
  <2>2. CASE i <= n
    <3>1. i \in DOMAIN Drained /\ Drained[i] = q[i]
      BY <1>2, <1>4, <2>1, <2>2
    <3>2. QED
      BY <2>1, <3>1 DEF InEvents
  <2>3. CASE i > n
    <3>1. /\ i - n \in DOMAIN Remaining /\ i - n \in 1..Len(q) - n
          /\ n + (i - n) = i
      BY <1>1, <1>2, <1>6, <2>1, <2>3
    <3>2. Remaining[i - n] = q[i]
      BY <1>6, <3>1
    <3>3. QED
      BY <2>1, <3>1, <3>2 DEF InEvents
  <2>4. QED
    BY <1>1, <1>2, <2>1, <2>2, <2>3
<1>8. QED
  BY <1>1, <1>2, <1>4, <1>6, <1>7 DEF q

LEMMA LeastIs ==
  ASSUME NEW m \in Nat, NEW n \in Nat
  PROVE  /\ Least(m, n) \in Nat /\ Least(m, n) <= m /\ Least(m, n) <= n
         /\ Least(m, n) < n => Least(m, n) = m
  BY DEF Least

\* reconcile keeps to its limit, but for one event when there is no room at
\* all; and it leaves out a changed file only when the room is used up.
LEMMA PickedFits ==
  ASSUME NEW base, NEW listed \in SUBSET Paths, NEW room \in Nat, NEW picked \in SUBSET Paths, Picked(base, listed, room, picked)
  PROVE  /\ IsFiniteSet(picked) /\ Cardinality(picked) \in Nat
         /\ Cardinality(picked) <= room \/ Cardinality(picked) <= 1
         /\ Cardinality(picked) < room => Changed(base, listed) \subseteq picked
<1> DEFINE changed == picked \cap Changed(base, listed)
           missing == picked \cap Missing(base, listed)
<1>1. /\ IsFiniteSet(picked) /\ IsFiniteSet(Changed(base, listed)) /\ IsFiniteSet(Missing(base, listed))
      /\ IsFiniteSet(changed) /\ IsFiniteSet(missing)
  BY FS_Subset DEF Changed, Missing
<1>2. /\ Cardinality(picked) \in Nat /\ Cardinality(changed) \in Nat
      /\ Cardinality(missing) \in Nat /\ Cardinality(Changed(base, listed)) \in Nat
      /\ Cardinality(Missing(base, listed)) \in Nat
  BY <1>1, FS_CardinalityType
<1>3. CASE room = 0
  <2>1. picked = {} \/ \E first : picked = {first}
    BY <1>3 DEF Picked
  <2>2. Cardinality(picked) <= 1
    <3>1. CASE picked = {}
      BY <3>1, FS_EmptySet
    <3>2. ASSUME NEW first, picked = {first} PROVE Cardinality(picked) <= 1
      <4>1. Cardinality({first}) = 1
        BY FS_Singleton
      <4>2. QED
        BY <3>2, <4>1
    <3>3. QED
      BY <2>1, <3>1, <3>2
  <2>3. QED
    BY <1>1, <1>2, <1>3, <2>2
<1>4. CASE room # 0
  <2>1. /\ Cardinality(changed) = Least(Cardinality(Changed(base, listed)), room)
        /\ Cardinality(missing) =
             Least(Cardinality(Missing(base, listed)), room - Cardinality(changed))
        /\ picked = changed \cup missing
    BY <1>4 DEF Picked
  <2>2. Cardinality(changed) <= room
    BY <1>2, <2>1, LeastIs
  <2>3. room - Cardinality(changed) \in Nat
    BY <1>2, <2>2
  <2>4. Cardinality(missing) <= room - Cardinality(changed)
    BY <1>2, <2>1, <2>3, LeastIs
  <2>5. picked = changed \cup missing
    BY <2>1
  <2>6. Cardinality(picked) = Cardinality(changed) + Cardinality(missing)
    <3>1. changed \cap missing = {}
      BY DEF Changed, Missing
    <3> HIDE DEF changed, missing
    <3>2. Cardinality(changed \cup missing) =
            Cardinality(changed) + Cardinality(missing) - Cardinality(changed \cap missing)
      BY <1>1, FS_Union
    <3>3. Cardinality(changed \cap missing) = 0
      BY <3>1, FS_EmptySet
    <3>4. QED
      BY <1>2, <2>5, <3>2, <3>3
  <2>7. ASSUME Cardinality(picked) < room PROVE Changed(base, listed) \subseteq picked
    <3>1. Cardinality(changed) < room
      BY <1>2, <2>6, <2>7
    <3>2. Cardinality(changed) = Cardinality(Changed(base, listed))
      BY <1>2, <2>1, <3>1, LeastIs
    <3>3. changed \in SUBSET Changed(base, listed)
      OBVIOUS
    <3>4. changed = Changed(base, listed)
      BY <1>1, <3>2, <3>3, FS_Subset
    <3>5. QED
      BY <3>4
  <2>8. QED
    BY <1>1, <1>2, <2>2, <2>4, <2>6, <2>7
<1>5. QED
  BY <1>3, <1>4

\* The order the map has them in is a sequence with every picked path.
LEMMA OrderCovers ==
  ASSUME NEW picked \in SUBSET Paths, IsFiniteSet(picked), NEW order \in SetToSeqs(picked)
  PROVE  /\ order \in Seq(Paths) /\ Len(order) = Cardinality(picked)
         /\ \A p \in picked : \E i \in DOMAIN order : order[i] = p
<1> DEFINE n == Cardinality(picked)
<1>1. n \in Nat
  BY FS_CardinalityType
<1>2. order \in [1..n -> picked] /\ \A i, j \in 1..n : i # j => order[i] # order[j]
  BY DEF SetToSeqs
<1>3. order \in Injection(1..n, picked)
  BY <1>2 DEF Injection, IsInjective
<1>4. Cardinality(1..n) = n
  BY <1>1, FS_Interval
<1> HIDE DEF n
<1>5. order \in Surjection(1..n, picked)
  BY <1>3, <1>4, FS_Injection DEF n
<1>6. \A p \in picked : \E i \in 1..n : order[i] = p
  BY <1>5 DEF Surjection
<1>7. order \in Seq(Paths) /\ Len(order) = n /\ DOMAIN order = 1..n
  BY <1>1, <1>2
<1>8. QED
  BY <1>6, <1>7 DEF n

\* update_baseline puts only present fingerprints into the baseline, and only
\* of paths that had an event.
LEMMA UpdatedIs ==
  ASSUME Types, NEW base \in [Paths -> Files], NEW events, NEW seen
  PROVE  /\ Updated(base, events, seen) \in [Paths -> Files]
         /\ \A p \in Paths :
              /\ Updated(base, events, seen)[p] \in {base[p], Gone, disk[p]}
              /\ InEvents(p, events) \/ Updated(base, events, seen)[p] = base[p]
<1>1. ASSUME NEW p \in Paths
      PROVE  /\ Updated(base, events, seen)[p] \in {base[p], Gone, disk[p]}
             /\ InEvents(p, events) \/ Updated(base, events, seen)[p] = base[p]
  BY DEF Updated, InEvents
<1>2. Gone \in Files /\ \A p \in Paths : base[p] \in Files /\ disk[p] \in Files
  BY DEF Gone, Files, Types, FileTypes
<1>3. Updated(base, events, seen) = [p \in Paths |-> Updated(base, events, seen)[p]]
  BY DEF Updated
<1>4. QED
  BY <1>1, <1>2, <1>3

\* What enumerate lists is as it is on the disk.
LEMMA EnumeratedIs ==
  ASSUME Types, NEW listed
  PROVE  /\ Enumerated(listed) \in [Paths -> Files]
         /\ \A p \in Paths : Enumerated(listed)[p].edits <= disk[p].edits
<1>1. disk \in [Paths -> Files] /\ Gone \in Files /\ Gone.edits = 0
  BY DEF Types, FileTypes, Files, Gone
<1>2. Enumerated(listed) \in [Paths -> Files]
  BY <1>1 DEF Enumerated
<1>3. ASSUME NEW p \in Paths PROVE Enumerated(listed)[p].edits <= disk[p].edits
  <2>1. Enumerated(listed)[p] = disk[p] \/ Enumerated(listed)[p] = Gone
    BY DEF Enumerated
  <2>2. disk[p].edits \in Nat
    BY <1>1 DEF Files
  <2>3. QED
    BY <1>1, <2>1, <2>2
<1>4. QED
  BY <1>2, <1>3

LEMMA FoundIsEvent ==
  ASSUME Types, NEW base, NEW listed, NEW p \in Paths
  PROVE  Found(base, listed, p) \in Events /\ Found(base, listed, p).path = p
  BY DEF Found, Events, Actions, Types, CountTypes

-----------------------------------------------------------------------------
(***************************************************************************)
(* The changes of files, and the watcher                                   *)
(***************************************************************************)
LEMMA InitInv == Init => FileInv
<1> SUFFICES ASSUME Init PROVE FileInv
  OBVIOUS
<1>1. Types
  <2>1. SeqTypes /\ LenTypes
    BY DEF Init, SeqTypes, LenTypes
  <2>2. Gone \in Files /\ NoScan \in Scans
    BY DEF Gone, Files, NoScan, Scans
  <2>3. FileTypes
    BY <2>2 DEF Init, FileTypes
  <2>4. CountTypes
    BY DEF Init, CountTypes
  <2>8. FlagTypes
    BY DEF Init, FlagTypes
  <2>5. KeyTypes
    BY DEF Init, KeyTypes
  <2>6. ScanTypes
    BY <2>2 DEF Init, ScanTypes
  <2>7. QED
    BY <2>1, <2>3, <2>4, <2>5, <2>6, <2>8 DEF Types
<1>2. NothingFromTheFuture /\ ThreadsOK
  BY DEF Init, NothingFromTheFuture, ThreadsOK, Gone, NoScan
<1>3. \A p \in Paths \ GivenUp : Noticed(p)
  BY DEF Init, Noticed, Described, Exists, Gone
<1>4. ScansAnswer
  BY DEF Init, ScansAnswer, Answered
<1>5. SlotsAccounted
  <2>1. {t \in Threads : scans[t] # NoScan} = {}
    BY DEF Init
  <2>2. Cardinality({t \in Threads : scans[t] # NoScan}) = 0
    BY <2>1, FS_EmptySet
  <2>3. QED
    BY <2>2 DEF Init, SlotsAccounted
<1>6. QED
  BY <1>1, <1>2, <1>3, <1>4, <1>5 DEF FileInv

\* Steps that leave the scans alone keep what is said of them.
LEMMA ScansFrame ==
  ASSUME ThreadsOK, ScansAnswer, SlotsAccounted, UNCHANGED scanning
  PROVE  ThreadsOK' /\ ScansAnswer' /\ SlotsAccounted'
BY DEF scanning, ThreadsOK, ScansAnswer, Answered, Excused, SlotsAccounted

\* Steps that change neither the files nor what is known of them.
NoticeFrame ==
  UNCHANGED <<disk, queue, dropped, previousDropped, journal, collected, stage, early,
              baseline, pending, out, told, lost>>

LEMMA NoticedFrame ==
  ASSUME \A p \in Paths \ GivenUp : Noticed(p), NoticeFrame
  PROVE  \A p \in Paths \ GivenUp' : Noticed(p)'
BY DEF NoticeFrame, GivenUp, Noticed, Described, Exists, Mentioned, Coming, Gap

\* enqueue_event puts the event into the channel, or counts it: then there is
\* a gap, or the path is given up while there is no baseline.
LEMMA NotifyStep ==
  ASSUME Types, previousDropped <= dropped, NEW event \in Events, Notify(event)
  PROVE  /\ queue' \in Seq(Events) /\ Len(queue') <= Capacity
         /\ dropped' \in Nat /\ dropped' >= dropped
         /\ lost' \in [Paths -> Causes \cup {No}]
         /\ GivenUp \subseteq GivenUp'
         /\ \A q : Mentioned(q) => Mentioned(q)'
         /\ \/ Mentioned(event.path)'
            \/ stage = "ready" /\ dropped' > previousDropped
            \/ event.path \in GivenUp'
<1>1. queue \in Seq(Events) /\ Len(queue) <= Capacity /\ dropped \in Nat /\ previousDropped \in Nat
      /\ lost \in [Paths -> Causes \cup {No}] /\ event.path \in Paths
  BY DEF Types, SeqTypes, LenTypes, CountTypes, KeyTypes, Events
<1>2. CASE Len(queue) < Capacity /\ queue' = Append(queue, event) /\ UNCHANGED <<dropped, lost>>
  <2>1. /\ Append(queue, event) \in Seq(Events) /\ Len(Append(queue, event)) = Len(queue) + 1
        /\ \A i \in 1..Len(queue) : Append(queue, event)[i] = queue[i]
        /\ Append(queue, event)[Len(queue) + 1] = event
    BY <1>1
  <2>2. /\ DOMAIN queue' = 1..Len(queue) + 1 /\ DOMAIN queue = 1..Len(queue)
        /\ Len(queue) \in Nat
    BY <1>1, <1>2, <2>1
  <2>3. Mentioned(event.path)'
    BY <1>2, <2>1, <2>2 DEF Mentioned
  <2>4. \A q : Mentioned(q) => Mentioned(q)'
    BY <1>2, <2>1, <2>2 DEF Mentioned
  <2>5. Len(queue') <= Capacity
    BY <1>2, <2>1, <2>2
  <2>6. dropped' \in Nat /\ dropped' >= dropped
    BY <1>1, <1>2
  <2>7. lost' \in [Paths -> Causes \cup {No}] /\ GivenUp \subseteq GivenUp'
    BY <1>1, <1>2 DEF GivenUp
  <2>8. queue' \in Seq(Events)
    BY <1>2, <2>1
  <2>9. QED
    BY <2>3, <2>4, <2>5, <2>6, <2>7, <2>8
<1>3. ASSUME dropped' = dropped + 1, queue' = queue,
             lost' = IF stage = "ready" THEN lost
                     ELSE [lost EXCEPT ![event.path] = "early gap"]
      PROVE  /\ queue' \in Seq(Events) /\ Len(queue') <= Capacity
             /\ dropped' \in Nat /\ dropped' >= dropped
             /\ lost' \in [Paths -> Causes \cup {No}]
             /\ GivenUp \subseteq GivenUp'
             /\ \A q : Mentioned(q) => Mentioned(q)'
             /\ \/ stage = "ready" /\ dropped' > previousDropped
                \/ event.path \in GivenUp'
  <2>1. dropped' \in Nat /\ dropped' > previousDropped /\ dropped' >= dropped
    <3>1. /\ dropped \in Nat /\ previousDropped \in Nat /\ previousDropped <= dropped
          /\ dropped' = dropped + 1
      BY <1>1, <1>3
    <3>2. QED
      BY <3>1
  <2>2. lost' \in [Paths -> Causes \cup {No}] /\ GivenUp \subseteq GivenUp'
    BY <1>1, <1>3 DEF Causes, GivenUp, No
  <2>5. \A q : Mentioned(q) => Mentioned(q)'
    BY <1>3 DEF Mentioned
  <2>3. stage = "ready" \/ event.path \in GivenUp'
    BY <1>1, <1>3 DEF Causes, GivenUp, No
  <2>4. QED
    BY <1>1, <1>3, <2>1, <2>2, <2>3, <2>5
<1>4. QED
  BY <1>2, <1>3 DEF Notify

LEMMA EditStep ==
  ASSUME FileInv, NEW p \in Paths, NEW print \in Prints \cup {NoPrint}, Edit(p, print)
  PROVE  FileInv'
<1> DEFINE event == [path |-> p, second |-> second,
             action |-> IF print = NoPrint THEN "removed"
                        ELSE IF Exists(p) THEN "modified" ELSE "created"]
           new == [edits |-> disk[p].edits + 1, print |-> print]
<1>1. /\ edits < MaxEdits /\ edits' = edits + 1
      /\ disk' = [disk EXCEPT ![p] = new] /\ Notify(event)
      /\ UNCHANGED <<previousDropped, journal, collected, stage, early, baseline,
                     pending, out, keys, scanning, second, told>>
  BY DEF Edit
<1>2. Types /\ NothingFromTheFuture /\ ThreadsOK /\ ScansAnswer /\ SlotsAccounted
      /\ \A q \in Paths \ GivenUp : Noticed(q)
  BY DEF FileInv
<1>3. event \in Events /\ event.path = p
  BY <1>2 DEF Events, Actions, Types, CountTypes, FileTypes, Files
<1> HIDE DEF event
<1>4. /\ queue' \in Seq(Events) /\ Len(queue') <= Capacity
      /\ dropped' \in Nat /\ dropped' >= dropped
      /\ lost' \in [Paths -> Causes \cup {No}]
      /\ GivenUp \subseteq GivenUp'
      /\ \A q : Mentioned(q) => Mentioned(q)'
      /\ \/ Mentioned(p)'
         \/ stage = "ready" /\ dropped' > previousDropped
         \/ p \in GivenUp'
  BY <1>1, <1>2, <1>3, NotifyStep DEF NothingFromTheFuture
<1>5. /\ disk \in [Paths -> Files] /\ disk[p].edits \in Nat /\ edits \in Nat
      /\ disk[p].edits <= edits /\ MaxEdits \in Nat
  BY <1>2 DEF Types, CountTypes, FileTypes, NothingFromTheFuture, Files
<1>6. new \in Files
  BY <1>1, <1>5 DEF Files
<1>7. /\ disk' \in [Paths -> Files] /\ disk'[p] = new
      /\ \A q \in Paths \ {p} : disk'[q] = disk[q]
  BY <1>1, <1>5, <1>6
<1>8. Types'
  <2>1. /\ SeqTypes /\ LenTypes /\ FileTypes /\ CountTypes /\ FlagTypes
        /\ KeyTypes /\ ScanTypes
    BY <1>2 DEF Types
  <2>2. SeqTypes' /\ LenTypes'
    BY <1>1, <1>4, <2>1 DEF SeqTypes, LenTypes
  <2>3. FileTypes'
    BY <1>1, <1>7, <2>1 DEF FileTypes
  <2>4. CountTypes'
    <3>1. edits < MaxEdits /\ edits' = edits + 1 /\ second' = second
          /\ previousDropped' = previousDropped /\ dropped' \in Nat
      BY <1>1, <1>4
    <3>2. QED
      BY <2>1, <3>1 DEF CountTypes
  <2>5. FlagTypes' /\ KeyTypes' /\ ScanTypes'
    BY <1>1, <1>4, <2>1 DEF FlagTypes, KeyTypes, ScanTypes, scanning
  <2>6. QED
    BY <2>2, <2>3, <2>4, <2>5 DEF Types
<1>12. /\ previousDropped \in Nat /\ dropped \in Nat /\ previousDropped <= dropped
       /\ previousDropped' = previousDropped /\ dropped' \in Nat /\ dropped' >= dropped
  BY <1>1, <1>2, <1>4 DEF NothingFromTheFuture, Types, CountTypes
<1>14. previousDropped' <= dropped' /\ (dropped > previousDropped => dropped' > previousDropped')
  BY <1>12
<1>9. NothingFromTheFuture'
  <2>1. previousDropped' <= dropped'
    BY <1>14
  <2>2. ASSUME NEW q \in Paths
        PROVE  /\ disk'[q].edits <= edits'
               /\ collected'[q].edits <= disk'[q].edits /\ baseline'[q].edits <= disk'[q].edits
               /\ wanted'[q] <= disk'[q].edits
    <3>1. /\ disk[q].edits <= edits /\ collected[q].edits <= disk[q].edits
          /\ baseline[q].edits <= disk[q].edits /\ wanted[q] <= disk[q].edits
      BY <1>2 DEF NothingFromTheFuture
    <3>2. /\ disk[q].edits \in Nat /\ collected[q].edits \in Nat
          /\ baseline[q].edits \in Nat /\ wanted[q] \in Nat
      BY <1>2 DEF Types, FileTypes, ScanTypes, Files
    <3>3. disk'[q].edits \in {disk[q].edits, disk[q].edits + 1}
          /\ (disk'[q].edits <= edits + 1)
      BY <1>5, <1>7, <3>1, <3>2
    <3>4. QED
      BY <1>1, <1>5, <3>1, <3>2, <3>3 DEF scanning
  <2>3. QED
    BY <2>1, <2>2 DEF NothingFromTheFuture
<1>10. ASSUME NEW q \in Paths \ GivenUp' PROVE Noticed(q)'
  <2>2. q \in Paths \ GivenUp
    BY <1>4, <1>10
  <2>3. Noticed(q)
    BY <1>2, <2>2
  <2>4. Gap => Gap'
    BY <1>1, <1>14 DEF Gap
  <2>5. CASE q # p
    BY <1>1, <1>4, <1>7, <2>2, <2>3, <2>4, <2>5 DEF Noticed, Described, Exists, Coming
  <2>6. CASE q = p
    <3>1. CASE Mentioned(p)'
      BY <2>6, <3>1 DEF Noticed
    <3>2. CASE stage = "ready" /\ dropped' > previousDropped
      <4>1. stage' = "ready" /\ Gap'
        BY <1>1, <3>2 DEF Gap
      <4>2. baseline[p].edits <= disk[p].edits /\ baseline[p].edits \in Nat
        BY <1>2 DEF NothingFromTheFuture, Types, FileTypes, Files
      <4>3. baseline'[p] # disk'[p]
        BY <1>1, <1>5, <1>7, <4>2
      <4>4. QED
        BY <2>6, <4>1, <4>3 DEF Noticed
    <3>3. CASE p \in GivenUp'
      BY <1>10, <2>6, <3>3
    <3>4. QED
      BY <1>4, <3>1, <3>2, <3>3
  <2>7. QED
    BY <2>5, <2>6
<1>11. ThreadsOK' /\ ScansAnswer' /\ SlotsAccounted'
  BY <1>1, <1>2, ScansFrame
<1>13. QED
  BY <1>8, <1>9, <1>10, <1>11 DEF FileInv

\* What a step that touches nothing of the kind keeps.
FutureFrame == UNCHANGED <<dropped, previousDropped, disk, edits, collected, baseline, wanted>>

LEMMA FutureKept == NothingFromTheFuture /\ FutureFrame => NothingFromTheFuture'
  BY DEF NothingFromTheFuture, FutureFrame

LEMMA TickStep == FileInv /\ Tick => FileInv'
<1> SUFFICES ASSUME FileInv, Tick PROVE FileInv'
  OBVIOUS
<1>1. /\ second < MaxSeconds /\ second' = second + 1
      /\ UNCHANGED <<disk, monitor, out, keys, scanning, edits, told, lost>>
  BY DEF Tick
<1>2. CountTypes'
  <2>1. UNCHANGED <<dropped, previousDropped, edits>>
    BY <1>1 DEF monitor
  <2>2. CountTypes /\ second < MaxSeconds /\ second' = second + 1
    BY <1>1 DEF FileInv, Types
  <2>3. QED
    BY <2>1, <2>2 DEF CountTypes
<1>3. SeqTypes' /\ LenTypes' /\ FileTypes' /\ FlagTypes' /\ KeyTypes' /\ ScanTypes'
  BY <1>1 DEF FileInv, Types, SeqTypes, LenTypes, FileTypes, FlagTypes, KeyTypes, ScanTypes,
              monitor, scanning
<1>4. NothingFromTheFuture'
  BY <1>1, FutureKept DEF FileInv, FutureFrame, monitor, scanning
<1>5. \A p \in Paths \ GivenUp' : Noticed(p)'
  <2>1. NoticeFrame
    BY <1>1 DEF NoticeFrame, monitor
  <2>2. QED
    BY <2>1, NoticedFrame DEF FileInv
<1>6. ThreadsOK' /\ ScansAnswer' /\ SlotsAccounted'
  BY <1>1, ScansFrame DEF FileInv
<1>7. QED
  BY <1>2, <1>3, <1>4, <1>5, <1>6 DEF FileInv, Types

LEMMA JournalStep == FileInv /\ JournalReset => FileInv'
<1> SUFFICES ASSUME FileInv, JournalReset PROVE FileInv'
  OBVIOUS
<1>1. /\ journal' = TRUE /\ edits < MaxEdits /\ edits' = edits + 1
      /\ UNCHANGED <<disk, queue, dropped, previousDropped, collected, stage, early,
                     baseline, pending, out, keys, scanning, second, told, lost>>
  BY DEF JournalReset
<1>2. Types'
  <2>1. CountTypes'
    <3>1. /\ CountTypes /\ edits < MaxEdits /\ edits' = edits + 1
          /\ UNCHANGED <<dropped, previousDropped, second>>
      BY <1>1 DEF FileInv, Types
    <3>2. QED
      BY <3>1 DEF CountTypes
  <2>2. QED
    BY <1>1, <2>1 DEF FileInv, Types, SeqTypes, LenTypes, FileTypes, FlagTypes, KeyTypes,
                      ScanTypes, scanning
<1>3. NothingFromTheFuture'
  <2>1. edits' = edits + 1 /\ edits \in Nat /\ \A p \in Paths : disk[p].edits \in Nat
    BY <1>1 DEF FileInv, Types, CountTypes, FileTypes, Files
  <2>2. NothingFromTheFuture
        /\ UNCHANGED <<dropped, previousDropped, disk, collected, baseline, wanted>>
    BY <1>1 DEF FileInv, scanning
  <2>3. QED
    BY <2>1, <2>2 DEF NothingFromTheFuture
<1>4. \A p \in Paths \ GivenUp' : Noticed(p)'
  BY <1>1 DEF FileInv, GivenUp, Noticed, Described, Exists, Mentioned, Coming, Gap
<1>5. ThreadsOK' /\ ScansAnswer' /\ SlotsAccounted'
  BY <1>1, ScansFrame DEF FileInv
<1>6. QED
  BY <1>2, <1>3, <1>4, <1>5 DEF FileInv

LEMMA SendBaselineStep == FileInv /\ SendBaseline => FileInv'
<1> SUFFICES ASSUME FileInv, SendBaseline PROVE FileInv'
  OBVIOUS
<1> PICK listed \in SUBSET Paths : collected' = Enumerated(listed)
  BY DEF SendBaseline
<1>1. /\ stage = "collecting" /\ stage' = "sent" /\ collected' = Enumerated(listed)
      /\ UNCHANGED <<disk, queue, dropped, previousDropped, journal, early, baseline,
                     pending, out, keys, scanning, second, edits, told, lost>>
  BY DEF SendBaseline
<1>2. Types'
  BY <1>1, EnumeratedIs DEF FileInv, Types, SeqTypes, LenTypes, FileTypes, CountTypes, FlagTypes, KeyTypes,
              ScanTypes, scanning
<1>3. NothingFromTheFuture'
  <2>1. \A p \in Paths : collected'[p].edits <= disk[p].edits
    BY <1>1, EnumeratedIs DEF FileInv
  <2>2. NothingFromTheFuture
        /\ UNCHANGED <<dropped, previousDropped, disk, edits, baseline, wanted>>
    BY <1>1 DEF FileInv, scanning
  <2>3. QED
    BY <2>1, <2>2 DEF NothingFromTheFuture
<1>4. \A p \in Paths \ GivenUp' : Noticed(p)'
  BY <1>1 DEF FileInv, GivenUp, Noticed, Described, Exists, Mentioned, Coming
<1>5. ThreadsOK' /\ ScansAnswer' /\ SlotsAccounted'
  BY <1>1, ScansFrame DEF FileInv
<1>6. QED
  BY <1>2, <1>3, <1>4, <1>5 DEF FileInv

-----------------------------------------------------------------------------
(***************************************************************************)
(* Drains                                                                  *)
(***************************************************************************)
\* What is left to show of a drain: what it does to the baseline, and that
\* no change is overlooked.
LEMMA DrainFrame ==
  ASSUME FileInv, TakeEvents,
         out' \in Seq(Events), Len(out') <= Limit + 1,
         early' \in Seq(Events), Len(early') <= Capacity,
         baseline' \in [Paths -> Files], \A p \in Paths : baseline'[p].edits <= disk[p].edits,
         pending' \in BOOLEAN, lost' \in [Paths -> Causes \cup {No}],
         \A p \in Paths \ GivenUp' : Noticed(p)'
  PROVE  FileInv'
<1>1. /\ queue' = Remaining /\ previousDropped' = dropped /\ journal' = FALSE
      /\ stage' = IF Arrived THEN "ready" ELSE stage
      /\ UNCHANGED <<disk, dropped, collected, keys, scanning, second, edits, told>>
  BY DEF TakeEvents
<1>2. Types /\ NothingFromTheFuture /\ ThreadsOK /\ ScansAnswer /\ SlotsAccounted
  BY DEF FileInv
<1>3. SeqTypes' /\ LenTypes'
  <2>1. Remaining \in Seq(Events) /\ Len(Remaining) <= Len(queue) /\ Len(queue) <= Capacity
        /\ queue \in Seq(Events)
    BY <1>2, DrainedSplits DEF Types, LenTypes, SeqTypes
  <2>2. queue' = Remaining
    BY <1>1
  <2>3. queue' \in Seq(Events) /\ Len(queue') <= Capacity
    BY <2>1, <2>2
  <2>4. QED
    BY <2>3 DEF SeqTypes, LenTypes
<1>4. FileTypes'
  BY <1>1, <1>2 DEF Types, FileTypes
<1>5. CountTypes'
  <2>1. UNCHANGED <<dropped, second, edits>> /\ previousDropped' = dropped /\ CountTypes
    BY <1>1, <1>2 DEF Types
  <2>2. QED
    BY <2>1 DEF CountTypes
<1>6. FlagTypes'
  BY <1>1, <1>2 DEF Types, FlagTypes
<1>7. KeyTypes' /\ ScanTypes'
  BY <1>1, <1>2 DEF Types, KeyTypes, ScanTypes, scanning
<1>8. NothingFromTheFuture'
  <2>1. /\ UNCHANGED <<disk, dropped, collected, edits, wanted>>
        /\ previousDropped' = dropped /\ dropped \in Nat
    BY <1>1, <1>2 DEF Types, CountTypes, scanning
  <2>2. QED
    BY <1>2, <2>1 DEF NothingFromTheFuture
<1>9. ThreadsOK' /\ ScansAnswer' /\ SlotsAccounted'
  BY <1>1, <1>2, ScansFrame
<1>10. QED
  BY <1>3, <1>4, <1>5, <1>6, <1>7, <1>8, <1>9 DEF FileInv, Types

\* An event in the channel is reported by the drain, or stays in the channel.
LEMMA DrainKeepsEvents ==
  ASSUME FileInv, TakeEvents, NEW p, Mentioned(p)
  PROVE  InEvents(p, Drained) \/ Mentioned(p)'
<1>1. queue' = Remaining
  BY DEF TakeEvents
<1>2. InEvents(p, Drained) \/ InEvents(p, Remaining)
  BY DrainedSplits DEF FileInv
<1>3. QED
  BY <1>1, <1>2 DEF InEvents, Mentioned

LEMMA BaseIs ==
  ASSUME FileInv, NEW seen, stage \in {"sent", "ready"}
  PROVE  /\ Base(seen) \in [Paths -> Files] /\ \A p \in Paths : Base(seen)[p].edits <= disk[p].edits
         /\ stage = "ready" => Base(seen) = baseline
<1>1. Types /\ NothingFromTheFuture /\ collected \in [Paths -> Files] /\ baseline \in [Paths -> Files]
  BY DEF FileInv, Types, FileTypes
<1>2. CASE stage = "sent"
  <2>1. Base(seen) = Updated(collected, early, seen)
    BY <1>2 DEF Base, Arrived
  <2>2. ASSUME NEW p \in Paths PROVE Base(seen)[p].edits <= disk[p].edits
    <3>1. Base(seen)[p] \in {collected[p], Gone, disk[p]}
      BY <1>1, <2>1, UpdatedIs
    <3>2. collected[p].edits <= disk[p].edits /\ disk[p].edits \in Nat
      BY <1>1 DEF NothingFromTheFuture, Types, FileTypes, Files
    <3>3. QED
      BY <3>1, <3>2 DEF Gone
  <2>3. Base(seen) \in [Paths -> Files]
    BY <1>1, <2>1, UpdatedIs
  <2>4. QED
    BY <1>2, <2>2, <2>3
<1>3. CASE stage = "ready"
  <2>1. Base(seen) = baseline
    BY <1>3 DEF Base, Arrived
  <2>2. QED
    BY <1>1, <2>1 DEF NothingFromTheFuture
<1>4. QED
  BY <1>2, <1>3

LEMMA DrainEarlyStep == FileInv /\ DrainEarly => FileInv'
<1> SUFFICES ASSUME FileInv, DrainEarly PROVE FileInv'
  OBVIOUS
<1>1. /\ TakeEvents /\ ~Ready /\ out' = Drained /\ pending' = Gap
      /\ early' = early \o SubSeq(Drained, 1, Least(Len(Drained), Capacity - Len(early)))
      /\ UNCHANGED <<baseline, lost>>
  BY DEF DrainEarly
<1>2. /\ Drained \in Seq(Events) /\ Len(Drained) \in 0..Limit /\ Limit \in Nat
      /\ early \in Seq(Events) /\ Len(early) <= Capacity /\ Capacity \in Nat
  BY DrainedSplits DEF FileInv, Types, SeqTypes, LenTypes
<1>3. out' \in Seq(Events) /\ Len(out') <= Limit + 1
  <2>1. out' = Drained
    BY <1>1
  <2>2. QED
    BY <1>2, <2>1
<1>4. early' \in Seq(Events) /\ Len(early') <= Capacity
  <2> DEFINE room == Capacity - Len(early)
             n == Least(Len(Drained), room)
             kept == SubSeq(Drained, 1, n)
  <2>1. Len(early) \in Nat /\ room \in Nat /\ Len(Drained) \in Nat
    BY <1>2
  <2>2. n \in Nat /\ n <= Len(Drained) /\ n <= room
    BY <2>1, LeastIs
  <2> HIDE DEF n
  <2>3. kept \in Seq(Events) /\ Len(kept) = n
    BY <1>2, <2>1, <2>2
  <2>4. early' = early \o kept
    BY <1>1 DEF n
  <2> HIDE DEF kept
  <2>5. early' \in Seq(Events) /\ Len(early') = Len(early) + n
    <3>1. early \in Seq(Events) /\ kept \in Seq(Events)
      BY <1>2, <2>3
    <3>2. early \o kept \in Seq(Events) /\ Len(early \o kept) = Len(early) + Len(kept)
      BY <3>1
    <3>3. QED
      BY <2>3, <2>4, <3>2
  <2>6. QED
    BY <1>2, <2>1, <2>2, <2>5
<1>5. /\ baseline' \in [Paths -> Files] /\ \A p \in Paths : baseline'[p].edits <= disk[p].edits
      /\ lost' \in [Paths -> Causes \cup {No}] /\ pending' \in BOOLEAN
  BY <1>1 DEF FileInv, Types, FileTypes, KeyTypes, NothingFromTheFuture, Gap
<1>6. ASSUME NEW p \in Paths \ GivenUp' PROVE Noticed(p)'
  <2>1. stage # "ready" /\ out = <<>> /\ UNCHANGED <<disk, told>>
    BY <1>1 DEF Ready, TakeEvents
  <2>2. p \in Paths \ GivenUp
    BY <1>1, <1>6 DEF GivenUp
  <2>3. Described(p) \/ Mentioned(p)
    BY <2>1, <2>2 DEF FileInv, Noticed, Coming
  <2>4. CASE Described(p)
    BY <2>1, <2>4 DEF Noticed, Described, Exists
  <2>5. CASE Mentioned(p)
    <3>1. InEvents(p, Drained) \/ Mentioned(p)'
      BY <1>1, <2>5, DrainKeepsEvents
    <3>2. QED
      BY <1>1, <3>1 DEF InEvents, Noticed, Coming
  <2>6. QED
    BY <2>3, <2>4, <2>5
<1>7. QED
  BY <1>1, <1>3, <1>4, <1>5, <1>6, DrainFrame

LEMMA DrainUpdatingStep == FileInv /\ DrainUpdating => FileInv'
<1> SUFFICES ASSUME FileInv, DrainUpdating PROVE FileInv'
  OBVIOUS
<1> PICK seen \in SUBSET Paths : baseline' = Updated(Base(seen), Drained, seen)
  BY DEF DrainUpdating
<1>1. /\ TakeEvents /\ Ready /\ ~Gap /\ out' = Drained
      /\ baseline' = Updated(Base(seen), Drained, seen) /\ early' = <<>>
      /\ UNCHANGED <<pending, lost>>
  BY DEF DrainUpdating
<1>2. out' \in Seq(Events) /\ Len(out') <= Limit + 1
  <2>1. out' = Drained /\ Drained \in Seq(Events) /\ Len(Drained) \in 0..Limit /\ Limit \in Nat
    BY <1>1, DrainedSplits DEF FileInv
  <2>2. QED
    BY <2>1
<1>3. early' \in Seq(Events) /\ Len(early') <= Capacity
  <2>1. early' = <<>>
    BY <1>1
  <2>2. QED
    BY <2>1
<1>4. Base(seen) \in [Paths -> Files] /\ \A p \in Paths : Base(seen)[p].edits <= disk[p].edits
  BY <1>1, BaseIs DEF Ready
<1>5. baseline' \in [Paths -> Files]
  BY <1>1, <1>4, UpdatedIs DEF FileInv
<1>6. ASSUME NEW p \in Paths PROVE baseline'[p].edits <= disk[p].edits
  <2>1. baseline'[p] \in {Base(seen)[p], Gone, disk[p]}
    BY <1>1, <1>4, UpdatedIs DEF FileInv
  <2>2. Base(seen)[p].edits <= disk[p].edits /\ disk[p].edits \in Nat
    BY <1>4 DEF FileInv, Types, FileTypes, Files
  <2>3. QED
    BY <2>1, <2>2 DEF Gone
<1>7. lost' \in [Paths -> Causes \cup {No}] /\ pending' \in BOOLEAN
  BY <1>1 DEF FileInv, Types, FlagTypes, KeyTypes
<1>8. ASSUME NEW p \in Paths \ GivenUp' PROVE Noticed(p)'
  <2>1. out = <<>> /\ UNCHANGED <<disk, told>>
    BY <1>1 DEF TakeEvents
  <2>2. p \in Paths \ GivenUp
    BY <1>1, <1>8 DEF GivenUp
  <2>3. Described(p) \/ Mentioned(p)
    BY <1>1, <2>1, <2>2 DEF FileInv, Noticed, Coming
  <2>4. CASE Described(p)
    BY <2>1, <2>4 DEF Noticed, Described, Exists
  <2>5. CASE Mentioned(p)
    <3>1. InEvents(p, Drained) \/ Mentioned(p)'
      BY <1>1, <2>5, DrainKeepsEvents
    <3>2. QED
      BY <1>1, <3>1 DEF InEvents, Noticed, Coming
  <2>6. QED
    BY <2>3, <2>4, <2>5
<1>9. QED
  BY <1>1, <1>2, <1>3, <1>5, <1>6, <1>7, <1>8, DrainFrame

LEMMA DrainReconcilingStep == FileInv /\ DrainReconciling => FileInv'
<1> SUFFICES ASSUME FileInv, DrainReconciling PROVE FileInv'
  OBVIOUS
<1> DEFINE room == Limit - Len(Drained)
<1>1. PICK seen, listed, picked \in SUBSET Paths :
        /\ Picked(Base(seen), listed, room, picked)
        /\ \E order \in SetToSeqs(picked) :
             out' = Drained \o [i \in DOMAIN order |-> Found(Base(seen), listed, order[i])]
        /\ lost' = Overlooked(Base(seen), listed, room, picked)
        /\ baseline' = Enumerated(listed)
  BY DEF DrainReconciling
<1> DEFINE base == Base(seen)
<1>2. PICK order \in SetToSeqs(picked) :
        out' = Drained \o [i \in DOMAIN order |-> Found(base, listed, order[i])]
  BY <1>1
<1>3. TakeEvents /\ Ready /\ early' = <<>> /\ pending' = FALSE
  BY DEF DrainReconciling
<1> HIDE DEF base
<1>4. /\ Drained \in Seq(Events) /\ Len(Drained) \in 0..Limit /\ Limit \in Nat
      /\ room \in Nat
  BY DrainedSplits DEF FileInv
<1>5. /\ IsFiniteSet(picked) /\ Cardinality(picked) \in Nat
      /\ Cardinality(picked) <= room \/ Cardinality(picked) <= 1
      /\ Cardinality(picked) < room => Changed(base, listed) \subseteq picked
  BY <1>1, <1>4, PickedFits DEF base
<1>6. /\ order \in Seq(Paths) /\ Len(order) = Cardinality(picked)
      /\ \A p \in picked : \E i \in DOMAIN order : order[i] = p
  BY <1>5, OrderCovers
<1> DEFINE found == [i \in DOMAIN order |-> Found(base, listed, order[i])]
<1>7. /\ found \in Seq(Events) /\ Len(found) = Cardinality(picked)
      /\ \A p \in picked : InEvents(p, found)
  <2>1. DOMAIN order = 1..Cardinality(picked) /\ \A i \in DOMAIN order : order[i] \in Paths
    BY <1>6
  <2>2. \A i \in DOMAIN order : found[i] \in Events /\ found[i].path = order[i]
    BY <2>1, FoundIsEvent DEF FileInv
  <2>3. found \in [1..Cardinality(picked) -> Events]
    BY <2>1, <2>2
  <2>4. ASSUME NEW p \in picked PROVE InEvents(p, found)
    <3>1. PICK i \in DOMAIN order : order[i] = p
      BY <1>6
    <3>2. i \in DOMAIN found /\ found[i].path = p
      BY <2>2, <3>1
    <3>3. QED
      BY <3>2 DEF InEvents
  <2> HIDE DEF found
  <2>5. found \in Seq(Events) /\ Len(found) = Cardinality(picked)
    BY <1>5, <2>3
  <2>6. QED
    BY <2>4, <2>5
<1> HIDE DEF found
<1>8. out' = Drained \o found
  BY <1>2 DEF found
<1>9. /\ out' \in Seq(Events) /\ Len(out') = Len(Drained) + Len(found)
      /\ \A i \in DOMAIN Drained : i \in DOMAIN out' /\ out'[i] = Drained[i]
      /\ \A i \in DOMAIN found : Len(Drained) + i \in DOMAIN out' /\ out'[Len(Drained) + i] = found[i]
  <2>1. Drained \in Seq(Events) /\ found \in Seq(Events)
    BY <1>4, <1>7
  <2>2. QED
    BY <1>8, <2>1
<1>10. \A p : InEvents(p, Drained) \/ InEvents(p, found) => Coming(p)'
  BY <1>9 DEF InEvents, Coming
<1>11. Len(out') <= Limit + 1
  BY <1>4, <1>5, <1>7, <1>9
<1>12. /\ early' \in Seq(Events) /\ Len(early') <= Capacity
  <2>1. early' = <<>>
    BY <1>3
  <2>2. QED
    BY <2>1
<1>14. baseline' \in [Paths -> Files] /\ \A p \in Paths : baseline'[p].edits <= disk[p].edits
  BY <1>1, EnumeratedIs DEF FileInv
<1>13. lost \in [Paths -> Causes \cup {No}]
  BY DEF FileInv, Types, KeyTypes
<1>15. /\ lost' \in [Paths -> Causes \cup {No}] /\ pending' \in BOOLEAN
       /\ GivenUp \subseteq GivenUp'
  <2>1. lost' = Overlooked(base, listed, room, picked)
    BY <1>1 DEF base
  <2> HIDE DEF room
  <2>2. ASSUME NEW p \in Paths
        PROVE  /\ lost'[p] \in Causes \cup {No}
               /\ lost[p] # No => lost'[p] # No
    BY <1>13, <2>1 DEF Overlooked, Causes, No
  <2>3. lost' \in [Paths -> Causes \cup {No}]
    BY <2>1, <2>2 DEF Overlooked
  <2>4. QED
    BY <1>3, <2>2, <2>3 DEF GivenUp
<1>16. ASSUME NEW p \in Paths \ GivenUp' PROVE Noticed(p)'
  <2>1. out = <<>> /\ UNCHANGED <<disk, told>>
    BY <1>3 DEF TakeEvents
  <2>2. lost'[p] = No
    BY <1>16 DEF GivenUp
  <2>3. Noticed(p)
    BY <1>15, <1>16 DEF FileInv
  <2>4. CASE Described(p)
    BY <2>1, <2>4 DEF Noticed, Described, Exists
  <2>5. CASE Mentioned(p)
    <3>1. InEvents(p, Drained) \/ Mentioned(p)'
      BY <1>3, <2>5, DrainKeepsEvents
    <3>2. QED
      BY <1>10, <3>1 DEF Noticed
  <2>6. CASE stage = "ready" /\ baseline[p] # disk[p] /\ ~Described(p)
    <3>1. base = baseline /\ disk[p].print # NoPrint
      BY <2>6, BaseIs DEF base, Described, Exists
    <3>2. lost'[p] = IF p \notin listed THEN "unseen"
                     ELSE IF p \in Alike(base, listed) THEN "alike"
                     ELSE IF p \in Changed(base, listed) \ picked
                             /\ Cardinality(picked) >= room
                       THEN "truncated"
                     ELSE lost[p]
      BY <1>1, <2>6 DEF Overlooked, base
    <3>3. p \in listed /\ p \notin Alike(base, listed)
      BY <2>2, <3>2 DEF No
    <3>4. p \in Changed(base, listed)
      BY <2>6, <3>1, <3>3 DEF Changed, Alike
    <3>5. CASE p \in picked
      BY <1>7, <1>10, <3>5 DEF Noticed
    <3>6. CASE p \notin picked
      <4>1. Cardinality(picked) >= room
        BY <1>4, <1>5, <3>4, <3>6
      <4>2. QED
        BY <2>2, <3>2, <3>3, <3>4, <3>6, <4>1 DEF No
    <3>7. QED
      BY <3>5, <3>6
  <2>7. QED
    BY <2>1, <2>3, <2>4, <2>5, <2>6 DEF Noticed, Coming
<1>17. QED
  BY <1>3, <1>9, <1>11, <1>12, <1>14, <1>15, <1>16, DrainFrame

-----------------------------------------------------------------------------
(***************************************************************************)
(* Reports, and the scans they start                                       *)
(***************************************************************************)
Running == {t \in Threads : scans[t] # NoScan}

LEMMA RunningIsFinite == IsFiniteSet(Running) /\ Cardinality(Running) \in Nat
  BY FS_Subset, FS_CardinalityType DEF Running

\* A scan that is started has the path and what was asked for, and counts as
\* one more.
LEMMA StartScan ==
  ASSUME FileInv, NEW p \in Paths, NEW t \in Threads, scans[t] = NoScan,
         scans' = [scans EXCEPT ![t] = [NoScan EXCEPT !.path = p, !.asked = disk[p].edits]]
  PROVE  /\ scans' \in [Threads -> Scans] /\ ThreadsOK'
         /\ scans'[t].path = p /\ scans'[t].asked = disk[p].edits /\ ~scans'[t].done
         /\ \A u \in Threads \ {t} : scans'[u] = scans[u]
         /\ Cardinality(Running') = Cardinality(Running) + 1
<1> DEFINE new == [NoScan EXCEPT !.path = p, !.asked = disk[p].edits]
<1>1. scans \in [Threads -> Scans] /\ ThreadsOK /\ disk[p].edits \in 0..MaxEdits
  BY DEF FileInv, Types, ScanTypes, FileTypes, Files
<1>2. /\ scans' = [scans EXCEPT ![t] = new] /\ new \in Scans /\ new # NoScan
      /\ new.path = p /\ new.asked = disk[p].edits /\ ~new.done
  <2>1. /\ new.path = p /\ new.asked = disk[p].edits /\ new.done = FALSE
        /\ NoScan.path = NoPath
    BY DEF NoScan
  <2>2. NoScan \in Scans
    BY DEF NoScan, Scans
  <2>3. new \in Scans
    BY <1>1, <2>2 DEF Scans
  <2>4. QED
    BY <2>1, <2>3
<1> HIDE DEF new
<1>3. scans'[t] = new /\ \A u \in Threads \ {t} : scans'[u] = scans[u]
  BY <1>1, <1>2
<1>4. scans' \in [Threads -> Scans]
  BY <1>1, <1>2
<1>5. ThreadsOK'
  BY <1>1, <1>2, <1>3 DEF ThreadsOK
<1>6. Running' = Running \cup {t} /\ t \notin Running
  BY <1>2, <1>3 DEF Running
<1>7. Cardinality(Running') = Cardinality(Running) + 1
  <2>1. Cardinality(Running \cup {t}) = Cardinality(Running) + 1
    BY <1>6, RunningIsFinite, FS_AddElement
  <2>2. QED
    BY <1>6, <2>1
<1>8. QED
  BY <1>2, <1>3, <1>4, <1>5, <1>7

\* A thread that ends takes one from the live threads, and the others go on.
LEMMA EndScan ==
  ASSUME FileInv, NEW t \in Threads, scans[t].path # NoPath,
         scans' = [scans EXCEPT ![t] = NoScan], active' = active - 1, leaked' = leaked
  PROVE  /\ scans' \in [Threads -> Scans] /\ ThreadsOK'
         /\ \A u \in Threads \ {t} : scans'[u] = scans[u]
         /\ active' \in Nat /\ SlotsAccounted'
<1>1. scans \in [Threads -> Scans] /\ ThreadsOK
  BY DEF FileInv, Types, ScanTypes
<1>2. NoScan \in Scans /\ NoScan.path = NoPath /\ ~NoScan.done
  BY DEF NoScan, Scans
<1>3. scans' \in [Threads -> Scans] /\ scans'[t] = NoScan
      /\ \A u \in Threads \ {t} : scans'[u] = scans[u]
  BY <1>1, <1>2
<1>4. ThreadsOK'
  BY <1>1, <1>2, <1>3 DEF ThreadsOK
<1>5. Running' = Running \ {t} /\ t \in Running
  BY <1>2, <1>3 DEF Running
<1>6. Cardinality(Running') = Cardinality(Running) - 1
  <2>1. Cardinality(Running \ {t}) = Cardinality(Running) - 1
    BY <1>5, RunningIsFinite, FS_RemoveElement
  <2>2. QED
    BY <1>5, <2>1
<1>7. /\ active = Cardinality(Running) + leaked /\ active <= MaxScans
      /\ Cardinality(Running) \in Nat /\ leaked \in Nat /\ MaxScans \in Nat
  BY RunningIsFinite DEF FileInv, Types, ScanTypes, SlotsAccounted, Running
<1>8. Cardinality(Running) # 0
  BY <1>5, RunningIsFinite, FS_EmptySet
<1>9. active' \in Nat /\ active' = Cardinality(Running') + leaked' /\ active' <= MaxScans
  BY <1>6, <1>7, <1>8
<1>10. QED
  BY <1>3, <1>4, <1>9 DEF SlotsAccounted, Running

\* What answers a request still does when its thread is left alone, and no
\* finished reading is forgotten.
LEMMA AnswerKept ==
  ASSUME NEW q \in Paths, NEW t, wanted'[q] = wanted[q],
         wanted[q] \in Nat, scanned[q] \in Nat, scanned'[q] \in Nat, scanned'[q] >= scanned[q],
         \A u \in Threads \ {t} : scans'[u] = scans[u],
         Answered(q)
  PROVE  \/ Answered(q)'
         \/ t \in Threads /\ scans[t].path = q /\ scans[t].asked = wanted[q]
              /\ (scans[t].done => scans[t].read >= wanted[q])
<1>1. CASE scanned[q] >= wanted[q]
  <2>1. scanned'[q] >= wanted'[q]
    BY <1>1
  <2>2. QED
    BY <2>1 DEF Answered
<1>2. ASSUME NEW u \in Threads, scans[u].path = q, scans[u].asked = wanted[q],
             scans[u].done => scans[u].read >= wanted[q], u # t
      PROVE  Answered(q)'
  <2>1. scans'[u] = scans[u]
    BY <1>2
  <2>2. QED
    BY <1>2, <2>1 DEF Answered
<1>3. CASE ~(scanned[q] >= wanted[q])
  <2>1. PICK u \in Threads :
          /\ scans[u].path = q /\ scans[u].asked = wanted[q]
          /\ scans[u].done => scans[u].read >= wanted[q]
    BY <1>3 DEF Answered
  <2>2. CASE u = t
    BY <2>1, <2>2
  <2>3. CASE u # t
    BY <1>2, <2>1, <2>3
  <2>4. QED
    BY <2>2, <2>3
<1>4. QED
  BY <1>1, <1>3

\* schedule_realtime_scan asks for the content of the moment, and either a
\* thread is still to read it or the path is known to have got none.
LEMMA ScheduleStep ==
  ASSUME FileInv, NEW p \in Paths, Schedule(p), UNCHANGED disk
  PROVE  /\ ScanTypes' /\ ThreadsOK' /\ ScansAnswer' /\ SlotsAccounted'
         /\ \A q \in Paths : wanted'[q] <= disk[q].edits
<1>1. wanted' = [wanted EXCEPT ![p] = disk[p].edits] /\ scanned' = scanned
  BY DEF Schedule
<1>2. /\ disk[p].edits \in 0..MaxEdits /\ wanted \in [Paths -> 0..MaxEdits]
      /\ scanned \in [Paths -> 0..MaxEdits] /\ scans \in [Threads -> Scans]
      /\ refused \in [Paths -> Refusals \cup {No}]
  BY DEF FileInv, Types, FileTypes, ScanTypes, Files
<1>3. active \in Nat /\ leaked \in Nat /\ MaxScans \in Nat
  BY DEF FileInv, Types, ScanTypes
<1>4. /\ ThreadsOK /\ ScansAnswer /\ active <= MaxScans
      /\ active = Cardinality(Running) + leaked /\ Cardinality(Running) \in Nat
  BY RunningIsFinite DEF FileInv, SlotsAccounted, Running
<1>5. /\ wanted' \in [Paths -> 0..MaxEdits] /\ wanted'[p] = disk[p].edits
      /\ \A q \in Paths \ {p} : wanted'[q] = wanted[q]
  BY <1>1, <1>2
<1>6. \A q \in Paths : wanted'[q] <= disk[q].edits
  <2>1. \A q \in Paths : wanted[q] <= disk[q].edits
    BY DEF FileInv, NothingFromTheFuture
  <2>2. disk[p].edits <= disk[p].edits
    BY <1>2
  <2>3. QED
    BY <1>5, <2>1, <2>2
<1>7. CASE active < MaxScans /\ StartsScan(p)
  <2>1. PICK t \in Threads :
          /\ scans[t] = NoScan
          /\ scans' = [scans EXCEPT ![t] = [NoScan EXCEPT !.path = p, !.asked = disk[p].edits]]
    BY <1>7 DEF StartsScan
  <2>2. /\ active < MaxScans /\ active' = active + 1 /\ leaked' = leaked
        /\ refused' = [refused EXCEPT ![p] = No]
    BY <1>7 DEF StartsScan
  <2>3. /\ scans' \in [Threads -> Scans] /\ ThreadsOK'
        /\ scans'[t].path = p /\ scans'[t].asked = disk[p].edits /\ ~scans'[t].done
        /\ \A u \in Threads \ {t} : scans'[u] = scans[u]
        /\ Cardinality(Running') = Cardinality(Running) + 1
    BY <2>1, StartScan
  <2>4. ScanTypes'
    BY <1>1, <1>2, <1>3, <1>5, <2>2, <2>3 DEF ScanTypes
  <2>5. SlotsAccounted'
    <3>1. active' = Cardinality(Running') + leaked' /\ active' <= MaxScans
      BY <1>3, <1>4, <2>2, <2>3
    <3>2. QED
      BY <3>1 DEF SlotsAccounted, Running
  <2>6. ASSUME NEW q \in Paths \ Excused' PROVE Answered(q)'
    <3>1. CASE q = p
      BY <1>5, <2>3, <3>1 DEF Answered
    <3>2. CASE q # p
      <4>1. /\ q \in Paths \ Excused /\ wanted'[q] = wanted[q]
            /\ wanted[q] \in Nat /\ scanned[q] \in Nat /\ scanned'[q] = scanned[q]
        BY <1>1, <1>2, <1>5, <2>2, <2>6, <3>2 DEF Excused
      <4>2. Answered(q) /\ scans[t].path # q
        BY <1>4, <2>1, <4>1 DEF ScansAnswer, NoScan
      <4>3. scanned'[q] \in Nat /\ scanned'[q] >= scanned[q]
        BY <4>1
      <4>4. QED
        BY <2>3, <4>1, <4>2, <4>3, AnswerKept
    <3>3. QED
      BY <3>1, <3>2
  <2>7. QED
    BY <1>6, <2>3, <2>4, <2>5, <2>6 DEF ScansAnswer
<1>8. ASSUME NEW cause \in Refusals, Refuses(p, cause), scans' = scans,
             active' \in Nat, leaked' \in Nat, active' <= MaxScans,
             active' = Cardinality(Running) + leaked'
      PROVE  ScanTypes' /\ ThreadsOK' /\ ScansAnswer' /\ SlotsAccounted'
  <2>1. /\ refused' \in [Paths -> Refusals \cup {No}] /\ refused'[p] # No
        /\ \A q \in Paths \ {p} : refused'[q] = refused[q]
    BY <1>2, <1>8 DEF Refuses, Refusals, No
  <2>2. ScanTypes'
    BY <1>1, <1>2, <1>5, <1>8, <2>1 DEF ScanTypes
  <2>3. ThreadsOK'
    BY <1>4, <1>8 DEF ThreadsOK
  <2>4. SlotsAccounted'
    BY <1>8 DEF SlotsAccounted, Running
  <2>5. ASSUME NEW q \in Paths \ Excused' PROVE Answered(q)'
    <3>1. q \in Paths \ Excused /\ wanted'[q] = wanted[q] /\ scanned'[q] = scanned[q]
      BY <1>1, <1>5, <2>1, <2>5 DEF Excused
    <3>2. QED
      BY <1>4, <1>8, <3>1 DEF ScansAnswer, Answered
  <2>6. QED
    BY <2>2, <2>3, <2>4, <2>5 DEF ScansAnswer
<1>9. ASSUME NEW cause \in Refusals, Refuses(p, cause), UNCHANGED <<active, scans, leaked>>
      PROVE  ScanTypes' /\ ThreadsOK' /\ ScansAnswer' /\ SlotsAccounted'
  BY <1>3, <1>4, <1>8, <1>9
<1>10. CASE /\ active < MaxScans /\ Refuses(p, "no thread")
            /\ active' = active + 1 /\ leaked' = leaked + 1
            /\ UNCHANGED scans
  <2>1. /\ active' \in Nat /\ leaked' \in Nat /\ active' <= MaxScans
        /\ active' = Cardinality(Running) + leaked'
    <3>1. active < MaxScans /\ active' = active + 1 /\ leaked' = leaked + 1
      BY <1>10
    <3>2. QED
      BY <1>3, <1>4, <3>1
  <2>2. "no thread" \in Refusals
    BY DEF Refusals
  <2>3. QED
    BY <1>6, <1>8, <1>10, <2>1, <2>2
<1>11. CASE /\ Refuses(p, "not scannable") \/ Refuses(p, "busy")
            /\ UNCHANGED <<active, scans, leaked>>
  <2>1. "not scannable" \in Refusals /\ "busy" \in Refusals
    BY DEF Refusals
  <2>2. QED
    BY <1>6, <1>9, <1>11, <2>1
<1>12. QED
  BY <1>7, <1>10, <1>11 DEF Schedule

\* The events of a drain without the first.
LEMMA Reporting ==
  ASSUME NEW s \in Seq(Events), s # <<>>
  PROVE  /\ Head(s) \in Events /\ Tail(s) \in Seq(Events) /\ Len(Tail(s)) < Len(s)
         /\ \A p : InEvents(p, s) => p = Head(s).path \/ InEvents(p, Tail(s))
<1>1. /\ Head(s) = s[1] /\ Head(s) \in Events /\ Tail(s) \in Seq(Events)
      /\ Len(Tail(s)) = Len(s) - 1 /\ Len(s) \in Nat \ {0}
      /\ \A i \in 1..Len(s) - 1 : Tail(s)[i] = s[i + 1]
  OBVIOUS
<1>2. ASSUME NEW p, InEvents(p, s), p # Head(s).path PROVE InEvents(p, Tail(s))
  <2>1. PICK i \in 1..Len(s) : s[i].path = p
    BY <1>2 DEF InEvents
  <2>2. i # 1
    BY <1>1, <1>2, <2>1
  <2>3. i - 1 \in 1..Len(s) - 1 /\ i - 1 + 1 = i /\ DOMAIN Tail(s) = 1..Len(s) - 1
    BY <1>1, <2>1, <2>2
  <2>4. Tail(s)[i - 1].path = p
    BY <1>1, <2>1, <2>3
  <2>5. QED
    BY <2>3, <2>4 DEF InEvents
<1>3. Len(Tail(s)) < Len(s)
  BY <1>1
<1>4. QED
  BY <1>1, <1>2, <1>3

\* A report tells of the present content; one that is passed over as a
\* duplicate, or cannot be written, gives the content up, unless it was told
\* before.
LEMMA ReportStep == FileInv /\ Report => FileInv'
<1> SUFFICES ASSUME FileInv, Report PROVE FileInv'
  OBVIOUS
<1> DEFINE event == Head(out)
           kept == keys \cup {event}
<1>1. /\ out # <<>> /\ out' = Tail(out)
      /\ keys' = IF Len(out) = 1 /\ Cardinality(kept) > MaxKeys THEN {} ELSE kept
      /\ UNCHANGED <<disk, monitor, second, edits>>
  BY DEF Report
<1>2. /\ Types /\ NothingFromTheFuture /\ ThreadsOK /\ ScansAnswer /\ SlotsAccounted
      /\ \A p \in Paths \ GivenUp : Noticed(p)
  BY DEF FileInv
<1>3. /\ event \in Events /\ event.path \in Paths
      /\ Tail(out) \in Seq(Events) /\ Len(Tail(out)) < Len(out) /\ Len(out) \in Nat
      /\ \A p : Coming(p) => p = event.path \/ InEvents(p, Tail(out))
  <2>1. out \in Seq(Events)
    BY <1>2 DEF Types, SeqTypes
  <2>2. /\ event \in Events /\ Tail(out) \in Seq(Events) /\ Len(Tail(out)) < Len(out)
        /\ \A p : InEvents(p, out) => p = event.path \/ InEvents(p, Tail(out))
    BY <1>1, <2>1, Reporting
  <2> HIDE DEF event
  <2>3. event.path \in Paths
    BY <2>2 DEF Events
  <2>4. QED
    BY <2>1, <2>2, <2>3 DEF Coming, InEvents
<1> HIDE DEF event
<1>4. SeqTypes' /\ LenTypes' /\ CountTypes' /\ FlagTypes' /\ keys' \subseteq Events
  <2>1. SeqTypes'
    BY <1>1, <1>2, <1>3 DEF Types, SeqTypes, monitor
  <2>2. LenTypes'
    <3>1. Len(out) <= Limit + 1 /\ Len(queue) <= Capacity /\ Len(early) <= Capacity
          /\ Limit \in Nat
      BY <1>2 DEF Types, LenTypes
    <3>2. out' = Tail(out) /\ queue' = queue /\ early' = early
      BY <1>1 DEF monitor
    <3>3. Len(Tail(out)) \in Nat
      BY <1>3
    <3>4. Len(Tail(out)) <= Limit + 1
      BY <1>3, <3>1, <3>3
    <3>5. QED
      BY <3>1, <3>2, <3>4 DEF LenTypes
  <2>3. CountTypes' /\ FlagTypes'
    BY <1>1, <1>2 DEF Types, CountTypes, FlagTypes, monitor
  <2>4. keys' \subseteq Events
    BY <1>1, <1>2, <1>3 DEF Types, KeyTypes
  <2>5. QED
    BY <2>1, <2>2, <2>3, <2>4
<1>5. ASSUME NEW p, Coming(p), p # event.path PROVE Coming(p)'
  <2>1. InEvents(p, Tail(out))
    BY <1>3, <1>5
  <2>2. QED
    BY <1>1, <2>1 DEF InEvents, Coming
<1>6. \A p \in Paths : /\ Mentioned(p) => Mentioned(p)'
                       /\ stage' = stage /\ (Gap => Gap')
                       /\ baseline' = baseline /\ disk' = disk
  BY <1>1 DEF Mentioned, Gap, monitor
<1>7. lost \in [Paths -> Causes \cup {No}] /\ told \in [Paths -> Files] /\ disk \in [Paths -> Files]
  BY <1>2 DEF Types, KeyTypes, FileTypes
<1>8. ASSUME NEW cause \in Causes, GivesUp(event.path, cause)
      PROVE  /\ FileTypes' /\ KeyTypes' /\ \A p \in Paths \ GivenUp' : Noticed(p)'
  <2>1. /\ lost' = IF Described(event.path) THEN lost ELSE [lost EXCEPT ![event.path] = cause]
        /\ told' = told
    BY <1>8 DEF GivesUp
  <2>2. /\ lost' \in [Paths -> Causes \cup {No}] /\ GivenUp \subseteq GivenUp'
        /\ Described(event.path) \/ event.path \in GivenUp'
    BY <1>3, <1>7, <2>1 DEF GivenUp, Causes, No
  <2>3. FileTypes' /\ KeyTypes'
    BY <1>1, <1>2, <1>4, <2>1, <2>2 DEF Types, FileTypes, KeyTypes, monitor
  <2>4. ASSUME NEW p \in Paths \ GivenUp' PROVE Noticed(p)'
    <3>1. Noticed(p)
      BY <1>2, <2>2, <2>4
    <3>2. Described(p) => Described(p)'
      BY <1>6, <2>1, <2>4 DEF Described, Exists
    <3>3. CASE Coming(p)
      <4>1. p = event.path => Described(p)
        BY <2>2, <2>4
      <4>2. QED
        BY <1>5, <3>2, <3>3, <4>1 DEF Noticed
    <3>4. CASE ~Coming(p)
      BY <1>6, <2>4, <3>1, <3>2, <3>4 DEF Noticed
    <3>5. QED
      BY <3>3, <3>4
  <2>5. QED
    BY <2>3, <2>4
<1>9. ASSUME Reports(event.path)
      PROVE  /\ FileTypes' /\ KeyTypes' /\ \A p \in Paths \ GivenUp' : Noticed(p)'
  <2>1. /\ told' = [told EXCEPT ![event.path] = disk[event.path]]
        /\ lost' = [lost EXCEPT ![event.path] = No]
    BY <1>9 DEF Reports
  <2>2. /\ told' \in [Paths -> Files] /\ told'[event.path] = disk[event.path]
        /\ \A p \in Paths \ {event.path} : told'[p] = told[p] /\ lost'[p] = lost[p]
        /\ lost' \in [Paths -> Causes \cup {No}]
    BY <1>3, <1>7, <2>1
  <2>3. FileTypes' /\ KeyTypes'
    BY <1>1, <1>2, <1>4, <2>2 DEF Types, FileTypes, KeyTypes, monitor
  <2>4. ASSUME NEW p \in Paths \ GivenUp' PROVE Noticed(p)'
    <3>1. CASE p = event.path
      BY <1>6, <2>2, <3>1 DEF Noticed, Described
    <3>2. CASE p # event.path
      <4>1. Noticed(p)
        BY <1>2, <2>2, <2>4, <3>2 DEF GivenUp
      <4>2. Described(p) => Described(p)'
        BY <1>6, <2>2, <2>4, <3>2 DEF Described, Exists
      <4>3. QED
        BY <1>5, <1>6, <2>4, <3>2, <4>1, <4>2 DEF Noticed
    <3>3. QED
      BY <3>1, <3>2
  <2>5. QED
    BY <2>3, <2>4
<1>10. FileTypes' /\ KeyTypes' /\ \A p \in Paths \ GivenUp' : Noticed(p)'
  <2>1. \/ GivesUp(event.path, "duplicate") \/ GivesUp(event.path, "unwritten")
        \/ Reports(event.path)
    BY DEF Report, event
  <2>2. "duplicate" \in Causes /\ "unwritten" \in Causes
    BY DEF Causes
  <2>3. QED
    BY <1>8, <1>9, <2>1, <2>2
<1>11. /\ ScanTypes' /\ ThreadsOK' /\ ScansAnswer' /\ SlotsAccounted'
       /\ \A q \in Paths : wanted'[q] <= disk[q].edits
  <2>1. Schedule(event.path) \/ UNCHANGED scanning
    BY DEF Report, event
  <2>2. CASE Schedule(event.path)
    BY <1>1, <1>3, <2>2, ScheduleStep
  <2>3. CASE UNCHANGED scanning
    <3>1. ScanTypes' /\ \A q \in Paths : wanted'[q] <= disk[q].edits
      BY <1>2, <2>3 DEF Types, ScanTypes, NothingFromTheFuture, scanning
    <3>2. QED
      BY <1>2, <2>3, <3>1, ScansFrame
  <2>4. QED
    BY <2>1, <2>2, <2>3
<1>12. NothingFromTheFuture'
  <2>1. UNCHANGED <<dropped, previousDropped, disk, edits, collected, baseline>>
    BY <1>1 DEF monitor
  <2>2. QED
    BY <1>2, <1>11, <2>1 DEF NothingFromTheFuture
<1>13. QED
  BY <1>4, <1>10, <1>11, <1>12 DEF FileInv, Types

\* What is said of changes does not depend on the scans.
LEMMA ScanFrame ==
  ASSUME FileInv,
         UNCHANGED <<disk, monitor, out, keys, wanted, second, edits, told, lost>>,
         ScanTypes', ThreadsOK', ScansAnswer', SlotsAccounted'
  PROVE  FileInv'
<1>1. SeqTypes' /\ LenTypes' /\ FileTypes' /\ CountTypes' /\ FlagTypes' /\ KeyTypes'
  BY DEF FileInv, Types, SeqTypes, LenTypes, FileTypes, CountTypes, FlagTypes, KeyTypes, monitor
<1>2. NothingFromTheFuture'
  BY FutureKept DEF FileInv, FutureFrame, monitor
<1>3. \A p \in Paths \ GivenUp' : Noticed(p)'
  <2>1. NoticeFrame
    BY DEF NoticeFrame, monitor
  <2>2. QED
    BY <2>1, NoticedFrame DEF FileInv
<1>4. QED
  BY <1>1, <1>2, <1>3 DEF FileInv, Types

LEMMA ReadFileStep ==
  ASSUME FileInv, NEW t \in Threads, ReadFile(t)
  PROVE  FileInv'
<1> DEFINE read == disk[scans[t].path].edits
           new == [scans[t] EXCEPT !.done = TRUE, !.read = read]
<1>1. /\ scans[t].path # NoPath /\ ~scans[t].done
      /\ scans' = [scans EXCEPT ![t].done = TRUE, ![t].read = read]
      /\ UNCHANGED <<disk, monitor, out, keys, active, wanted, scanned, refused, leaked,
                     second, edits, told, lost>>
  BY DEF ReadFile
<1>2. /\ scans \in [Threads -> Scans] /\ scans[t].path \in Paths
      /\ disk \in [Paths -> Files] /\ wanted \in [Paths -> 0..MaxEdits]
      /\ scanned \in [Paths -> 0..MaxEdits]
  BY <1>1 DEF FileInv, Types, ScanTypes, FileTypes, Scans
<1>3. read \in 0..MaxEdits
  BY <1>2 DEF Files
<1> HIDE DEF read
<1>4. new \in Scans
  BY <1>2, <1>3 DEF Scans
<1>5. scans' = [scans EXCEPT ![t] = new]
  BY <1>1, <1>2
<1>6. scans'[t] = new /\ \A u \in Threads \ {t} : scans'[u] = scans[u]
  BY <1>2, <1>5
<1>7. ScanTypes'
  BY <1>1, <1>4, <1>5 DEF FileInv, Types, ScanTypes
<1>8. new.path = scans[t].path /\ new.asked = scans[t].asked /\ new.read = read /\ new.done
  BY <1>2 DEF Scans
<1> HIDE DEF new
<1>9. ThreadsOK'
  BY <1>1, <1>6, <1>8 DEF FileInv, ThreadsOK
<1>10. Running' = Running
  <2>1. scans[t] # NoScan /\ new # NoScan
    BY <1>1, <1>8 DEF NoScan
  <2>2. QED
    BY <1>6, <2>1 DEF Running
<1>11. SlotsAccounted'
  BY <1>1, <1>10 DEF FileInv, SlotsAccounted, Running
<1>12. ASSUME NEW q \in Paths \ Excused' PROVE Answered(q)'
  <2>1. /\ q \in Paths \ Excused /\ wanted' = wanted /\ scanned' = scanned
        /\ wanted[q] \in Nat /\ scanned[q] \in Nat
    BY <1>1, <1>2, <1>12 DEF Excused
  <2>2. Answered(q)
    BY <2>1 DEF FileInv, ScansAnswer
  <2>3. CASE scans[t].path = q /\ scans[t].asked = wanted[q]
    <3>1. wanted[q] <= disk[q].edits /\ read = disk[q].edits
      BY <2>1, <2>3 DEF FileInv, NothingFromTheFuture, read
    <3>2. read \in Nat
      BY <1>3
    <3>3. read >= wanted[q]
      BY <2>1, <3>1, <3>2
    <3>4. scans'[t].path = q /\ scans'[t].asked = wanted'[q] /\ scans'[t].read >= wanted'[q]
      BY <1>6, <1>8, <2>1, <2>3, <3>3
    <3>5. QED
      BY <3>4 DEF Answered
  <2>4. CASE ~(scans[t].path = q /\ scans[t].asked = wanted[q])
    <3>1. scanned'[q] \in Nat /\ scanned'[q] >= scanned[q] /\ wanted'[q] = wanted[q]
      BY <2>1
    <3>2. QED
      BY <1>6, <2>1, <2>2, <2>4, <3>1, AnswerKept
  <2>5. QED
    BY <2>3, <2>4
<1>13. ScansAnswer'
  BY <1>12 DEF ScansAnswer
<1>14. QED
  BY <1>1, <1>7, <1>9, <1>11, <1>13, ScanFrame

\* A scan that fails gives its slot back; what was asked of it is excused.
LEMMA ScanFailsStep ==
  ASSUME FileInv, NEW t \in Threads, ScanFails(t)
  PROVE  FileInv'
<1> DEFINE p == scans[t].path
<1>1. /\ p # NoPath /\ scans' = [scans EXCEPT ![t] = NoScan] /\ active' = active - 1
      /\ IF scans[t].asked = wanted[p] THEN Refuses(p, "failed") ELSE UNCHANGED refused
      /\ UNCHANGED <<disk, monitor, out, keys, wanted, scanned, leaked, second, edits,
                     told, lost>>
  BY DEF ScanFails
<1>2. /\ scans \in [Threads -> Scans] /\ p \in Paths
      /\ wanted \in [Paths -> 0..MaxEdits] /\ scanned \in [Paths -> 0..MaxEdits]
      /\ refused \in [Paths -> Refusals \cup {No}]
  BY <1>1 DEF FileInv, Types, ScanTypes, Scans
<1>3. /\ scans' \in [Threads -> Scans] /\ ThreadsOK'
      /\ \A u \in Threads \ {t} : scans'[u] = scans[u]
      /\ active' \in Nat /\ SlotsAccounted'
  BY <1>1, EndScan
<1>4. /\ refused' \in [Paths -> Refusals \cup {No}] /\ Excused \subseteq Excused'
      /\ scans[t].asked = wanted[p] => p \in Excused'
  BY <1>1, <1>2 DEF Refuses, Refusals, No, Excused
<1>5. ScanTypes'
  BY <1>1, <1>3, <1>4 DEF FileInv, Types, ScanTypes
<1>6. ASSUME NEW q \in Paths \ Excused' PROVE Answered(q)'
  <2>1. /\ q \in Paths \ Excused /\ wanted'[q] = wanted[q] /\ scanned'[q] = scanned[q]
        /\ wanted[q] \in Nat /\ scanned[q] \in Nat
    BY <1>1, <1>2, <1>4, <1>6
  <2>2. Answered(q) /\ ~(scans[t].path = q /\ scans[t].asked = wanted[q])
    BY <1>4, <1>6, <2>1 DEF FileInv, ScansAnswer
  <2>3. scanned'[q] \in Nat /\ scanned'[q] >= scanned[q]
    BY <2>1
  <2>4. QED
    BY <1>3, <2>1, <2>2, <2>3, AnswerKept
<1>7. ScansAnswer'
  BY <1>6 DEF ScansAnswer
<1>8. QED
  BY <1>1, <1>3, <1>5, <1>7, ScanFrame

\* The finding stands for the content that was read, and the slot is free.
LEMMA FinishScanStep ==
  ASSUME FileInv, NEW t \in Threads, FinishScan(t)
  PROVE  FileInv'
<1> DEFINE p == scans[t].path
           read == scans[t].read
<1>1. /\ scans[t].done /\ scans' = [scans EXCEPT ![t] = NoScan]
      /\ scanned' = [scanned EXCEPT ![p] = IF @ < read THEN read ELSE @]
      /\ active' = active - 1
      /\ UNCHANGED <<disk, monitor, out, keys, wanted, refused, leaked, second, edits,
                     told, lost>>
  BY DEF FinishScan
<1>2. /\ scans \in [Threads -> Scans] /\ p \in Paths /\ read \in 0..MaxEdits /\ p # NoPath
      /\ wanted \in [Paths -> 0..MaxEdits] /\ scanned \in [Paths -> 0..MaxEdits]
  BY <1>1 DEF FileInv, Types, ScanTypes, ThreadsOK, Scans
<1>3. /\ scanned' \in [Paths -> 0..MaxEdits] /\ scanned'[p] >= read
      /\ \A q \in Paths : scanned'[q] >= scanned[q]
  <2>1. scanned[p] \in Nat /\ read \in Nat
    BY <1>2
  <2>2. \A q \in Paths \ {p} : scanned'[q] = scanned[q] /\ scanned[q] \in Nat
    BY <1>1, <1>2
  <2>3. scanned'[p] = IF scanned[p] < read THEN read ELSE scanned[p]
    BY <1>1, <1>2
  <2>4. scanned' \in [Paths -> 0..MaxEdits]
    BY <1>1, <1>2
  <2>5. QED
    BY <2>1, <2>2, <2>3, <2>4
<1>4. /\ scans' \in [Threads -> Scans] /\ ThreadsOK'
      /\ \A u \in Threads \ {t} : scans'[u] = scans[u]
      /\ active' \in Nat /\ SlotsAccounted'
  BY <1>1, <1>2, EndScan
<1>5. ScanTypes'
  BY <1>1, <1>3, <1>4 DEF FileInv, Types, ScanTypes
<1>6. ASSUME NEW q \in Paths \ Excused' PROVE Answered(q)'
  <2>1. /\ q \in Paths \ Excused /\ wanted'[q] = wanted[q]
        /\ scanned'[q] >= scanned[q] /\ scanned'[q] \in Nat /\ scanned[q] \in Nat
        /\ wanted[q] \in Nat /\ read \in Nat
    BY <1>1, <1>2, <1>3, <1>6 DEF Excused
  <2>2. Answered(q)
    BY <2>1 DEF FileInv, ScansAnswer
  <2>3. CASE p = q /\ read >= wanted[q]
    <3>1. scanned'[q] >= wanted'[q]
      BY <1>3, <2>1, <2>3
    <3>2. QED
      BY <3>1 DEF Answered
  <2>4. CASE ~(p = q /\ read >= wanted[q])
    BY <1>1, <1>4, <2>1, <2>2, <2>4, AnswerKept DEF p, read
  <2>5. QED
    BY <2>3, <2>4
<1>7. ScansAnswer'
  BY <1>6 DEF ScansAnswer
<1>8. QED
  BY <1>1, <1>2, <1>4, <1>5, <1>7, ScanFrame

-----------------------------------------------------------------------------
(***************************************************************************)
(* Theorems                                                                *)
(***************************************************************************)
LEMMA NextInv == FileInv /\ [Next]_vars => FileInv'
<1> SUFFICES ASSUME FileInv, [Next]_vars PROVE FileInv'
  OBVIOUS
<1>1. ASSUME NEW p \in Paths, NEW print \in Prints \cup {NoPrint}, Edit(p, print)
      PROVE  FileInv'
  BY <1>1, EditStep
<1>2. CASE JournalReset \/ Tick \/ SendBaseline
  BY <1>2, JournalStep, TickStep, SendBaselineStep
<1>3. CASE DrainReconciling \/ DrainUpdating \/ DrainEarly
  BY <1>3, DrainReconcilingStep, DrainUpdatingStep, DrainEarlyStep
<1>4. CASE Report
  BY <1>4, ReportStep
<1>5. ASSUME NEW t \in Threads, ReadFile(t) \/ ScanFails(t) \/ FinishScan(t)
      PROVE  FileInv'
  BY <1>5, ReadFileStep, ScanFailsStep, FinishScanStep
<1>6. CASE UNCHANGED vars
  <2>1. UNCHANGED <<disk, monitor, out, keys, wanted, second, edits, told, lost>>
        /\ UNCHANGED scanning
    BY <1>6 DEF vars, scanning
  <2>2. ScanTypes' /\ ThreadsOK' /\ ScansAnswer' /\ SlotsAccounted'
    <3>1. ScanTypes'
      BY <2>1 DEF FileInv, Types, ScanTypes, scanning
    <3>2. QED
      BY <2>1, <3>1, ScansFrame DEF FileInv
  <2>3. QED
    BY <2>1, <2>2, ScanFrame
<1>7. QED
  BY <1>1, <1>2, <1>3, <1>4, <1>5, <1>6 DEF Next

(* Every reachable state satisfies the invariant. *)
LEMMA Invariance == Spec => []FileInv
  BY InitInv, NextInv, PTL DEF Spec

(* The channel, the events kept before the baseline and the events of a    *)
(* drain never exceed their capacities (file_monitor.rs, drain: one event  *)
(* more than the limit when reconcile is given no room).                   *)
THEOREM TypeCorrect == Spec => []TypeOK
<1>1. FileInv => TypeOK
  BY TypesAre DEF FileInv
<1>2. QED
  BY <1>1, Invariance, PTL

(* What a file holds was reported since it was written, or its event is on *)
(* the way, or a gap is known that the next drain reconciles; but for      *)
(* changes that were given up at a step of the code for one of six causes  *)
(* (file_monitor.rs, drain and reconcile; main.rs, drain_file_activity).   *)
THEOREM ChangeIsReportedHolds == Spec => []ChangeIsReported
<1>1. FileInv => ChangeIsReported
  BY DEF FileInv, Noticed, ChangeIsReported
<1>2. QED
  BY <1>1, Invariance, PTL

(* A program whose change was reported is scanned as it was then or later, *)
(* unless the request was refused or its own scan failed (main.rs,         *)
(* schedule_realtime_scan).                                                *)
THEOREM ReportedIsScannedHolds == Spec => []ReportedIsScanned
<1>1. FileInv => ReportedIsScanned
  <2> SUFFICES ASSUME FileInv, NEW p \in Paths \ Excused
               PROVE  \/ scanned[p] >= wanted[p]
                      \/ \E t \in Threads :
                           /\ scans[t].path = p
                           /\ scans[t].done => scans[t].read >= wanted[p]
    BY DEF ReportedIsScanned
  <2>1. Answered(p)
    BY DEF FileInv, ScansAnswer
  <2>2. QED
    BY <2>1 DEF Answered
<1>2. QED
  BY <1>1, Invariance, PTL

(* The counter of real-time scans is the number of live threads plus the   *)
(* slots lost to threads that never started, and never above its limit.    *)
THEOREM SlotsAccountedHolds == Spec => []SlotsAccounted
<1>1. FileInv => SlotsAccounted
  BY DEF FileInv
<1>2. QED
  BY <1>1, Invariance, PTL
=============================================================================
