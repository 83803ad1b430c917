----------------------- MODULE SnapshotRequests_proofs -----------------------
(***************************************************************************)
(* What holds of SnapshotRequests, and of the protection thread it runs    *)
(* beside, for every set of snapshots, every queue length and any number   *)
(* of cycles, requests, database failures and restarts.                    *)
(***************************************************************************)
EXTENDS SnapshotRequests, TLAPS, FiniteSetTheorems

-----------------------------------------------------------------------------
(***************************************************************************)
(* The operators of the loop                                               *)
(***************************************************************************)

\* A sequence without repetitions has as many elements as its length.
LEMMA ElementsCardinality ==
  ASSUME NEW S, NEW seq \in Seq(S),
         \A j, k \in DOMAIN seq : seq[j] = seq[k] => j = k
  PROVE  Cardinality(Elements(seq)) = Len(seq)
<1> DEFINE n == Len(seq)
<1>1. n \in Nat
  OBVIOUS
<1>2. seq \in Bijection(1..n, Elements(seq))
  BY DEF Bijection, Injection, Surjection, Elements, IsInjective
<1>3. ExistsBijection(1..n, Elements(seq))
  BY <1>2 DEF ExistsBijection
<1> HIDE DEF n
<1>4. Cardinality(Elements(seq)) = n
  BY <1>1, <1>3, FS_CountingElements
<1>5. QED
  BY <1>4 DEF n

\* What is left of a sequence without its first n elements.
LEMMA SuffixFacts ==
  ASSUME NEW S, NEW seq \in Seq(S), NEW n \in 0..Len(seq)
  PROVE  LET rest == SubSeq(seq, n + 1, Len(seq))
         IN  /\ rest \in Seq(S) /\ Len(rest) = Len(seq) - n
             /\ \A k \in 1..(Len(seq) - n) : rest[k] = seq[k + n]
  OBVIOUS

\* The head of a sequence and the rest of it are all there is.
LEMMA SplitElements ==
  ASSUME NEW S, NEW seq \in Seq(S), NEW n \in 0..Len(seq)
  PROVE  Elements(SubSeq(seq, 1, n)) \cup Elements(SubSeq(seq, n + 1, Len(seq)))
           = Elements(seq)
<1> DEFINE A == SubSeq(seq, 1, n)
           B == SubSeq(seq, n + 1, Len(seq))
<1>1. A \in Seq(S) /\ Len(A) = n /\ \A k \in 1..n : A[k] = seq[k]
  OBVIOUS
<1>2. B \in Seq(S) /\ Len(B) = Len(seq) - n /\ \A k \in 1..(Len(seq) - n) : B[k] = seq[k + n]
  BY SuffixFacts
<1> HIDE DEF A, B
<1>3. Elements(A) \subseteq Elements(seq) /\ Elements(B) \subseteq Elements(seq)
  <2>1. \A k \in DOMAIN A : k \in DOMAIN seq /\ A[k] = seq[k]
    BY <1>1
  <2>2. \A k \in DOMAIN B : k + n \in DOMAIN seq /\ B[k] = seq[k + n]
    BY <1>2
  <2>3. QED
    BY <2>1, <2>2 DEF Elements
<1>4. ASSUME NEW k \in DOMAIN seq PROVE seq[k] \in Elements(A) \cup Elements(B)
  <2>1. CASE k <= n
    BY <1>1, <2>1 DEF Elements
  <2>2. CASE k > n
    <3>1. k - n \in 1..(Len(seq) - n) /\ B[k - n] = seq[k]
      BY <1>2, <2>2
    <3>2. QED
      BY <1>2, <3>1 DEF Elements
  <2>3. QED
    BY <2>1, <2>2
<1>5. QED
  BY <1>3, <1>4 DEF Elements, A, B

LEMMA ConcatElements ==
  ASSUME NEW S, NEW a \in Seq(S), NEW b \in Seq(S)
  PROVE  Elements(a \o b) = Elements(a) \cup Elements(b)
<1> DEFINE c == a \o b
<1>1. ASSUME NEW k \in DOMAIN c PROVE c[k] \in Elements(a) \cup Elements(b)
  <2>1. CASE k <= Len(a)
    BY <2>1 DEF Elements
  <2>2. CASE k > Len(a)
    <3>1. k - Len(a) \in DOMAIN b /\ c[k] = b[k - Len(a)]
      BY <2>2
    <3>2. QED
      BY <3>1 DEF Elements
  <2>3. QED
    BY <2>1, <2>2
<1>2. \A k \in DOMAIN a : a[k] = c[k] /\ k \in DOMAIN c
  OBVIOUS
<1>3. \A k \in DOMAIN b : b[k] = c[k + Len(a)] /\ k + Len(a) \in DOMAIN c
  OBVIOUS
<1> HIDE DEF c
<1>4. Elements(c) = Elements(a) \cup Elements(b)
  BY <1>1, <1>2, <1>3 DEF Elements
<1>5. QED
  BY <1>4 DEF c

\* A listing of the new identities names each of them once.
LEMMA OrderFacts ==
  ASSUME NEW S \in SUBSET Images, NEW order \in Orders(S)
  PROVE  /\ order \in Seq(Images) /\ Elements(order) = S
         /\ \A j, k \in DOMAIN order : order[j] = order[k] => j = k
<1> DEFINE n == Cardinality(S)
<1>1. IsFiniteSet(S) /\ n \in Nat
  BY LoopConstants, FS_Subset, FS_CardinalityType
<1>2. order \in [1..n -> S] /\ Elements(order) = S
  BY DEF Orders
<1>3. order \in Surjection(1..n, S)
  BY <1>2 DEF Surjection, Elements
<1>4. IsFiniteSet(1..n) /\ Cardinality(1..n) = n
  <2> HIDE DEF n
  <2>1. Cardinality(1..n) = n /\ IsFiniteSet(1..n)
    <3>1. Cardinality(1..n) = IF 1 > n THEN 0 ELSE n - 1 + 1
      BY <1>1, FS_Interval
    <3>2. IsFiniteSet(1..n)
      BY <1>1, FS_Interval
    <3>3. QED
      BY <1>1, <3>1, <3>2
  <2>2. QED
    BY <2>1
<1> HIDE DEF n
<1>5. order \in Injection(1..n, S)
  <2>1. Cardinality(1..n) = Cardinality(S)
    BY <1>4 DEF n
  <2>2. QED
    BY <1>1, <1>3, <1>4, <2>1, FS_SurjSameCardinalityImpliesInj
<1>6. QED
  BY <1>1, <1>2, <1>5 DEF Injection, IsInjective

-----------------------------------------------------------------------------
(***************************************************************************)
(* The protection thread                                                   *)
(***************************************************************************)

\* The queue holds no identity twice; before the first snapshot there is
\* nothing; a count is at least the streak, and a full count is reported.
QueueInv ==
  /\ \A j, k \in DOMAIN pending : pending[j] = pending[k] => j = k
  /\ ~baselined => known = {} /\ first = {} /\ pending = <<>> /\ analysed = {} /\ displaced = {}
CountInv ==
  \A i \in Images : streak[i] <= counts[i] /\ (counts[i] >= BeaconRows => i \in beacons)

LoopInv == LoopTypeOK /\ QueueInv /\ CountInv /\ NewIsAccounted

USE LoopConstants, RequestConstants

LEMMA LoopInitInv == LoopInit => LoopInv
<1> SUFFICES ASSUME LoopInit PROVE LoopInv
  OBVIOUS
<1>1. LoopTypeOK
  <2>1. <<>> \in Seq(Images) /\ Len(<<>>) <= MaxPending
    OBVIOUS
  <2>2. [i \in Images |-> 0] \in [Images -> 0..MaxCount]
    OBVIOUS
  <2>3. QED
    BY <2>1, <2>2 DEF LoopInit, LoopTypeOK
<1>2. QueueInv /\ CountInv
  BY DEF LoopInit, QueueInv, CountInv
<1>3. NewIsAccounted
  BY DEF LoopInit, NewIsAccounted, Elements
<1>4. QED
  BY <1>1, <1>2, <1>3 DEF LoopInv

LEMMA RowsFinite ==
  ASSUME NEW s \in Views, NEW i \in Images
  PROVE  Cardinality(Rows(s, i)) \in Nat /\ (Rows(s, i) # {} => Cardinality(Rows(s, i)) >= 1)
<1>1. IsFiniteSet(Pids \X Ports)
  BY FS_Product
<1>2. Rows(s, i) \subseteq Pids \X Ports
  BY DEF Rows, Snapshot
<1>3. IsFiniteSet(Rows(s, i))
  BY <1>1, <1>2, FS_Subset
<1>4. Cardinality(Rows(s, i)) \in Nat /\ (Cardinality(Rows(s, i)) = 0 <=> Rows(s, i) = {})
  BY <1>3, FS_CardinalityType, FS_EmptySet
<1>5. QED
  BY <1>4

\* One turn of the thread: what happens to the queue, and what to the counts.
LEMMA CycleStep ==
  ASSUME LoopInv, NEW s \in Views, NEW order \in Orders(NewIn(s)), NEW convicted,
         Cycle(s, order, convicted)
  PROVE  LoopInv'
<1> DEFINE q == pending \o order
           kept == Shortened(q)
           n == Smaller(PerCycle, Len(kept))
           taken == Elements(SubSeq(kept, 1, n))
           bad == suspicious \cup (taken \cap convicted)
<1>1. /\ pending \in Seq(Images) /\ Len(pending) <= MaxPending
      /\ \A j, k \in DOMAIN pending : pending[j] = pending[k] => j = k
      /\ known \subseteq Images /\ Elements(pending) \subseteq known
  BY DEF LoopInv, LoopTypeOK, QueueInv, NewIsAccounted
<1>2. Identities(s) \subseteq Images /\ NewIn(s) \subseteq Identities(s) /\ NewIn(s) \cap known = {}
  BY DEF Identities, NewIn, Snapshot
<1>3. /\ order \in Seq(Images) /\ Elements(order) = NewIn(s)
      /\ \A j, k \in DOMAIN order : order[j] = order[k] => j = k
  BY <1>2, OrderFacts
<1>4. q \in Seq(Images) /\ Elements(q) = Elements(pending) \cup NewIn(s)
  BY <1>1, <1>3, ConcatElements
<1>5. \A j, k \in DOMAIN q : q[j] = q[k] => j = k
  <2>1. DOMAIN q = 1..Len(q) /\ Len(q) = Len(pending) + Len(order)
        /\ Len(pending) \in Nat /\ Len(order) \in Nat
    BY <1>1, <1>3
  <2>2. \A k \in 1..Len(pending) : q[k] = pending[k] /\ k \in DOMAIN pending
    BY <1>1, <1>3
  <2>3. \A k \in 1..Len(q) : k > Len(pending) =>
          q[k] = order[k - Len(pending)] /\ k - Len(pending) \in DOMAIN order
    BY <1>1, <1>3
  <2>4. \A k \in DOMAIN pending : pending[k] \notin NewIn(s)
    BY <1>1, <1>2 DEF Elements
  <2>5. \A k \in DOMAIN order : order[k] \in NewIn(s)
    BY <1>3 DEF Elements
  <2> HIDE DEF q
  <2>6. ASSUME NEW j \in DOMAIN q, NEW k \in DOMAIN q, j < k PROVE q[j] # q[k]
    <3>1. CASE k <= Len(pending)
      BY <1>1, <2>1, <2>2, <2>6, <3>1
    <3>2. CASE j > Len(pending)
      <4>1. /\ q[j] = order[j - Len(pending)] /\ j - Len(pending) \in DOMAIN order
            /\ q[k] = order[k - Len(pending)] /\ k - Len(pending) \in DOMAIN order
        BY <2>1, <2>3, <2>6, <3>2
      <4>2. j - Len(pending) # k - Len(pending)
        BY <2>1, <2>6
      <4>3. QED
        BY <1>3, <4>1, <4>2
    <3>3. CASE j <= Len(pending) /\ k > Len(pending)
      BY <2>1, <2>2, <2>3, <2>4, <2>5, <3>3
    <3>4. QED
      BY <2>1, <3>1, <3>2, <3>3
  <2>7. QED
    BY <2>1, <2>6
<1> HIDE DEF q
<1>6. /\ kept \in Seq(Images) /\ Len(kept) <= MaxPending
      /\ Elements(kept) \subseteq Elements(q)
      /\ \A j, k \in DOMAIN kept : kept[j] = kept[k] => j = k
      /\ kept # q => Len(q) > MaxPending
  <2>1. CASE Len(q) <= MaxPending
    BY <1>4, <1>5, <2>1 DEF Shortened
  <2>2. CASE Len(q) > MaxPending
    <3> DEFINE d == Len(q) - MaxPending
    <3>1. d \in Nat /\ Len(q) = d + MaxPending /\ MaxPending \in Nat
      BY <1>4, <2>2
    <3>2. kept = SubSeq(q, d + 1, Len(q))
      BY <2>2 DEF Shortened
    <3> HIDE DEF kept, d
    <3>9. d \in 0..Len(q) /\ Len(q) - d = MaxPending
      BY <3>1
    <3>3. kept \in Seq(Images) /\ Len(kept) = MaxPending
          /\ \A k \in 1..MaxPending : kept[k] = q[k + d]
      <4>1. q \in Seq(Images)
        BY <1>4
      <4>2. QED
        BY ONLY <3>2, <3>9, <4>1, SuffixFacts
    <3>4. \A k \in 1..MaxPending : k + d \in DOMAIN q /\ kept[k] = q[k + d]
      BY <1>4, <3>1, <3>3
    <3>5. DOMAIN kept = 1..MaxPending
      BY <3>3
    <3>6. Elements(kept) \subseteq Elements(q)
      BY <3>4, <3>5 DEF Elements
    <3>7. \A j, k \in DOMAIN kept : kept[j] = kept[k] => j = k
      BY <1>5, <3>1, <3>4, <3>5
    <3>8. QED
      BY <2>2, <3>1, <3>3, <3>6, <3>7
  <2>3. QED
    BY <1>4, <2>1, <2>2
<1> HIDE DEF kept
<1>7. n \in 0..Len(kept)
  BY <1>6 DEF Smaller
<1>8. /\ pending' = SubSeq(kept, n + 1, Len(kept))
      /\ suspicious' = bad
      /\ counts' = [i \in Images |-> IF i \in bad THEN Counted(s, i) ELSE 0]
      /\ beacons' = beacons \cup {i \in bad : counts'[i] >= BeaconRows}
      /\ analysed' = analysed \cup taken
      /\ displaced' = displaced \cup (Elements(q) \ Elements(kept))
      /\ streak' = [i \in Images |->
           IF i \in bad /\ Rows(s, i) # {} THEN Smaller(streak[i] + 1, MaxCount) ELSE 0]
      /\ known' = known \cup Identities(s)
      /\ first' = (IF baselined THEN first ELSE Identities(s))
      /\ baselined' = TRUE
      /\ shared' = [view |-> s, new |-> NewIn(s)]
  BY DEF Cycle, q, kept
<1> HIDE DEF n
<1>9. /\ pending' \in Seq(Images) /\ Len(pending') = Len(kept) - n
      /\ \A k \in 1..(Len(kept) - n) : k + n \in DOMAIN kept /\ pending'[k] = kept[k + n]
  <2>1. /\ pending' \in Seq(Images) /\ Len(pending') = Len(kept) - n
        /\ \A k \in 1..(Len(kept) - n) : pending'[k] = kept[k + n]
    <3>1. pending' = SubSeq(kept, n + 1, Len(kept))
      BY <1>8
    <3>2. kept \in Seq(Images)
      BY <1>6
    <3>3. QED
      BY ONLY <1>7, <3>1, <3>2, SuffixFacts
  <2>2. \A k \in 1..(Len(kept) - n) : k + n \in DOMAIN kept
    BY <1>6, <1>7
  <2>3. QED
    BY <2>1, <2>2
<1>10. taken \cup Elements(pending') = Elements(kept)
  <2>1. pending' = SubSeq(kept, n + 1, Len(kept))
    BY <1>8
  <2>2. kept \in Seq(Images)
    BY <1>6
  <2>3. QED
    BY ONLY <1>7, <2>1, <2>2, SplitElements
<1> HIDE DEF taken
<1>11. QueueInv'
  <2>1. DOMAIN pending' = 1..(Len(kept) - n) /\ Len(kept) \in Nat /\ n \in Nat
    BY <1>6, <1>7, <1>9
  <2>2. \A j, k \in DOMAIN pending' : pending'[j] = pending'[k] => j = k
    <3> SUFFICES ASSUME NEW j \in DOMAIN pending', NEW k \in DOMAIN pending',
                        pending'[j] = pending'[k]
                 PROVE  j = k
      OBVIOUS
    <3>1. /\ j + n \in DOMAIN kept /\ pending'[j] = kept[j + n]
          /\ k + n \in DOMAIN kept /\ pending'[k] = kept[k + n]
      BY <1>9, <2>1
    <3>2. j + n = k + n
      BY <1>6, <3>1
    <3>3. QED
      BY <2>1, <3>2
  <2>3. QED
    BY <1>8, <2>2 DEF QueueInv
<1>12. first' \subseteq known' /\ known' \ first' = (known \ first) \cup NewIn(s)
  BY <1>8 DEF LoopInv, LoopTypeOK, QueueInv, NewIn
<1>13. known' \ first' = Elements(pending') \cup analysed' \cup displaced'
  BY <1>4, <1>6, <1>8, <1>10, <1>12 DEF LoopInv, NewIsAccounted
<1>14. NewIsAccounted'
  <2>1. known' \ first' \in SUBSET Images /\ IsFiniteSet(known' \ first')
    BY <1>1, <1>2, <1>12, FS_Subset
  <2>2. ASSUME displaced' # {} PROVE Cardinality(known' \ first') > MaxPending
    <3>1. CASE displaced # {}
      <4>1. known \ first \in SUBSET (known' \ first')
        BY <1>12
      <4>2. Cardinality(known \ first) <= Cardinality(known' \ first')
            /\ Cardinality(known' \ first') \in Nat /\ Cardinality(known \ first) \in Nat
        BY <2>1, <4>1, FS_Subset, FS_CardinalityType
      <4>3. QED
        BY <3>1, <4>2 DEF LoopInv, NewIsAccounted
    <3>2. CASE displaced = {}
      <4>1. Len(q) > MaxPending
        BY <1>6, <1>8, <2>2, <3>2
      <4>2. Cardinality(Elements(q)) = Len(q)
        BY <1>4, <1>5, ElementsCardinality
      <4>3. Elements(q) \in SUBSET (known' \ first')
        BY <1>4, <1>12 DEF LoopInv, NewIsAccounted
      <4>4. Cardinality(Elements(q)) <= Cardinality(known' \ first')
            /\ Cardinality(known' \ first') \in Nat
        BY <2>1, <4>3, FS_Subset, FS_CardinalityType
      <4>5. QED
        BY <1>4, <4>1, <4>2, <4>4
    <3>3. QED
      BY <3>1, <3>2
  <2>3. QED
    BY <1>13, <2>2 DEF NewIsAccounted
<1>15. ASSUME NEW i \in Images
       PROVE  /\ Counted(s, i) \in 0..MaxCount /\ (Rows(s, i) = {} => Counted(s, i) = 0)
              /\ Rows(s, i) # {} => Counted(s, i) >= Smaller(streak[i] + 1, MaxCount)
              /\ Smaller(streak[i] + 1, MaxCount) \in 0..MaxCount
  <2>1. counts[i] \in 0..MaxCount /\ streak[i] \in 0..MaxCount /\ streak[i] <= counts[i]
    BY DEF LoopInv, LoopTypeOK, CountInv
  <2>2. QED
    BY <2>1, RowsFinite DEF Counted, Smaller
<1>16. CountInv'
  <2> SUFFICES ASSUME NEW i \in Images
               PROVE  streak'[i] <= counts'[i] /\ (counts'[i] >= BeaconRows => i \in beacons')
    BY DEF CountInv
  <2>1. CASE i \in bad
    BY <1>8, <1>15, <2>1
  <2>2. CASE i \notin bad
    BY <1>8, <2>2
  <2>3. QED
    BY <2>1, <2>2
<1>17. LoopTypeOK'
  <2>1. counts' \in [Images -> 0..MaxCount] /\ streak' \in [Images -> 0..MaxCount]
    BY <1>8, <1>15
  <2>2. pending' \in Seq(Images) /\ Len(pending') <= MaxPending
    BY <1>6, <1>7, <1>9
  <2>3. shared' \in Published
    BY <1>2, <1>8 DEF Published
  <2>4. suspicious' \subseteq analysed' /\ beacons' \subseteq suspicious'
    BY <1>8 DEF LoopInv, LoopTypeOK
  <2>5. first' \subseteq known' /\ analysed' \subseteq known' /\ displaced' \subseteq known'
        /\ known' \subseteq Images
    BY <1>1, <1>2, <1>8, <1>12, <1>13
  <2>6. QED
    BY <1>8, <2>1, <2>2, <2>3, <2>4, <2>5 DEF LoopTypeOK
<1>18. QED
  BY <1>11, <1>14, <1>16, <1>17 DEF LoopInv

-----------------------------------------------------------------------------
(***************************************************************************)
(* The requests                                                            *)
(***************************************************************************)

\* record_snapshot_transitions keeps the timeline in step with the snapshots.
LEMMA TransitionsStep ==
  ASSUME TypeOK, TimelineReplays, NEW s \in Views, NEW missed, RecordTransitions(s, missed)
  PROVE  /\ active' = s /\ Cardinality(missed) \in Nat
         /\ tproc' \in [Pids -> Images \cup {None}] /\ tflow' \subseteq Pids \X Ports
         /\ unwritten' \subseteq Pids \cup (Pids \X Ports)
         /\ TimelineReplays'
<1>1. s.procs \in [Pids -> Images \cup {None}] /\ s.flows \subseteq Pids \X Ports
  BY DEF Snapshot
<1>2. active # None => active \in Views /\ active.procs \in [Pids -> Images \cup {None}]
                       /\ active.flows \subseteq Pids \X Ports
  BY DEF TypeOK, Snapshot
<1>3. ChangedSince(s) \subseteq Pids \cup (Pids \X Ports)
  BY <1>1, <1>2 DEF ChangedSince, StartedSince, StoppedSince, FlowsSince
<1>4. missed \subseteq ChangedSince(s) /\ active' = s
  BY DEF RecordTransitions
<1>5. Cardinality(missed) \in Nat
  <2>1. IsFiniteSet(Pids \cup (Pids \X Ports))
    BY FS_Product, FS_Union
  <2>2. QED
    BY <1>3, <1>4, <2>1, FS_Subset, FS_CardinalityType
<1>6. CASE active = None
  <2>1. tproc' = s.procs /\ tflow' = s.flows /\ unwritten' = {}
    BY <1>6 DEF RecordTransitions
  <2>2. QED
    BY <1>1, <1>4, <1>5, <2>1 DEF TimelineReplays
<1>7. CASE active # None
  <2> DEFINE P == StartedSince(s) \cup StoppedSince(s)
  <2>1. ChangedSince(s) = P \cup FlowsSince(s)
    BY <1>7 DEF ChangedSince
  <2>2. /\ tproc' = [p \in Pids |-> IF p \in P \ missed THEN s.procs[p] ELSE tproc[p]]
        /\ tflow' = (tflow \cup ((s.flows \ active.flows) \ missed))
                      \ ((active.flows \ s.flows) \ missed)
        /\ unwritten' = (unwritten \ ChangedSince(s)) \cup missed
    BY <1>7 DEF RecordTransitions
  <2>3. \A p \in Pids \ P : s.procs[p] = active.procs[p]
    BY <1>1, <1>2, <1>7 DEF StartedSince, StoppedSince
  <2>4. P \subseteq Pids /\ FlowsSince(s) \subseteq Pids \X Ports
    BY <1>1, <1>2, <1>7 DEF StartedSince, StoppedSince, FlowsSince
  <2> HIDE DEF P
  <2>5. ASSUME NEW p \in Pids \ unwritten' PROVE tproc'[p] = s.procs[p]
    <3>1. CASE p \in P
      BY <2>1, <2>2, <2>5, <3>1
    <3>2. CASE p \notin P
      <4>1. p \notin ChangedSince(s)
        BY <2>1, <2>4, <3>2
      <4>2. p \notin unwritten
        BY <2>2, <2>5, <4>1
      <4>3. tproc[p] = active.procs[p]
        BY <1>7, <4>2 DEF TimelineReplays
      <4>4. QED
        BY <2>2, <2>3, <3>2, <4>3
    <3>3. QED
      BY <3>1, <3>2
  <2>6. ASSUME NEW f \in (Pids \X Ports) \ unwritten' PROVE f \in tflow' <=> f \in s.flows
    <3>1. CASE f \in FlowsSince(s)
      <4>1. f \notin missed
        BY <2>2
      <4>2. QED
        BY <2>2, <3>1, <4>1 DEF FlowsSince
    <3>2. CASE f \notin FlowsSince(s)
      <4>1. f \notin ChangedSince(s)
        BY <2>1, <2>4, <3>2
      <4>2. f \notin unwritten
        BY <2>2, <4>1
      <4>3. f \in tflow <=> f \in active.flows
        BY <1>7, <4>2 DEF TimelineReplays
      <4>4. QED
        BY <2>2, <3>2, <4>3 DEF FlowsSince
    <3>3. QED
      BY <3>1, <3>2
  <2>7. tproc' \in [Pids -> Images \cup {None}]
    BY <1>1, <2>2 DEF TypeOK
  <2>8. tflow' \subseteq Pids \X Ports /\ unwritten' \subseteq Pids \cup (Pids \X Ports)
    BY <1>1, <1>3, <1>4, <2>2 DEF TypeOK
  <2>9. TimelineReplays'
    BY <1>4, <2>5, <2>6 DEF TimelineReplays
  <2>10. QED
    BY <1>4, <1>5, <2>7, <2>8, <2>9
<1>8. QED
  BY <1>6, <1>7

\* After the alerts, every new identity was alerted on, or its alert was lost.
LEMMA AlertStep ==
  ASSUME TypeOK, NEW new \in SUBSET Images, NEW unsaved, Alert(new, unsaved)
  PROVE  /\ alerts \subseteq alerts' /\ lost \subseteq lost'
         /\ new \subseteq alerts' \cup lost' /\ reported' \subseteq alerts' \cup lost'
         /\ alerts' \subseteq Images /\ lost' \subseteq Images
  BY DEF TypeOK, Alert

\* What all ways to serve a request have in common.
LEMMA ServeStep ==
  ASSUME TypeOK, TimelineReplays, NEW s \in Sources, NEW missed, NEW failure \in BOOLEAN,
         Begin(s, missed), Fails(missed, failure),
         NEW new \in SUBSET Images, NEW unsaved, Alert(new, unsaved),
         memory' \in (SUBSET Images) \cup {None}, stored' \subseteq Images,
         initialized' \in BOOLEAN, initial' \subseteq stored'
  PROVE  TypeOK' /\ TimelineReplays'
<1>1. s.view \in Views
  BY DEF Sources, TypeOK, LoopTypeOK, Published
<1>2. RecordTransitions(s.view, missed) /\ requests' \in 0..MaxRequests
      /\ UNCHANGED <<loopVars, cycles, restarts>>
  BY DEF Begin, TypeOK
<1>3. /\ active' = s.view /\ Cardinality(missed) \in Nat
      /\ tproc' \in [Pids -> Images \cup {None}] /\ tflow' \subseteq Pids \X Ports
      /\ unwritten' \subseteq Pids \cup (Pids \X Ports)
      /\ TimelineReplays'
  BY <1>1, <1>2, TransitionsStep
<1>4. faults' \in 0..MaxFaults
  BY <1>3 DEF Fails, TypeOK
<1>5. LoopTypeOK'
  BY <1>2 DEF TypeOK, LoopTypeOK, loopVars
<1>6. /\ alerts' \subseteq Images /\ lost' \subseteq Images
      /\ reported' \subseteq alerts' \cup lost'
  BY AlertStep
<1>7. QED
  BY <1>1, <1>2, <1>3, <1>4, <1>5, <1>6 DEF TypeOK

IInv == TypeOK /\ LoopInv /\ NothingSavedSilently /\ TimelineReplays

LEMMA InitInv == Init => IInv
<1> SUFFICES ASSUME Init PROVE IInv
  OBVIOUS
<1>1. LoopInv
  BY LoopInitInv DEF Init
<1>2. TypeOK
  <2>1. active \in Views \cup {None} /\ memory \in (SUBSET Images) \cup {None}
    BY DEF Init
  <2>2. tproc \in [Pids -> Images \cup {None}] /\ initialized \in BOOLEAN
    BY DEF Init
  <2>3. /\ cycles \in 0..MaxCycles /\ requests \in 0..MaxRequests
        /\ faults \in 0..MaxFaults /\ restarts \in 0..MaxRestarts
    BY DEF Init
  <2>4. /\ stored \subseteq Images /\ reported \subseteq alerts \cup lost
        /\ tflow \subseteq Pids \X Ports /\ unwritten \subseteq Pids \cup (Pids \X Ports)
        /\ alerts \subseteq Images /\ lost \subseteq Images /\ initial \subseteq stored
    BY DEF Init
  <2>5. QED
    BY <1>1, <2>1, <2>2, <2>3, <2>4 DEF TypeOK, LoopInv
<1>3. NothingSavedSilently /\ TimelineReplays
  BY DEF Init, NothingSavedSilently, TimelineReplays
<1>4. QED
  BY <1>1, <1>2, <1>3 DEF IInv

\* Every way a request can go.
LEMMA RequestStep == IInv /\ Serve => IInv'
<1> SUFFICES ASSUME IInv, Serve PROVE IInv'
  OBVIOUS
<1> USE DEF IInv
<1>1. PICK s \in Sources : \E missed \in SUBSET ChangedSince(s.view) :
        \/ ServeUnmarked(s, missed)
        \/ \E unsaved \in BOOLEAN :
             \/ \E everything, failure \in BOOLEAN :
                  ServeKnown(s, missed, everything, failure, unsaved)
             \/ ServeUnread(s, missed, unsaved)
             \/ ServeUnwritten(s, missed, unsaved)
             \/ ServeFirst(s, missed, unsaved)
  BY DEF Serve
<1>2. PICK missed \in SUBSET ChangedSince(s.view) :
        \/ ServeUnmarked(s, missed)
        \/ \E unsaved \in BOOLEAN :
             \/ \E everything, failure \in BOOLEAN :
                  ServeKnown(s, missed, everything, failure, unsaved)
             \/ ServeUnread(s, missed, unsaved)
             \/ ServeUnwritten(s, missed, unsaved)
             \/ ServeFirst(s, missed, unsaved)
  BY <1>1
<1> DEFINE ids == Identities(s.view)
<1>3. ids \subseteq Images /\ s.new \subseteq Images
  BY DEF Identities, Sources, TypeOK, LoopTypeOK, Published, Snapshot
<1>4. stored \subseteq Images /\ initial \subseteq stored /\ initialized \in BOOLEAN
      /\ memory \in (SUBSET Images) \cup {None}
  BY DEF TypeOK
<1> HIDE DEF ids
<1>5. LoopInv'
  <2>1. UNCHANGED loopVars
    BY <1>2 DEF ServeUnmarked, ServeKnown, ServeUnread, ServeUnwritten, ServeFirst, Begin
  <2>2. QED
    BY <2>1 DEF loopVars, LoopInv, LoopTypeOK, QueueInv, CountInv, NewIsAccounted
<1>6. ASSUME ServeUnmarked(s, missed) PROVE TypeOK' /\ NothingSavedSilently' /\ TimelineReplays'
  <2>1. /\ Begin(s, missed) /\ Fails(missed, TRUE) /\ Alert({}, FALSE)
        /\ stored' = stored \cup ids /\ initial' = initial \cup ids
        /\ memory = None /\ UNCHANGED <<memory, initialized>>
    BY <1>6 DEF ServeUnmarked, Saved, ids
  <2>2. TypeOK' /\ TimelineReplays'
    BY <1>3, <1>4, <2>1, ServeStep
  <2>3. alerts \subseteq alerts' /\ lost \subseteq lost'
    BY <2>1, AlertStep
  <2>4. QED
    BY <2>1, <2>2, <2>3 DEF NothingSavedSilently
<1>7. ASSUME NEW unsaved \in BOOLEAN, NEW everything \in BOOLEAN, NEW failure \in BOOLEAN,
             ServeKnown(s, missed, everything, failure, unsaved)
      PROVE  TypeOK' /\ NothingSavedSilently' /\ TimelineReplays'
  <2> DEFINE fresh == ids \ memory
  <2>1. /\ Begin(s, missed) /\ Fails(missed, failure \/ unsaved) /\ Alert(fresh, unsaved)
        /\ memory # None /\ memory' = memory \cup ids
        /\ stored \subseteq stored' /\ stored' \subseteq stored \cup ids
        /\ UNCHANGED <<initialized, initial>>
    BY <1>7 DEF ServeKnown, ids
  <2>2. memory \subseteq Images /\ fresh \subseteq Images /\ (failure \/ unsaved) \in BOOLEAN
    BY <1>3, <1>4, <2>1
  <2>3. TypeOK' /\ TimelineReplays'
    BY <1>3, <1>4, <2>1, <2>2, ServeStep
  <2>4. alerts \subseteq alerts' /\ lost \subseteq lost' /\ fresh \subseteq alerts' \cup lost'
    BY <2>1, <2>2, AlertStep
  <2>5. QED
    BY <2>1, <2>3, <2>4 DEF NothingSavedSilently
<1>8. ASSUME NEW unsaved \in BOOLEAN,
             ServeUnread(s, missed, unsaved) \/ ServeUnwritten(s, missed, unsaved)
      PROVE  TypeOK' /\ NothingSavedSilently' /\ TimelineReplays'
  <2>1. PICK new \in SUBSET Images :
          /\ Begin(s, missed) /\ Fails(missed, TRUE) /\ Alert(new, unsaved)
          /\ memory = None /\ UNCHANGED <<memory, stored, initialized, initial>>
    BY <1>3, <1>8 DEF ServeUnread, ServeUnwritten, NewToStore, ids
  <2>2. TypeOK' /\ TimelineReplays'
    BY <1>4, <2>1, ServeStep
  <2>3. alerts \subseteq alerts' /\ lost \subseteq lost'
    BY <2>1, AlertStep
  <2>4. QED
    BY <2>1, <2>2, <2>3 DEF NothingSavedSilently
<1>9. ASSUME NEW unsaved \in BOOLEAN, ServeFirst(s, missed, unsaved)
      PROVE  TypeOK' /\ NothingSavedSilently' /\ TimelineReplays'
  <2> DEFINE new == NewToStore(ids)
  <2>1. /\ Begin(s, missed) /\ Fails(missed, unsaved) /\ Alert(new, unsaved)
        /\ stored' = stored \cup ids /\ memory' = ids /\ initialized' = TRUE
        /\ initial' = (IF initialized THEN initial ELSE initial \cup ids)
    BY <1>9 DEF ServeFirst, Saved, ids
  <2>2. new \subseteq Images /\ new = (IF initialized THEN ids \ stored ELSE {})
    BY <1>3 DEF NewToStore
  <2>3. TypeOK' /\ TimelineReplays'
    BY <1>3, <1>4, <2>1, <2>2, ServeStep
  <2>4. alerts \subseteq alerts' /\ lost \subseteq lost' /\ new \subseteq alerts' \cup lost'
    BY <2>1, <2>2, AlertStep
  <2>5. QED
    BY <1>4, <2>1, <2>2, <2>3, <2>4 DEF NothingSavedSilently
<1>10. QED
  BY <1>2, <1>5, <1>6, <1>7, <1>8, <1>9

LEMMA StepIInv == IInv /\ [Next]_vars => IInv'
<1> SUFFICES ASSUME IInv, [Next]_vars PROVE IInv'
  OBVIOUS
<1> USE DEF IInv
<1>1. CASE Protect
  <2>1. LoopInv'
    <3>1. PICK s \in Views : \E order \in Orders(NewIn(s)),
            convicted \in SUBSET (Elements(pending) \cup NewIn(s)) : Cycle(s, order, convicted)
      BY <1>1 DEF Protect
    <3>2. QED
      BY <3>1, CycleStep
  <2>2. cycles' \in 0..MaxCycles /\ UNCHANGED requestVars
    BY <1>1 DEF Protect, TypeOK
  <2>3. TypeOK'
    BY <2>1, <2>2 DEF TypeOK, LoopInv, requestVars
  <2>4. NothingSavedSilently' /\ TimelineReplays'
    BY <2>2 DEF requestVars, NothingSavedSilently, TimelineReplays
  <2>5. QED
    BY <2>1, <2>3, <2>4
<1>2. CASE Restart
  <2>1. LoopInit'
    BY <1>2 DEF Restart, LoopInit
  <2>2. LoopInit' => LoopInv'
    BY LoopInitInv, PTL
  <2>3. active' = None /\ memory' = None /\ reported' = {} /\ restarts' \in 0..MaxRestarts
        /\ UNCHANGED <<cycles, stored, initialized, tproc, tflow, unwritten, alerts, lost,
                       initial, requests, faults>>
    BY <1>2 DEF Restart, TypeOK
  <2>4. TypeOK'
    BY <2>1, <2>2, <2>3 DEF TypeOK, LoopInv
  <2>5. NothingSavedSilently' /\ TimelineReplays'
    BY <2>3 DEF NothingSavedSilently, TimelineReplays
  <2>6. QED
    BY <2>1, <2>2, <2>4, <2>5
<1>3. CASE UNCHANGED vars
  BY <1>3 DEF vars, loopVars, requestVars, TypeOK, LoopInv, LoopTypeOK, QueueInv, CountInv,
     NewIsAccounted, NothingSavedSilently, TimelineReplays
<1>4. QED
  BY <1>1, <1>2, <1>3, RequestStep DEF Next

LEMMA Invariance == Spec => []IInv
  BY InitInv, StepIInv, PTL DEF Spec

-----------------------------------------------------------------------------
\* The variables keep their types; the queue and the counts keep their bounds.
THEOREM TypeCorrect == Spec => []TypeOK
  BY Invariance, PTL DEF IInv

\* No executable the protection thread has flagged as new is forgotten, and
\* one is pushed out of the queue only by as many others as it holds.
THEOREM NothingSlipsThrough == Spec => []NewIsAccounted
  BY Invariance, PTL DEF IInv, LoopInv

\* A suspicious executable that was connected for enough cycles in a row is
\* reported, whatever its count had been before.
THEOREM BeaconsAreFound == Spec => []BeaconIsReported
<1>1. IInv => BeaconIsReported
  <2> SUFFICES ASSUME IInv, NEW i \in Images, streak[i] >= BeaconRows PROVE i \in beacons
    BY DEF BeaconIsReported
  <2>1. streak[i] \in 0..MaxCount /\ counts[i] \in 0..MaxCount /\ streak[i] <= counts[i]
        /\ (counts[i] >= BeaconRows => i \in beacons)
    BY DEF IInv, LoopInv, LoopTypeOK, CountInv
  <2>2. QED
    BY <2>1
<1>2. QED
  BY <1>1, Invariance, PTL

\* No identity enters the saved baseline after its initialization without an
\* alert, across failing writes and restarts.
THEOREM NoSilentBaseline == Spec => []NothingSavedSilently
  BY Invariance, PTL DEF IInv

\* The recorded transitions replay to the snapshot served last, but for the
\* processes and connections whose last change could not be written.
THEOREM TimelineCorrect == Spec => []TimelineReplays
  BY Invariance, PTL DEF IInv
=============================================================================
