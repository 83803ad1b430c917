-------------------------- MODULE ProcessRisk_proofs --------------------------
(***************************************************************************)
(* Proofs about FileScan and ProcessRisk, for every file, every process    *)
(* and every way the file may be rewritten while it is judged.             *)
(***************************************************************************)
EXTENDS ProcessRisk, TLAPS

USE ScanConstants, RiskConstants

-----------------------------------------------------------------------------
(***************************************************************************)
(* Points and reasons                                                      *)
(***************************************************************************)
LEMMA WorthIsNat ==
  ASSUME NEW S, NEW r, NEW n \in Nat
  PROVE  Worth(S, r, n) \in Nat /\ Worth(S, r, n) <= n
  BY DEF Worth

LEMMA PointsAreNat ==
  ASSUME NEW S
  PROVE  /\ CapabilityPoints(S) \in Nat /\ ScriptPoints(S) \in Nat
         /\ OddityPoints(S) \in Nat /\ PathPoints(S) \in Nat
         /\ RulePoints(S) \in Nat /\ SignalPoints(S) \in Nat
         /\ OtherPoints(S) \in Nat
<1>1. CapabilityPoints(S) \in Nat /\ ScriptPoints(S) \in Nat /\ OddityPoints(S) \in Nat
  BY WorthIsNat DEF CapabilityPoints, ScriptPoints, OddityPoints
<1>2. PathPoints(S) \in Nat /\ RulePoints(S) \in Nat /\ SignalPoints(S) \in Nat
  BY WorthIsNat DEF PathPoints, RulePoints, SignalPoints
<1>3. QED
  BY <1>1, <1>2 DEF OtherPoints

\* More reasons are worth no less.
LEMMA PointsMonotone ==
  ASSUME NEW S, NEW T, S \subseteq T
  PROVE  /\ CapabilityPoints(S) <= CapabilityPoints(T)
         /\ ScriptPoints(S) <= ScriptPoints(T)
         /\ OddityPoints(S) <= OddityPoints(T)
<1>1. CapabilityPoints(S) <= CapabilityPoints(T)
  BY DEF CapabilityPoints, Worth
<1>2. ScriptPoints(S) <= ScriptPoints(T)
  BY DEF ScriptPoints, Worth
<1>3. OddityPoints(S) <= OddityPoints(T)
  BY DEF OddityPoints, Worth
<1>4. QED
  BY <1>1, <1>2, <1>3

\* What an explained score never exceeds: the capabilities among its reasons
\* count for 70 points at most.
Explained(S, score) == score <= Least(CapabilityPoints(S), 70) + OtherPoints(S)

LEMMA ExplainedIsWorth ==
  ASSUME NEW S, NEW score \in Nat, Explained(S, score)
  PROVE  score <= ReasonPoints(S) /\ score <= 70 + OtherPoints(S)
  BY PointsAreNat DEF Explained, Least, ReasonPoints

\* The reasons of the signature and of the provider, none of them given yet.
Late == {"untrusted", "unconfirmed", "detected", "blocked_by_admin"}

\* What the provider and the signature make of the reasons.
WithReasons(S, amsi, dropped, trust) == amsi \cup (S \ dropped) \cup trust

\* What happens to the worth of reasons when signals are added.
WorthAfter(S, T, amsi, dropped, trust) ==
  /\ CapabilityPoints(T) = CapabilityPoints(S)
  /\ OtherPoints(T) >= OtherPoints(S) - Worth(dropped, "unevaluated", 8)
       + Worth(trust, "untrusted", 30) + Worth(trust, "unconfirmed", 8)
       + Worth(amsi, "detected", 100) + Worth(amsi, "blocked_by_admin", 75)

LEMMA SignalsWorth ==
  ASSUME NEW S, S \cap Late = {}, NEW amsi \in SUBSET {"detected", "blocked_by_admin"},
         NEW trust \in SUBSET {"untrusted", "unconfirmed"}, NEW dropped \in SUBSET {"unevaluated"},
         NEW T, T = WithReasons(S, amsi, dropped, trust)
  PROVE  WorthAfter(S, T, amsi, dropped, trust)
<1>1. ASSUME NEW r, r \notin Late \cup {"unevaluated"} PROVE r \in T <=> r \in S
  BY <1>1 DEF WithReasons, Late
<1>2. CapabilityPoints(T) = CapabilityPoints(S)
  BY <1>1 DEF CapabilityPoints, Worth, Late
<1>3. ScriptPoints(T) = ScriptPoints(S) /\ OddityPoints(T) = OddityPoints(S)
  BY <1>1 DEF ScriptPoints, OddityPoints, Worth, Late
<1>4. PathPoints(T) = PathPoints(S) /\ RulePoints(T) = RulePoints(S)
  BY <1>1 DEF PathPoints, RulePoints, Worth, Late
<1>5. SignalPoints(T) >= SignalPoints(S) - Worth(dropped, "unevaluated", 8)
              + Worth(trust, "untrusted", 30) + Worth(trust, "unconfirmed", 8)
              + Worth(amsi, "detected", 100) + Worth(amsi, "blocked_by_admin", 75)
  BY DEF WithReasons, SignalPoints, Worth, Late
<1>6. OtherPoints(T) - OtherPoints(S) = SignalPoints(T) - SignalPoints(S)
  BY <1>3, <1>4, PointsAreNat DEF OtherPoints
<1>7. OtherPoints(T) >= OtherPoints(S) - Worth(dropped, "unevaluated", 8)
              + Worth(trust, "untrusted", 30) + Worth(trust, "unconfirmed", 8)
              + Worth(amsi, "detected", 100) + Worth(amsi, "blocked_by_admin", 75)
  <2> DEFINE gain == Worth(trust, "untrusted", 30) + Worth(trust, "unconfirmed", 8)
                     + Worth(amsi, "detected", 100) + Worth(amsi, "blocked_by_admin", 75)
             loss == Worth(dropped, "unevaluated", 8)
  <2>1. gain \in Nat /\ loss \in Nat
    BY WorthIsNat
  <2>2. SignalPoints(T) >= SignalPoints(S) - loss + gain
    BY <1>5, PointsAreNat, WorthIsNat
  <2> HIDE DEF gain, loss
  <2>3. OtherPoints(T) >= OtherPoints(S) - loss + gain
    BY <1>6, <2>1, <2>2, PointsAreNat
  <2>4. QED
    BY <2>3, PointsAreNat, WorthIsNat DEF gain, loss
<1>8. QED
  BY <1>2, <1>7 DEF WorthAfter

-----------------------------------------------------------------------------
(***************************************************************************)
(* The two halves of a scan                                                *)
(***************************************************************************)
Reasons ==
  CapabilityNames \cup ScriptSignals \cup Oddities \cup Late \cup
  {"temp", "downloads", "lure", "known", "eicar", "malicious", "high", "low", "unrated",
   "broken", "unevaluated", "nothing"}

Findings == [score : 0..100, verdict : Verdicts, reasons : SUBSET Reasons,
             capabilities : SUBSET CapabilityNames, signature : Signatures]

LEMMA VerdictType == ASSUME NEW n \in 0..100 PROVE Verdict(n) \in Verdicts
  BY DEF Verdict, Verdicts

\* What scan_file found, before "nothing" takes the place of no reason.
LEMMA StaticReasonsCover ==
  ASSUME NEW n \in Name, NEW c \in Content
  PROVE  LET R == StaticReasons(n, c)
         IN  /\ R \subseteq Reasons /\ R \cap Late = {}
             /\ (c.known => "known" \in R) /\ (c.eicar => "eicar" \in R) /\ c.rules \subseteq R
             /\ (LureScore(n) > 0 => "lure" \in R)
             /\ (n.ext = "executable" => "unevaluated" \in R)
             /\ (n.ext = "executable" /\ n.place # "elsewhere" => n.place \in R)
             /\ PeReasons(c) \subseteq R /\ CapabilitiesOf(n, c) \subseteq R
             /\ SignalsOf(n, c) \subseteq R
<1> DEFINE found == (IF c.known THEN {"known"} ELSE {}) \cup (IF c.eicar THEN {"eicar"} ELSE {})
               \cup c.rules \cup (IF LureScore(n) > 0 THEN {"lure"} ELSE {})
               \cup (IF n.ext = "executable" THEN {"unevaluated", n.place} ELSE {})
               \cup PeReasons(c) \cup CapabilitiesOf(n, c) \cup SignalsOf(n, c)
           R == StaticReasons(n, c)
<1>1. /\ c.known \in BOOLEAN /\ c.eicar \in BOOLEAN
      /\ c.rules \subseteq {"malicious", "high", "low", "unrated"}
      /\ n.place \in {"temp", "downloads", "elsewhere"}
  BY DEF Content, Name
<1>2. PeReasons(c) \subseteq Oddities \cup {"broken"}
  BY DEF Content, PeReasons
<1>3. CapabilitiesOf(n, c) \subseteq CapabilityNames
  BY DEF CapabilitiesOf, Capabilities
<1>4. SignalsOf(n, c) \subseteq ScriptSignals
  BY DEF Content, SignalsOf
<1>5. R = IF found \ {"elsewhere"} = {} THEN {"nothing"} ELSE found \ {"elsewhere"}
  BY DEF StaticReasons
<1>6. found \ {"elsewhere"} \subseteq R /\ R \subseteq (found \ {"elsewhere"}) \cup {"nothing"}
  <2> HIDE DEF found, R
  <2>1. QED
    BY <1>5
<1>7. found \ {"elsewhere"} \subseteq Reasons \ Late
  BY <1>1, <1>2, <1>3, <1>4 DEF Reasons, Late, CapabilityNames, ScriptSignals, Oddities
<1>8. R \subseteq Reasons /\ R \cap Late = {}
  <2> HIDE DEF found, R
  <2>1. QED
    BY <1>6, <1>7 DEF Reasons, Late
<1>9. /\ "elsewhere" \notin PeReasons(c) /\ "elsewhere" \notin CapabilitiesOf(n, c)
      /\ "elsewhere" \notin SignalsOf(n, c) /\ "elsewhere" \notin c.rules
  BY <1>1, <1>2, <1>3, <1>4 DEF Oddities, CapabilityNames, ScriptSignals
<1>10. /\ PeReasons(c) \subseteq R /\ CapabilitiesOf(n, c) \subseteq R
       /\ SignalsOf(n, c) \subseteq R /\ c.rules \subseteq R
  <2>1. /\ PeReasons(c) \subseteq found /\ CapabilitiesOf(n, c) \subseteq found
        /\ SignalsOf(n, c) \subseteq found /\ c.rules \subseteq found
    OBVIOUS
  <2> HIDE DEF found, R
  <2>2. QED
    BY <1>6, <1>9, <2>1
<1>11. /\ (c.known => "known" \in R) /\ (c.eicar => "eicar" \in R)
       /\ (LureScore(n) > 0 => "lure" \in R)
       /\ (n.ext = "executable" => "unevaluated" \in R)
       /\ (n.ext = "executable" /\ n.place # "elsewhere" => n.place \in R)
  <2>1. /\ (c.known => "known" \in found) /\ (c.eicar => "eicar" \in found)
        /\ (LureScore(n) > 0 => "lure" \in found)
        /\ (n.ext = "executable" => "unevaluated" \in found /\ n.place \in found)
    OBVIOUS
  <2> HIDE DEF found, R
  <2>2. QED
    BY <1>6, <2>1
<1>12. QED
  BY <1>8, <1>10, <1>11

\* scan_file's finding explains its score and calls malware malicious.
LEMMA StaticFindingHolds ==
  ASSUME NEW n \in Name, NEW c \in Content
  PROVE  LET f == StaticFinding(n, c)
         IN  /\ f \in Findings /\ f.verdict = Verdict(f.score)
             /\ Explained(f.reasons, f.score) /\ f.reasons \cap Late = {}
             /\ Detected(c) => f.score = 100
<1> DEFINE R == StaticReasons(n, c)
           caps == CapabilitiesOf(n, c)
           signals == SignalsOf(n, c)
           path == LureScore(n) + (IF n.ext = "executable" THEN 8 + PlacePoints[n.place] ELSE 0)
           score == StaticScore(n, c)
<1>1. /\ R \subseteq Reasons /\ R \cap Late = {}
      /\ (c.known => "known" \in R) /\ (c.eicar => "eicar" \in R) /\ c.rules \subseteq R
      /\ (LureScore(n) > 0 => "lure" \in R)
      /\ (n.ext = "executable" => "unevaluated" \in R)
      /\ (n.ext = "executable" /\ n.place # "elsewhere" => n.place \in R)
      /\ PeReasons(c) \subseteq R /\ caps \subseteq R /\ signals \subseteq R
  BY StaticReasonsCover
<1>2. /\ c.header \in {"none", "broken", "sound"}
      /\ n.place \in {"temp", "downloads", "elsewhere"}
      /\ c.known \in BOOLEAN /\ c.eicar \in BOOLEAN
  BY DEF Content, Name
<1>3. caps \subseteq CapabilityNames
  BY DEF CapabilitiesOf, Capabilities
<1> HIDE DEF R, caps, signals
<1>4. BaseScore(c) \in Nat /\ PeScore(c) \in Nat
      /\ BaseScore(c) + PeScore(c) <= RulePoints(R) + OddityPoints(R)
  <2>1. BaseScore(c) \in Nat /\ BaseScore(c) + Worth(R, "broken", 25) <= RulePoints(R)
    BY <1>1, <1>2 DEF BaseScore, Detected, RulePoints, Worth
  <2>2. PeScore(c) \in Nat /\ PeScore(c) <= Worth(R, "broken", 25) + OddityPoints(R)
    <3>1. CASE c.header = "broken"
      <4>1. "broken" \in R
        BY <1>1, <3>1 DEF PeReasons
      <4>2. QED
        BY <3>1, <4>1, PointsAreNat DEF PeScore, Worth
    <3>2. CASE c.header # "broken"
      <4>1. PeScore(c) = OddityPoints(PeReasons(c)) /\ PeReasons(c) \subseteq R
        BY <1>1, <3>2 DEF PeScore
      <4>2. QED
        BY <4>1, PointsAreNat, PointsMonotone, WorthIsNat
    <3>3. QED
      BY <3>1, <3>2
  <2>3. Worth(R, "broken", 25) \in Nat /\ RulePoints(R) \in Nat /\ OddityPoints(R) \in Nat
    BY PointsAreNat, WorthIsNat
  <2>4. QED
    BY <2>1, <2>2, <2>3
<1>5. path \in Nat /\ path <= PathPoints(R) + SignalPoints(R)
  <2>1. LureScore(n) \in Nat /\ LureScore(n) <= Worth(R, "lure", 25)
    BY <1>1 DEF LureScore, Worth
  <2>2. CASE n.ext = "executable"
    <3>1. 8 <= SignalPoints(R)
      BY <1>1, <2>2 DEF SignalPoints, Worth
    <3>2. PlacePoints[n.place] \in Nat
          /\ PlacePoints[n.place] <= Worth(R, "temp", 30) + Worth(R, "downloads", 18)
      BY <1>1, <1>2, <2>2 DEF PlacePoints, Worth
    <3>3. /\ PathPoints(R) = Worth(R, "temp", 30) + Worth(R, "downloads", 18) + Worth(R, "lure", 25)
          /\ Worth(R, "temp", 30) \in Nat /\ Worth(R, "downloads", 18) \in Nat
          /\ Worth(R, "lure", 25) \in Nat
      BY WorthIsNat DEF PathPoints
    <3>4. QED
      BY <2>1, <2>2, <3>1, <3>2, <3>3, PointsAreNat
  <2>3. CASE n.ext # "executable"
    <3>1. Worth(R, "lure", 25) <= PathPoints(R)
      BY DEF PathPoints, Worth
    <3>2. QED
      BY <2>1, <2>3, <3>1, PointsAreNat, WorthIsNat
  <2>4. QED
    BY <2>2, <2>3
<1>6. CapabilityScore(caps) \in Nat /\ CapabilityScore(caps) <= Least(CapabilityPoints(R), 70)
  BY <1>1, PointsAreNat, PointsMonotone DEF CapabilityScore, Least
<1>7. ScriptScore(signals) \in Nat /\ ScriptScore(signals) <= ScriptPoints(R)
  BY <1>1, PointsAreNat, PointsMonotone DEF ScriptScore, Least
<1>8. score = Least(100, BaseScore(c) + LureScore(n)
             + (IF n.ext = "executable" THEN 8 + PlacePoints[n.place] ELSE 0)
             + PeScore(c) + CapabilityScore(caps) + ScriptScore(signals))
  BY DEF StaticScore, caps, signals
<1>9. /\ LureScore(n) \in Nat
      /\ (IF n.ext = "executable" THEN 8 + PlacePoints[n.place] ELSE 0) \in Nat
  BY <1>2 DEF LureScore, PlacePoints
<1>10. score = Least(100, BaseScore(c) + path + PeScore(c) + CapabilityScore(caps)
                          + ScriptScore(signals))
  BY <1>4, <1>6, <1>7, <1>8, <1>9
<1> DEFINE sum == BaseScore(c) + path + PeScore(c) + CapabilityScore(caps) + ScriptScore(signals)
<1> HIDE DEF path, score
<1>11. score \in 0..100 /\ score <= sum
  <2>1. sum \in Nat
    BY <1>4, <1>5, <1>6, <1>7
  <2>2. score = Least(100, sum)
    BY <1>10
  <2> HIDE DEF sum
  <2>3. QED
    BY <2>1, <2>2 DEF Least
<1>12. Explained(R, score)
  <2>1. score <= BaseScore(c) + path + PeScore(c) + CapabilityScore(caps) + ScriptScore(signals)
    BY <1>11
  <2>2. Least(CapabilityPoints(R), 70) \in Nat
    BY PointsAreNat DEF Least
  <2>3. OtherPoints(R) = ScriptPoints(R) + OddityPoints(R) + PathPoints(R) + RulePoints(R)
                         + SignalPoints(R)
    BY DEF OtherPoints
  <2>4. score <= Least(CapabilityPoints(R), 70) + OtherPoints(R)
    BY <1>4, <1>5, <1>6, <1>7, <1>11, <2>1, <2>2, <2>3, PointsAreNat
  <2>5. QED
    BY <2>4 DEF Explained
<1>13. Detected(c) => score = 100
  <2>1. Detected(c) => BaseScore(c) = 100
    BY DEF BaseScore
  <2>2. QED
    BY <1>4, <1>5, <1>6, <1>7, <1>10, <2>1 DEF Least
<1>14. StaticFinding(n, c) =
         [score |-> score, verdict |-> Verdict(score), reasons |-> R, capabilities |-> caps,
          signature |-> IF n.ext = "executable" THEN "unknown" ELSE "not_applicable"]
  BY DEF StaticFinding, score, R, caps
<1>15. StaticFinding(n, c) \in Findings
  BY <1>1, <1>3, <1>11, <1>14, VerdictType DEF Findings, Signatures
<1>16. QED
  BY <1>1, <1>12, <1>13, <1>14, <1>15

\* apply_windows_scan_signals keeps every point explained, and takes a file
\* with all points below 92 whatever Windows says of it.
LEMMA WithSignalsHolds ==
  ASSUME NEW f \in Findings, NEW c \in Content \cup {Gone},
         Explained(f.reasons, f.score), f.reasons \cap Late = {}
  PROVE  LET g == WithSignals(f, c)
         IN  /\ g \in Findings /\ g.verdict = Verdict(g.score)
             /\ Explained(g.reasons, g.score)
             /\ f.score = 100 => g.score >= 92
<1> DEFINE S == f.reasons
           evaluated == f.signature = "unknown"
           signature == IF evaluated THEN SignatureOf(c) ELSE f.signature
           trusted == IF evaluated THEN TrustScore(f.score, signature) ELSE f.score
           score == Least(100, AmsiScore(trusted, c))
           amsi == AmsiReason(c)
           trust == IF evaluated THEN TrustReason(signature) ELSE {}
           dropped == IF evaluated THEN {"unevaluated"} ELSE {}
           T == WithReasons(S, amsi, dropped, trust)
<1>1. /\ f.score \in 0..100 /\ S \subseteq Reasons /\ f.signature \in Signatures
      /\ f.capabilities \subseteq CapabilityNames
  BY DEF Findings
<1>2. /\ c \in Content => c.trust \in Signatures
      /\ c \in Content => c.amsi \in {"detected", "blocked_by_admin", "clean"}
  BY DEF Content
<1>3. signature \in Signatures
  BY <1>1, <1>2 DEF SignatureOf, Signatures
<1>4. WithSignals(f, c) =
        [f EXCEPT !.score = score, !.verdict = Verdict(score), !.signature = signature,
                  !.reasons = T]
  <2>1. T = amsi \cup (IF evaluated THEN (S \ {"unevaluated"}) \cup TrustReason(signature) ELSE S)
    BY DEF WithReasons
  <2>2. QED
    BY <2>1 DEF WithSignals
<1>5. amsi \in SUBSET {"detected", "blocked_by_admin"} /\ dropped \in SUBSET {"unevaluated"}
      /\ trust \in SUBSET {"untrusted", "unconfirmed"}
  BY <1>2 DEF AmsiReason, TrustReason
<1>6. T \subseteq Reasons
  BY <1>1, <1>5 DEF WithReasons, Reasons, Late
<1>7. /\ CapabilityPoints(T) = CapabilityPoints(S)
      /\ OtherPoints(T) >= OtherPoints(S) - Worth(dropped, "unevaluated", 8)
           + Worth(trust, "untrusted", 30) + Worth(trust, "unconfirmed", 8)
           + Worth(amsi, "detected", 100) + Worth(amsi, "blocked_by_admin", 75)
  <2>1. T = WithReasons(S, amsi, dropped, trust)
    OBVIOUS
  <2> HIDE DEF dropped, amsi, trust, T, S
  <2>2. S \cap Late = {}
    BY DEF S
  <2>3. WorthAfter(S, T, amsi, dropped, trust)
    BY <1>5, <2>1, <2>2, SignalsWorth
  <2>4. QED
    BY <2>3 DEF WorthAfter
<1>8. /\ "detected" \in amsi => OtherPoints(T) >= 100
      /\ "blocked_by_admin" \in amsi => OtherPoints(T) >= 75
  <2>1. /\ "detected" \in T => SignalPoints(T) >= 100
        /\ "blocked_by_admin" \in T => SignalPoints(T) >= 75
    <3> HIDE DEF T
    <3>1. QED
      BY DEF SignalPoints, Worth
  <2>2. OtherPoints(T) >= SignalPoints(T)
    BY PointsAreNat DEF OtherPoints
  <2>3. amsi \subseteq T
    BY DEF WithReasons
  <2> HIDE DEF amsi, T
  <2>4. QED
    BY <2>1, <2>2, <2>3, PointsAreNat
<1>9. /\ trusted \in 0..100 /\ (f.score = 100 => trusted >= 92)
      /\ trusted <= Least(CapabilityPoints(T), 70) + OtherPoints(T)
  <2> DEFINE most == Least(CapabilityPoints(T), 70)
             other == OtherPoints(T)
             before == OtherPoints(S)
  <2>1. most \in Nat /\ other \in Nat /\ before \in Nat
    BY PointsAreNat DEF Least
  <2>2. f.score <= most + before
    BY <1>7 DEF Explained
  <2>3. other >= before - Worth(dropped, "unevaluated", 8)
                  + Worth(trust, "untrusted", 30) + Worth(trust, "unconfirmed", 8)
    <3>1. Worth(amsi, "detected", 100) \in Nat /\ Worth(amsi, "blocked_by_admin", 75) \in Nat
      BY WorthIsNat
    <3>2. Worth(trust, "untrusted", 30) \in Nat /\ Worth(trust, "unconfirmed", 8) \in Nat
      BY WorthIsNat
    <3>3. Worth(dropped, "unevaluated", 8) \in Nat
      BY WorthIsNat
    <3> HIDE DEF other, before, dropped, trust, amsi
    <3>4. QED
      BY <1>7, <2>1, <3>1, <3>2, <3>3 DEF other, before
  <2>4. CASE ~evaluated
    <3>1. trusted = f.score /\ trust = {} /\ dropped = {}
      BY <2>4
    <3>2. other >= before
      BY <2>1, <2>3, <3>1 DEF Worth
    <3> HIDE DEF trusted, most, other, before
    <3>3. trusted <= most + other
      BY <1>1, <2>1, <2>2, <3>1, <3>2
    <3>4. QED
      BY <1>1, <3>1, <3>3 DEF most, other
  <2>5. CASE evaluated
    <3>1. trusted = TrustScore(f.score, signature) /\ trust = TrustReason(signature)
      BY <2>5
    <3>2. other >= before - 8
            + Worth(trust, "untrusted", 30) + Worth(trust, "unconfirmed", 8)
      BY <2>3, <2>5 DEF Worth
    <3> HIDE DEF trusted, most, other, before, trust, signature
    <3>3. CASE signature = "trusted"
      <4>1. trusted = (IF f.score < 8 THEN 0 ELSE f.score - 8) /\ other >= before - 8
        BY <2>1, <3>1, <3>2, <3>3 DEF TrustScore, TrustReason, Worth
      <4>2. QED
        BY <1>1, <2>1, <2>2, <4>1 DEF most, other
    <3>4. CASE signature = "untrusted"
      <4>1. trusted = Least(100, f.score + 22) /\ other >= before + 22
        BY <2>1, <3>1, <3>2, <3>4 DEF TrustScore, TrustReason, Worth
      <4>2. trusted \in 0..100 /\ trusted <= f.score + 22 /\ (f.score = 100 => trusted = 100)
        BY <1>1, <4>1 DEF Least
      <4>3. QED
        BY <1>1, <2>1, <2>2, <4>1, <4>2 DEF most, other
    <3>5. CASE signature \notin {"trusted", "untrusted"}
      <4>1. trusted = f.score /\ other >= before
        BY <2>1, <3>1, <3>2, <3>5 DEF TrustScore, TrustReason, Worth
      <4>2. QED
        BY <1>1, <2>1, <2>2, <4>1 DEF most, other
    <3>6. QED
      BY <3>3, <3>4, <3>5
  <2>6. QED
    BY <2>4, <2>5
<1>10. /\ score \in 0..100 /\ (f.score = 100 => score >= 92)
       /\ score <= Least(CapabilityPoints(T), 70) + OtherPoints(T)
  <2>1. Least(CapabilityPoints(T), 70) \in Nat /\ OtherPoints(T) \in Nat
    BY PointsAreNat DEF Least
  <2>2. \/ score = trusted
        \/ score = 100 /\ "detected" \in amsi
        \/ score = Most(trusted, 75) /\ "blocked_by_admin" \in amsi
    <3> HIDE DEF trusted
    <3>1. QED
      BY <1>2, <1>9 DEF AmsiScore, AmsiReason, Least, Most
  <2> HIDE DEF trusted, score, amsi, T
  <2>3. QED
    BY <1>8, <1>9, <2>1, <2>2 DEF Most
<1> HIDE DEF score, signature, T
<1>11. WithSignals(f, c) \in Findings
  <2>1. WithSignals(f, c) =
          [score |-> score, verdict |-> Verdict(score), reasons |-> T,
           capabilities |-> f.capabilities, signature |-> signature]
    BY <1>4 DEF Findings
  <2>2. Verdict(score) \in Verdicts
    BY <1>10, VerdictType
  <2>3. QED
    BY <1>1, <1>3, <1>6, <1>10, <2>1, <2>2 DEF Findings
<1>12. /\ WithSignals(f, c).score = score /\ WithSignals(f, c).reasons = T
       /\ WithSignals(f, c).verdict = Verdict(score)
  BY <1>4 DEF Findings
<1>13. Explained(T, score)
  BY <1>10 DEF Explained
<1>14. QED
  BY <1>10, <1>11, <1>12, <1>13

-----------------------------------------------------------------------------
(***************************************************************************)
(* The invariant: besides the types, what a scan found explains its score  *)
(* at each of its steps, a malicious rule keeps the score near the top     *)
(* until it is reported, and what was reported stays so.                   *)
(***************************************************************************)
RiskTypes ==
  /\ process \in Process /\ name \in Name /\ file \in Content \cup {Gone}
  /\ read \in Content \cup {Gone}
  /\ pc \in {"scan", "signals", "scanned", "skipped", "unqueued"} /\ writes \in 0..MaxWrites
  /\ finding \in Findings /\ finding.verdict = Verdict(finding.score)

ScoreTypes ==
  /\ risk.score \in 0..100 /\ convicted \in BOOLEAN
  /\ event # Unset => event.score \in 0..100
  /\ served # Unset => served.score \in 0..100

ScanExplained ==
  /\ pc \in {"signals", "scanned"} => Explained(finding.reasons, finding.score)
  /\ pc = "signals" =>
       /\ finding.reasons \cap Late = {}
       /\ Detected(read) => finding.score = 100
  /\ pc = "scanned" /\ Detected(read) => finding.score >= 92

Reported ==
  event # Unset =>
    /\ pc \in {"scanned", "skipped"}
    /\ MalwareIsReported

RiskInv == RiskTypes /\ ScoreTypes /\ ScanExplained /\ Reported

-----------------------------------------------------------------------------
(***************************************************************************)
(* Initially, and after every step                                         *)
(***************************************************************************)
LEMMA LeastIsScore == ASSUME NEW n \in Nat PROVE Least(100, n) \in 0..100
  BY DEF Least

LEMMA AssessmentType ==
  ASSUME NEW p \in Process
  PROVE  AssessProcess(p).score \in 0..100
<1>1. CASE ~p.accessible
  BY <1>1, LeastIsScore DEF AssessProcess, Risk
<1>2. CASE p.accessible
  <2> DEFINE a == AssessmentPoints(p)
             sum == a.root + a.signature + a.dualUse + a.launched + a.renamed + a.outside
  <2>1. p.root \in {"temp", "downloads", "profile", "trusted", "elsewhere"}
    BY DEF Process
  <2>2. a.root \in Nat
    BY <2>1 DEF AssessmentPoints, RootPoints
  <2>3. /\ a.signature \in Nat /\ a.dualUse \in Nat /\ a.launched \in Nat
        /\ a.renamed \in Nat /\ a.outside \in Nat
    BY DEF AssessmentPoints
  <2>4. sum \in Nat
    <3> HIDE DEF a
    <3>1. QED
      BY <2>2, <2>3
  <2>5. AssessProcess(p).score = Least(100, sum)
    BY <1>2 DEF AssessProcess, Risk
  <2>6. QED
    BY <2>4, <2>5, LeastIsScore
<1>3. QED
  BY <1>1, <1>2

LEMMA CorrelationType ==
  ASSUME NEW r, r.score \in 0..100, NEW p, NEW isNew \in BOOLEAN
  PROVE  Correlate(r, p, isNew).score \in 0..100
<1> DEFINE b == BehaviorPoints(p, isNew)
           sum == r.score + b.b_destination + b.b_new + b.b_untrusted + b.b_parent
<1>1. /\ b.b_destination \in Nat /\ b.b_new \in Nat /\ b.b_untrusted \in Nat
      /\ b.b_parent \in Nat
  BY DEF BehaviorPoints
<1>2. sum \in Nat
  <2> HIDE DEF b
  <2>1. QED
    BY <1>1
<1>3. Correlate(r, p, isNew).score = Least(100, sum)
  BY DEF Correlate, Risk
<1>4. QED
  BY <1>2, <1>3, LeastIsScore

\* What the flows and the memory add only raises the score.
LEMMA FinalScoreType ==
  ASSUME NEW f, f.score \in 0..100, risk.score \in 0..100, NEW signature
  PROVE  FinalScore(f, signature) \in 0..100 /\ FinalScore(f, signature) >= f.score
<1> DEFINE x == RuntimePoints(process, f.capabilities, signature)
           extra == x.destination + x.memory + x.theft + x.keys + x.control
           most == Most(risk.score, f.score)
<1>1. /\ x.destination \in Nat /\ x.memory \in Nat /\ x.theft \in Nat
      /\ x.keys \in Nat /\ x.control \in Nat
  BY DEF RuntimePoints
<1>2. most \in 0..100 /\ most >= f.score
  BY DEF Most
<1>3. FinalScore(f, signature) = Least(100, most + x.destination + x.memory + x.theft
                                              + x.keys + x.control)
  BY DEF FinalScore
<1> HIDE DEF x, most
<1>4. most + x.destination + x.memory + x.theft + x.keys + x.control = most + extra
      /\ extra \in Nat
  BY <1>1, <1>2
<1> HIDE DEF extra
<1>5. QED
  BY <1>2, <1>3, <1>4 DEF Least

LEMMA InitInv == Init => RiskInv
<1> SUFFICES ASSUME Init PROVE RiskInv
  OBVIOUS
<1>1. PICK case \in Cases : \E isNew \in IF case.process.accessible THEN BOOLEAN ELSE {FALSE} :
        /\ process = case.process /\ name = case.name /\ file = case.file
        /\ risk = Correlate(AssessProcess(case.process), case.process, isNew)
        /\ pc = IF isNew THEN "scan" ELSE "unqueued"
        /\ read = Gone /\ finding = NoFinding /\ writes = 0
        /\ event = Unset /\ convicted = FALSE /\ served = Unset
  BY DEF Init
<1>2. PICK isNew \in IF case.process.accessible THEN BOOLEAN ELSE {FALSE} :
        /\ process = case.process /\ name = case.name /\ file = case.file
        /\ risk = Correlate(AssessProcess(case.process), case.process, isNew)
        /\ pc = IF isNew THEN "scan" ELSE "unqueued"
        /\ read = Gone /\ finding = NoFinding /\ writes = 0
        /\ event = Unset /\ convicted = FALSE /\ served = Unset
  BY <1>1
<1>3. isNew \in BOOLEAN
  OBVIOUS
<1>4. case.process \in Process /\ case.name \in Name /\ case.file \in Content \cup {Gone}
  OBVIOUS
<1>5. NoFinding \in Findings /\ NoFinding.verdict = Verdict(NoFinding.score)
  BY DEF NoFinding, Findings, Verdict, Verdicts, Signatures
<1>6. RiskTypes
  BY <1>2, <1>4, <1>5 DEF RiskTypes
<1>7. risk.score \in 0..100
  BY <1>2, <1>3, <1>4, AssessmentType, CorrelationType
<1>8. ScoreTypes
  BY <1>2, <1>7 DEF ScoreTypes
<1>9. ScanExplained /\ Reported
  BY <1>2 DEF ScanExplained, Reported
<1>10. QED
  BY <1>6, <1>8, <1>9 DEF RiskInv

LEMMA NextInv == RiskInv /\ [Next]_vars => RiskInv'
<1> SUFFICES ASSUME RiskInv, [Next]_vars PROVE RiskInv'
  OBVIOUS
<1> USE DEF RiskInv
<1>1. CASE Scan /\ UNCHANGED <<process, risk, event, convicted, served>>
  <2>1. file \in Content /\ name \in Name /\ event = Unset
    BY <1>1 DEF Scan, RiskTypes, Reported
  <2>2. LET f == StaticFinding(name, file)
        IN  /\ f \in Findings /\ f.verdict = Verdict(f.score)
            /\ Explained(f.reasons, f.score) /\ f.reasons \cap Late = {}
            /\ Detected(file) => f.score = 100
    BY <2>1, StaticFindingHolds
  <2>3. RiskTypes'
    BY <1>1, <2>2 DEF Scan, RiskTypes
  <2>4. ScoreTypes' /\ Reported'
    BY <1>1, <2>1 DEF Scan, ScoreTypes, Reported
  <2>5. ScanExplained'
    BY <1>1, <2>2 DEF Scan, ScanExplained
  <2>6. QED
    BY <2>3, <2>4, <2>5
<1>2. CASE ScanFails /\ UNCHANGED <<process, risk, event, convicted, served>>
  <2>1. event = Unset
    BY <1>2 DEF ScanFails, Reported
  <2>2. RiskTypes'
    BY <1>2 DEF ScanFails, RiskTypes
  <2>3. ScoreTypes' /\ ScanExplained' /\ Reported'
    BY <1>2, <2>1 DEF ScanFails, ScoreTypes, ScanExplained, Reported
  <2>4. QED
    BY <2>2, <2>3
<1>3. CASE AddSignals /\ UNCHANGED <<process, risk, event, convicted, served>>
  <2>1. /\ file \in Content \cup {Gone} /\ finding \in Findings /\ event = Unset
        /\ Explained(finding.reasons, finding.score) /\ finding.reasons \cap Late = {}
        /\ Detected(read) => finding.score = 100
    BY <1>3 DEF AddSignals, RiskTypes, ScanExplained, Reported
  <2>2. LET g == WithSignals(finding, file)
        IN  /\ g \in Findings /\ g.verdict = Verdict(g.score)
            /\ Explained(g.reasons, g.score)
            /\ finding.score = 100 => g.score >= 92
    BY <2>1, WithSignalsHolds
  <2>3. RiskTypes'
    BY <1>3, <2>2 DEF AddSignals, RiskTypes
  <2>4. ScoreTypes' /\ Reported'
    BY <1>3, <2>1 DEF AddSignals, ScoreTypes, Reported
  <2>5. ScanExplained'
    BY <1>3, <2>1, <2>2 DEF AddSignals, ScanExplained
  <2>6. QED
    BY <2>3, <2>4, <2>5
<1>4. CASE Rewrite /\ UNCHANGED <<process, risk, event, convicted, served>>
  <2>1. event = Unset
    BY <1>4 DEF Rewrite, Reported
  <2>2. RiskTypes'
    BY <1>4 DEF Rewrite, RiskTypes
  <2>3. ScoreTypes' /\ ScanExplained' /\ Reported'
    BY <1>4, <2>1 DEF Rewrite, ScoreTypes, ScanExplained, Reported
  <2>4. QED
    BY <2>2, <2>3
<1>5. CASE Analyze
  <2> DEFINE signature == IF pc = "scanned" THEN finding.signature ELSE process.signature
             score == FinalScore(finding, signature)
  <2>1. /\ event' = [type |-> EventType(process, finding), score |-> score]
        /\ convicted' = (score >= 45 \/ finding.capabilities # {})
        /\ pc \in {"scanned", "skipped"} /\ UNCHANGED <<scanVars, process, risk, served>>
    BY <1>5 DEF Analyze
  <2>2. finding.score \in 0..100 /\ finding.verdict = Verdict(finding.score)
    BY DEF RiskTypes, Findings
  <2>3. score \in 0..100 /\ score >= finding.score
    BY <2>2, FinalScoreType DEF ScoreTypes
  <2> HIDE DEF score, signature
  <2>4. RiskTypes' /\ ScanExplained'
    BY <2>1 DEF RiskTypes, ScanExplained, scanVars
  <2>5. ScoreTypes'
    BY <2>1, <2>3 DEF ScoreTypes
  <2>6. ASSUME pc = "scanned", Detected(read)
        PROVE  /\ EventType(process, finding) = "malware_detected"
               /\ Severity(score) \in {"high", "critical"} /\ score >= 45
    <3>1. finding.score >= 92
      BY <2>6 DEF ScanExplained
    <3>2. finding.verdict = "malicious"
      BY <2>2, <3>1 DEF Verdict
    <3>3. QED
      BY <2>2, <2>3, <3>1, <3>2 DEF EventType, Severity
  <2>7. Reported'
    BY <2>1, <2>6 DEF Reported, MalwareIsReported, scanVars
  <2>8. QED
    BY <2>4, <2>5, <2>7
<1>6. CASE \E isNew \in BOOLEAN : ServeRecord(isNew)
  <2>1. PICK isNew \in BOOLEAN : ServeRecord(isNew)
    BY <1>6
  <2>2. served' = Correlate(risk, process, isNew)
        /\ UNCHANGED <<scanVars, process, risk, event, convicted>>
    BY <2>1 DEF ServeRecord
  <2>3. served'.score \in 0..100
    BY <2>2, CorrelationType DEF ScoreTypes
  <2>4. RiskTypes' /\ ScanExplained' /\ Reported'
    BY <2>2 DEF RiskTypes, ScanExplained, Reported, MalwareIsReported, scanVars
  <2>5. ScoreTypes'
    BY <2>2, <2>3 DEF ScoreTypes
  <2>6. QED
    BY <2>4, <2>5
<1>7. CASE UNCHANGED vars
  BY <1>7 DEF vars, scanVars, RiskTypes, ScoreTypes, ScanExplained, Reported, MalwareIsReported
<1>8. QED
  BY <1>1, <1>2, <1>3, <1>4, <1>5, <1>6, <1>7 DEF Next, Judge, ScanStep

(* Every reachable state satisfies the invariant. *)
LEMMA Invariance == Spec => []RiskInv
  BY InitInv, NextInv, PTL DEF Spec

-----------------------------------------------------------------------------
(***************************************************************************)
(* Theorems                                                                *)
(***************************************************************************)
(* Scores never leave 0..100 (u8, saturating sums and .min(100)), and the  *)
(* verdict of a finding is always the one its score has (scan_verdict), in *)
(* every step of a scan and of the judgement of a process.                 *)
THEOREM TypeCorrect == Spec => []TypeOK
<1>1. RiskInv => TypeOK
  BY DEF RiskInv, RiskTypes, ScoreTypes, TypeOK, Findings
<1>2. QED
  BY <1>1, Invariance, PTL

(* The score of a finished scan never exceeds what the reasons it lists    *)
(* are worth (scan.rs, "explainable scoring"), for every content, path and *)
(* answer of Windows, and however the file is rewritten between the scan   *)
(* and the questions to Windows.                                           *)
THEOREM PointsHaveReasonsHolds == Spec => []PointsHaveReasons
<1>1. RiskInv => PointsHaveReasons
  <2> SUFFICES ASSUME RiskInv, pc = "scanned"
               PROVE  finding.score <= ReasonPoints(finding.reasons)
    BY DEF PointsHaveReasons
  <2>1. finding.score \in Nat /\ Explained(finding.reasons, finding.score)
    BY DEF RiskInv, RiskTypes, ScanExplained, Findings
  <2>2. QED
    BY <2>1, ExplainedIsWorth
<1>2. QED
  BY <1>1, Invariance, PTL

(* A program about which nothing but its capabilities is known is never    *)
(* called malicious, whichever capabilities it has (capabilities.rs caps   *)
(* them at 70; with a signature nobody confirms the score is 78 at most).  *)
THEOREM CapabilitiesAreNotMaliceHolds == Spec => []CapabilitiesAreNotMalice
<1>1. RiskInv => CapabilitiesAreNotMalice
  <2> DEFINE S == finding.reasons
  <2> SUFFICES ASSUME RiskInv, pc = "scanned", S \subseteq CapabilityNames \cup {"unconfirmed"}
               PROVE  finding.verdict # "malicious"
    BY DEF CapabilitiesAreNotMalice
  <2>1. /\ finding.score \in Nat /\ finding.verdict = Verdict(finding.score)
        /\ Explained(S, finding.score)
    BY DEF RiskInv, RiskTypes, ScanExplained, Findings
  <2>2. finding.score <= 70 + OtherPoints(S)
    BY <2>1, ExplainedIsWorth
  <2> HIDE DEF S
  <2>3. ASSUME NEW r, r \notin CapabilityNames \cup {"unconfirmed"} PROVE r \notin S
    BY <2>3
  <2>4. ScriptPoints(S) = 0 /\ OddityPoints(S) = 0
    BY <2>3 DEF ScriptPoints, OddityPoints, Worth, CapabilityNames
  <2>5. PathPoints(S) = 0 /\ RulePoints(S) = 0
    BY <2>3 DEF PathPoints, RulePoints, Worth, CapabilityNames
  <2>6. SignalPoints(S) <= 8
    BY <2>3 DEF SignalPoints, Worth, CapabilityNames
  <2>7. OtherPoints(S) <= 8
    BY <2>4, <2>5, <2>6, PointsAreNat DEF OtherPoints
  <2>8. finding.score < 85
    BY <2>1, <2>2, <2>7, PointsAreNat
  <2>9. QED
    BY <2>1, <2>8 DEF Verdict
<1>2. QED
  BY <1>1, Invariance, PTL

(* Content with a known hash, the test signature or a malicious rule is    *)
(* stored as malware with at least high severity, and its process is       *)
(* watched (analyze_new_process), whoever signed the file and whatever     *)
(* became of it after it was read.                                         *)
THEOREM MalwareIsReportedHolds == Spec => []MalwareIsReported
<1>1. RiskInv => MalwareIsReported
  BY DEF RiskInv, Reported, MalwareIsReported
<1>2. QED
  BY <1>1, Invariance, PTL
=============================================================================
