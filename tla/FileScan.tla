------------------------------ MODULE FileScan ------------------------------
(***************************************************************************)
(* The scan of one file: FileScanner::scan_file reads it and adds up the   *)
(* points of what it finds, then apply_windows_scan_signals asks Windows   *)
(* for the file's signature and the installed AMSI provider for its        *)
(* opinion.  Both open the path again, and the file may have been changed  *)
(* or removed in between.                                                  *)
(***************************************************************************)
EXTENDS Naturals

Signatures == {"trusted", "untrusted", "unknown", "not_applicable"}
Verdicts == {"clean", "low_risk", "suspicious", "malicious"}

\* The path: its extension, whether a document's extension precedes it, and
\* the directory it is in.
Name == [ext : {"executable", "script", "other"}, lure : BOOLEAN,
         place : {"temp", "downloads", "elsewhere"}]

Oddities == {"sections", "timestamp", "entropy", "small"}
Primitives == {"key", "key2", "grab", "grab2", "write", "allocate", "execute", "artifact",
               "decrypt", "database", "lsass", "dump", "input", "connect"}
ScriptSignals == {"encoded", "base64", "dynamic", "download", "inject", "mshta",
                  "regsvr32", "rundll32"}

\* What the scanner can tell about a content, and what Windows says of it.
\* header: of a content that starts with MZ; text: it begins like a script.
Content == [known : BOOLEAN, eicar : BOOLEAN,
            rules : SUBSET {"malicious", "high", "low", "unrated"},
            header : {"none", "broken", "sound"}, odd : SUBSET Oddities,
            text : BOOLEAN, signals : SUBSET ScriptSignals,
            primitives : SUBSET Primitives,
            trust : Signatures \ {"not_applicable"},
            amsi : {"detected", "blocked_by_admin", "clean"}, large : BOOLEAN]

CONSTANTS
  Gone,       \* no file
  Rewrites,   \* contents the file can get while it is scanned, or Gone
  MaxWrites   \* bound: how often that happens

ASSUME ScanConstants ==
  Gone \notin Content /\ Rewrites \subseteq Content \cup {Gone} /\ MaxWrites \in Nat

VARIABLES
  name, file,   \* the path's properties and the present content
  pc,           \* "scan", "signals", "scanned", "skipped"; "unqueued": never scanned
  read,         \* history: the content scan_file read
  finding, writes

scanVars == <<name, file, pc, read, finding, writes>>

-----------------------------------------------------------------------------
Least(m, n) == IF m < n THEN m ELSE n
Most(m, n) == IF m > n THEN m ELSE n
\* What a reason adds when it is one of the given ones.
Worth(S, reason, points) == IF reason \in S THEN points ELSE 0

\* verdict and scan_verdict.
Verdict(score) == IF score >= 85 THEN "malicious" ELSE IF score >= 45 THEN "suspicious"
                  ELSE IF score >= 15 THEN "low_risk" ELSE "clean"

CapabilityNames == {"keyboard", "screen", "injection", "browser", "dumping", "remote"}

\* assess: the combinations of primitives that make a capability.
Capabilities(ps) ==
  {cap \in CapabilityNames :
     CASE cap = "keyboard"  -> {"key", "key2"} \subseteq ps
       [] cap = "screen"    -> {"grab", "grab2"} \subseteq ps
       [] cap = "injection" -> {"write", "allocate", "execute"} \subseteq ps
       [] cap = "browser"   -> {"artifact", "decrypt", "database"} \subseteq ps
       [] cap = "dumping"   -> {"lsass", "dump"} \subseteq ps
       [] cap = "remote"    -> /\ {"grab", "grab2", "connect"} \subseteq ps
                               /\ {"key", "key2", "input"} \cap ps # {}}

CapabilityPoints(S) ==
  Worth(S, "keyboard", 12) + Worth(S, "screen", 10) + Worth(S, "injection", 48)
  + Worth(S, "browser", 34) + Worth(S, "dumping", 45) + Worth(S, "remote", 24)

\* Variant with a bug: every capability counts, however many there are.
CapabilityScoreUncapped(caps) == CapabilityPoints(caps)

CapabilityScore(caps) == Least(CapabilityPoints(caps), 70)

ScriptPoints(S) ==
  Worth(S, "encoded", 28) + Worth(S, "base64", 18) + Worth(S, "dynamic", 20)
  + Worth(S, "download", 28) + Worth(S, "inject", 35) + Worth(S, "mshta", 16)
  + Worth(S, "regsvr32", 18) + Worth(S, "rundll32", 22)

\* inspect_script.
ScriptScore(signals) == Least(ScriptPoints(signals), 80)

OddityPoints(S) ==
  Worth(S, "sections", 20) + Worth(S, "timestamp", 5) + Worth(S, "entropy", 18)
  + Worth(S, "small", 10)

\* inspect_pe: a header that cannot be read says everything there is to say.
PeReasons(c) == CASE c.header = "none"   -> {}
                  [] c.header = "broken" -> {"broken"}
                  [] c.header = "sound"  -> c.odd
PeScore(c) == IF c.header = "broken" THEN 25 ELSE OddityPoints(PeReasons(c))

\* location_risk.
PlacePoints == [temp |-> 30, downloads |-> 18, elsewhere |-> 0]

\* The hash, the test signature and the rules, whose order does not matter:
\* a malicious one sets the score, the others only raise it.
Detected(c) == c.known \/ c.eicar \/ "malicious" \in c.rules
BaseScore(c) == IF Detected(c) THEN 100
                ELSE IF "high" \in c.rules THEN 65 ELSE IF "low" \in c.rules THEN 25 ELSE 0

IsScript(n, c) == n.ext = "script" \/ c.text
CapabilitiesOf(n, c) ==
  IF c.header # "none" \/ IsScript(n, c) THEN Capabilities(c.primitives) ELSE {}
SignalsOf(n, c) == IF IsScript(n, c) THEN c.signals ELSE {}
LureScore(n) == IF n.lure /\ n.ext = "executable" THEN 25 ELSE 0

\* Variant with a bug: the sum is not capped.
StaticScoreUncapped(n, c) ==
  BaseScore(c) + LureScore(n)
  + (IF n.ext = "executable" THEN 8 + PlacePoints[n.place] ELSE 0)
  + PeScore(c) + CapabilityScore(CapabilitiesOf(n, c)) + ScriptScore(SignalsOf(n, c))

StaticScore(n, c) ==
  Least(100, BaseScore(c) + LureScore(n)
             + (IF n.ext = "executable" THEN 8 + PlacePoints[n.place] ELSE 0)
             + PeScore(c) + CapabilityScore(CapabilitiesOf(n, c))
             + ScriptScore(SignalsOf(n, c)))

\* Without any reason, one says so.
StaticReasons(n, c) ==
  LET found == (IF c.known THEN {"known"} ELSE {}) \cup (IF c.eicar THEN {"eicar"} ELSE {})
               \cup c.rules \cup (IF LureScore(n) > 0 THEN {"lure"} ELSE {})
               \cup (IF n.ext = "executable" THEN {"unevaluated", n.place} ELSE {})
               \cup PeReasons(c) \cup CapabilitiesOf(n, c) \cup SignalsOf(n, c)
  IN  IF found \ {"elsewhere"} = {} THEN {"nothing"} ELSE found \ {"elsewhere"}

\* The finding scan_file returns.
StaticFinding(n, c) ==
  [score |-> StaticScore(n, c), verdict |-> Verdict(StaticScore(n, c)),
   reasons |-> StaticReasons(n, c), capabilities |-> CapabilitiesOf(n, c),
   signature |-> IF n.ext = "executable" THEN "unknown" ELSE "not_applicable"]

\* signature_status, of what the path names now.
SignatureOf(c) == IF c = Gone THEN "unknown" ELSE c.trust

\* Variants with a bug: a trusted signature clears the file; the points for a
\* signature that was not evaluated stay when the reason goes.
TrustScoreClearing(score, signature) ==
  CASE signature = "trusted"   -> 0
    [] signature = "untrusted" -> Least(100, score + 22)
    [] OTHER                   -> score
TrustScoreKept(score, signature) ==
  IF signature = "untrusted" THEN Least(100, score + 22) ELSE score

TrustScore(score, signature) ==
  CASE signature = "trusted"   -> IF score < 8 THEN 0 ELSE score - 8
    [] signature = "untrusted" -> Least(100, score + 22)
    [] OTHER                   -> score

TrustReason(signature) == CASE signature = "trusted"   -> {}
                            [] signature = "untrusted" -> {"untrusted"}
                            [] OTHER                   -> {"unconfirmed"}

\* The provider's opinion, when the file can be read and is small enough.
AmsiScore(score, c) ==
  IF c = Gone \/ c.large THEN score
  ELSE CASE c.amsi = "detected"         -> 100
         [] c.amsi = "blocked_by_admin" -> Most(score, 75)
         [] OTHER                       -> score
AmsiReason(c) == IF c = Gone \/ c.large \/ c.amsi = "clean" THEN {} ELSE {c.amsi}

\* apply_windows_scan_signals.
WithSignals(f, c) ==
  LET signature == IF f.signature = "unknown" THEN SignatureOf(c) ELSE f.signature
      trusted == IF f.signature = "unknown" THEN TrustScore(f.score, signature) ELSE f.score
      score == Least(100, AmsiScore(trusted, c))
  IN  [f EXCEPT !.score = score, !.verdict = Verdict(score), !.signature = signature,
                !.reasons = AmsiReason(c) \cup
                  (IF f.signature = "unknown"
                   THEN (f.reasons \ {"unevaluated"}) \cup TrustReason(signature)
                   ELSE f.reasons)]

-----------------------------------------------------------------------------
\* scan_file: it fails when there is no file.
Scan ==
  /\ pc = "scan" /\ file # Gone
  /\ read' = file
  /\ finding' = StaticFinding(name, file)
  /\ pc' = "signals"
  /\ UNCHANGED <<name, file, writes>>

ScanFails ==
  /\ pc = "scan"
  /\ pc' = "skipped"
  /\ UNCHANGED <<name, file, read, finding, writes>>

AddSignals ==
  /\ pc = "signals"
  /\ finding' = WithSignals(finding, file)
  /\ pc' = "scanned"
  /\ UNCHANGED <<name, file, read, writes>>

\* Someone else writes, replaces or removes the file.
Rewrite ==
  /\ pc \in {"scan", "signals"} /\ writes < MaxWrites
  /\ file' \in Rewrites
  /\ writes' = writes + 1
  /\ UNCHANGED <<name, pc, read, finding>>

ScanStep == Scan \/ ScanFails \/ AddSignals

-----------------------------------------------------------------------------
\* What the listed reasons are worth, the signature's with the points that a
\* missing evaluation was given before.
PathPoints(S) ==
  Worth(S, "temp", 30) + Worth(S, "downloads", 18) + Worth(S, "lure", 25)
RulePoints(S) ==
  Worth(S, "known", 100) + Worth(S, "eicar", 100) + Worth(S, "malicious", 100)
  + Worth(S, "high", 65) + Worth(S, "low", 25) + Worth(S, "broken", 25)
SignalPoints(S) ==
  Worth(S, "unevaluated", 8) + Worth(S, "untrusted", 30) + Worth(S, "unconfirmed", 8)
  + Worth(S, "detected", 100) + Worth(S, "blocked_by_admin", 75)
OtherPoints(S) ==
  ScriptPoints(S) + OddityPoints(S) + PathPoints(S) + RulePoints(S) + SignalPoints(S)
ReasonPoints(S) == CapabilityPoints(S) + OtherPoints(S)

(* Every verdict can be explained (scan.rs, scan_file, "explainable        *)
(* scoring"): the score of a finished scan is never more than the reasons  *)
(* it lists are worth together, also when the file was replaced halfway.   *)
PointsHaveReasons ==
  pc = "scanned" => finding.score <= ReasonPoints(finding.reasons)

(* Capabilities are evidence, not a verdict (capabilities.rs, assess: they *)
(* are capped below malicious): a program about which nothing but its      *)
(* capabilities is known is not called malicious, whichever it has.        *)
CapabilitiesAreNotMalice ==
  pc = "scanned" /\ finding.reasons \subseteq CapabilityNames \cup {"unconfirmed"} =>
    finding.verdict # "malicious"
=============================================================================
