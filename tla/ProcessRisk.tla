---------------------------- MODULE ProcessRisk ----------------------------
(***************************************************************************)
(* How one newly seen process is judged.  The snapshot assesses it from    *)
(* its path, name and signature; the protection thread correlates that     *)
(* with parent and connections, scans the executable and stores an event;  *)
(* the pipe thread, serving the published snapshot, correlates once more   *)
(* and raises an alert of its own when the result is serious enough.       *)
(***************************************************************************)
EXTENDS FileScan

Process == [accessible : BOOLEAN,
            root : {"temp", "downloads", "profile", "trusted", "elsewhere"},
            signature : Signatures,
            dualUse : BOOLEAN, renamed : BOOLEAN,
            parent : {"office", "browser", "other"},
            net : {"none", "local", "public", "suspicious", "malicious"},
            rwx : BOOLEAN]   \* writable and executable private memory

CONSTANTS
  Cases,   \* processes with the names and contents of their files
  Unset    \* no event, no record yet

\* Windows tells nothing about a process it denies access to, not even where
\* its file is.
ASSUME RiskConstants ==
  /\ Cases \subseteq [process : Process, name : Name, file : Content \cup {Gone}]
  /\ \A case \in Cases : ~case.process.accessible =>
       case.process.signature = "unknown" /\ case.file = Gone

VARIABLES
  process,
  risk,      \* the published assessment
  event,     \* what analyze_new_process stored, or Unset
  convicted, \* and what it returned
  served     \* the assessment the pipe thread made of it, or Unset

vars == <<scanVars, process, risk, event, convicted, served>>

-----------------------------------------------------------------------------
Risk(score, reasons) == [score |-> Least(100, score), reasons |-> reasons]

\* Severity::from_score.
Severity(score) == IF score >= 90 THEN "critical" ELSE IF score >= 65 THEN "high"
                   ELSE IF score >= 35 THEN "medium" ELSE IF score >= 15 THEN "low" ELSE "info"

RootPoints == [temp |-> 35, downloads |-> 18, profile |-> 8, trusted |-> 0, elsewhere |-> 0]

\* assess_process: each reason is worth its points.
AssessmentPoints(p) ==
  [root |-> RootPoints[p.root],
   signature |-> CASE p.signature = "untrusted" -> 25 [] p.signature = "unknown" -> 5
                   [] OTHER -> 0,
   dualUse |-> IF p.dualUse THEN 7 ELSE 0,
   launched |-> IF p.dualUse /\ p.root \in {"temp", "downloads"} THEN 13 ELSE 0,
   renamed |-> IF p.renamed THEN 25 ELSE 0,
   outside |-> IF p.signature = "untrusted" /\ p.root # "trusted" THEN 10 ELSE 0]

\* The reasons with points.
Given(table) == {r \in DOMAIN table : table[r] > 0}

AssessProcess(p) ==
  IF ~p.accessible THEN Risk(5, {"limited"})
  ELSE LET a == AssessmentPoints(p)
       IN  Risk(a.root + a.signature + a.dualUse + a.launched + a.renamed + a.outside, Given(a))

External(p) == p.net \in {"public", "suspicious", "malicious"}

\* correlate_behavior, with the signals of apply_behavior_correlations.
BehaviorPoints(p, isNew) ==
  [b_destination |-> IF p.net = "malicious" THEN 50
                     ELSE IF p.net = "suspicious" /\ (isNew \/ p.signature # "trusted") THEN 25
                     ELSE 0,
   b_new |-> IF isNew /\ External(p) THEN 15 ELSE 0,
   b_untrusted |-> IF p.signature = "untrusted" /\ External(p) THEN 12 ELSE 0,
   b_parent |-> IF p.dualUse /\ p.parent = "office" THEN 45
                ELSE IF p.dualUse /\ p.parent = "browser" /\ (isNew \/ p.signature # "trusted")
                THEN 25 ELSE 0]

\* The points are added to the score it is given, the reasons to its set.
Correlate(r, p, isNew) ==
  LET b == BehaviorPoints(p, isNew)
  IN  Risk(r.score + b.b_destination + b.b_new + b.b_untrusted + b.b_parent,
           r.reasons \cup Given(b))

-----------------------------------------------------------------------------
NoFinding == [score |-> 0, verdict |-> "clean", reasons |-> {}, capabilities |-> {},
              signature |-> "not_applicable"]

\* The cycle that sees the process first.  It is new, and queued for its
\* analysis, unless this is the thread's first cycle or it has no identity.
Init ==
  \E case \in Cases : \E isNew \in IF case.process.accessible THEN BOOLEAN ELSE {FALSE} :
    /\ process = case.process /\ name = case.name /\ file = case.file
    /\ risk = Correlate(AssessProcess(case.process), case.process, isNew)
    /\ pc = IF isNew THEN "scan" ELSE "unqueued"
    /\ read = Gone /\ finding = NoFinding /\ writes = 0
    /\ event = Unset /\ convicted = FALSE /\ served = Unset

\* analyze_new_process after the scan: what the flows and the memory add.
RuntimePoints(p, caps, signature) ==
  LET unverified == signature # "trusted" /\ External(p) IN
  [destination |-> IF p.net = "malicious" THEN 40 ELSE 0,
   memory |-> IF "injection" \in caps /\ p.rwx THEN 25 ELSE 0,
   theft |-> IF unverified /\ "browser" \in caps THEN 25 ELSE 0,
   keys |-> IF unverified /\ "keyboard" \in caps THEN 25 ELSE 0,
   control |-> IF unverified /\ "remote" \in caps THEN 20 ELSE 0]

EventType(p, f) ==
  IF f.verdict = "malicious" THEN "malware_detected"
  ELSE IF "browser" \in f.capabilities /\ External(p) THEN "credential_theft_behavior"
  ELSE IF "injection" \in f.capabilities THEN "process_injection_behavior"
  ELSE IF "keyboard" \in f.capabilities /\ External(p) THEN "keylogging_behavior"
  ELSE IF "remote" \in f.capabilities /\ External(p) THEN "remote_access_behavior"
  ELSE "new_executable"

FinalScore(f, signature) ==
  LET extra == RuntimePoints(process, f.capabilities, signature)
  IN  Least(100, Most(risk.score, f.score) + extra.destination + extra.memory
                   + extra.theft + extra.keys + extra.control)

\* A file that could not be scanned leaves the snapshot's signature.
Analyze ==
  /\ pc \in {"scanned", "skipped"} /\ event = Unset
  /\ LET signature == IF pc = "scanned" THEN finding.signature ELSE process.signature
         score == FinalScore(finding, signature)
     IN  /\ event' = [type |-> EventType(process, finding), score |-> score]
         /\ convicted' = (score >= 45 \/ finding.capabilities # {})
  /\ UNCHANGED <<scanVars, process, risk, served>>

\* collect_snapshot serves the published record; the user's baseline, which is
\* another one, says whether the process is new.
ServeRecord(isNew) ==
  /\ served = Unset /\ (isNew => process.accessible)
  /\ served' = Correlate(risk, process, isNew)
  /\ UNCHANGED <<scanVars, process, risk, event, convicted>>

Judge == (ScanStep \/ Rewrite) /\ UNCHANGED <<process, risk, event, convicted, served>>

Next == Judge \/ Analyze \/ \E isNew \in BOOLEAN : ServeRecord(isNew)

Spec == Init /\ [][Next]_vars

\* collect_snapshot's second loop raises an alert.
BehaviorAlert ==
  /\ served # Unset
  /\ Severity(served.score) \in {"medium", "high", "critical"}
  /\ served.reasons \cap DOMAIN BehaviorPoints(process, TRUE) # {}

-----------------------------------------------------------------------------
(***************************************************************************)
(* Properties                                                              *)
(***************************************************************************)

TypeOK ==
  /\ process \in Process /\ name \in Name /\ file \in Content \cup {Gone}
  /\ read \in Content \cup {Gone}
  /\ pc \in {"scan", "signals", "scanned", "skipped", "unqueued"} /\ writes \in 0..MaxWrites
  /\ finding.score \in 0..100 /\ finding.verdict = Verdict(finding.score)
  /\ finding.signature \in Signatures
  /\ risk.score \in 0..100 /\ convicted \in BOOLEAN
  /\ event # Unset => event.score \in 0..100
  /\ served # Unset => served.score \in 0..100

(* Malware is called malware (scan.rs, apply_windows_scan_signals and      *)
(* analyze_new_process): when the content that was read has a known hash,  *)
(* the test signature or a malicious rule, the event stored for the        *)
(* process says malware, with at least high severity, and the process is   *)
(* watched as suspicious, whoever signed the file and whatever became of   *)
(* it after it was read.                                                   *)
MalwareIsReported ==
  event # Unset /\ pc = "scanned" /\ Detected(read) =>
    /\ event.type = "malware_detected"
    /\ Severity(event.score) \in {"high", "critical"}
    /\ convicted

(* Trusted software does not become an alert (risk.rs, correlate_behavior: *)
(* "normal browsing and trusted software do not become alerts"): a trusted *)
(* program under its own name, not started by another, with nothing but    *)
(* ordinary connections, raises none.                                      *)
TrustedIsQuiet ==
  /\ process.signature = "trusted" /\ process.net \in {"none", "local", "public"}
  /\ ~process.renamed /\ ~process.dualUse
  /\ process.root \in {"profile", "trusted", "elsewhere"}
  => ~BehaviorAlert
=============================================================================
