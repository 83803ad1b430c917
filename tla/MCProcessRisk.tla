---------------------------- MODULE MCProcessRisk ----------------------------
(* An instance of ProcessRisk: every process with a plain file, and a few   *)
(* processes with files that have every combination of evidence.            *)
EXTENDS ProcessRisk

Plain == [known |-> FALSE, eicar |-> FALSE, rules |-> {}, header |-> "sound", odd |-> {},
          text |-> FALSE, signals |-> {}, primitives |-> {}, trust |-> "unknown",
          amsi |-> "clean", large |-> FALSE]
Program == [ext |-> "executable", lure |-> FALSE, place |-> "elsewhere"]
Quiet == [accessible |-> TRUE, root |-> "profile", signature |-> "trusted",
          dualUse |-> FALSE, renamed |-> FALSE, parent |-> "other", net |-> "none",
          rwx |-> FALSE]

\* Processes: all of them.
ProcessCases ==
  {[process |-> p, name |-> Program,
    file |-> [Plain EXCEPT !.primitives = {"write", "allocate", "execute"}]] :
     p \in {q \in Process : q.accessible}}
  \cup {[process |-> p, name |-> Program, file |-> Gone] :
          p \in {q \in Process : ~q.accessible /\ q.signature = "unknown" /\ ~q.renamed}}

\* Capabilities: every set of them that primitives can make.
CapabilityGroups == {{"key", "key2"}, {"grab", "grab2"}, {"write", "allocate", "execute"},
                     {"artifact", "decrypt", "database"}, {"lsass", "dump"}, {"connect"},
                     {"input"}}
CapabilityFiles ==
  {[Plain EXCEPT !.primitives = UNION groups, !.trust = t] :
     groups \in SUBSET CapabilityGroups, t \in {"trusted", "unknown", "untrusted"}}

\* Detections, with everything Windows can say.
DetectionFiles ==
  {[Plain EXCEPT !.known = k, !.eicar = e, !.rules = r, !.odd = o, !.trust = t, !.amsi = a,
                 !.large = l] :
     k \in BOOLEAN, e \in BOOLEAN,
     r \in SUBSET {"malicious", "high", "low", "unrated"},
     o \in {{}, {"sections", "entropy"}, Oddities},
     t \in {"trusted", "unknown", "untrusted"},
     a \in {"detected", "blocked_by_admin", "clean"}, l \in BOOLEAN}

\* Scripts.
ScriptFiles ==
  {[Plain EXCEPT !.header = h, !.text = TRUE, !.signals = s] :
     h \in {"none", "broken"}, s \in SUBSET ScriptSignals}

FileCases ==
  {[process |-> [Quiet EXCEPT !.net = net], name |-> Program, file |-> c] :
     net \in {"none", "malicious"}, c \in CapabilityFiles \cup DetectionFiles \cup ScriptFiles}
  \cup {[process |-> Quiet, name |-> n, file |-> c] :
          n \in Name, c \in {Plain, [Plain EXCEPT !.known = TRUE],
                             [Plain EXCEPT !.signals = {"inject"}, !.primitives = {"key", "key2"}]}}

CasesInstance == ProcessCases \cup FileCases
RewritesInstance == {Gone, [Plain EXCEPT !.trust = "trusted"],
                     [Plain EXCEPT !.amsi = "detected", !.trust = "untrusted"]}
=============================================================================
