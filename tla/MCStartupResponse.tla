-------------------------- MODULE MCStartupResponse --------------------------
(* An instance of StartupResponse for TLC: a service and a task, each of     *)
(* which can be disabled.                                                    *)
EXTENDS StartupResponse, TLC

CONSTANTS svc, task

RankInstance == svc :> 1 @@ task :> 2
TwoStarts == {"automatic", "manual"}
AllFaults == {"db", "registry", "powershell", "tool"}
=============================================================================
