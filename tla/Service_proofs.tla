--------------------------- MODULE Service_proofs ---------------------------
(***************************************************************************)
(* What holds of the service thread: of the content it switches to         *)
(* (ContentActivation), for any set of versions, any number of pending     *)
(* commands and every failure, and of the pipe it serves (PipeServer), for *)
(* any number of clients.                                                  *)
(***************************************************************************)
EXTENDS ContentActivation, PipeServer, TLAPS

USE VersionsAssumption DEF Content

\* The version in force, the two rows and the locals of the switch under way.
SwitchInv ==
  /\ running.signed => running.version \in Versions
  /\ ~running.signed => running.version = Bundled
  /\ pc \in {"idle", "staged", "loaded"} /\ running.signed => active = running.version
  /\ pc \in {"staged", "loaded"} /\ job.to \in Versions => job.to # job.back
  /\ pc \in {"staged", "loaded", "committed"} /\ running.signed
       => job.back = running.version
  /\ pc \in {"loaded", "committed"} => job.to \in Versions
  /\ pc = "committed" => active = job.to /\ previous = job.back

QueueInv ==
  /\ pc = "down" => queue = <<>>
  /\ ThreadsAgree

IInv == TypeOK /\ SwitchInv /\ RollbackLeadsElsewhere

LEMMA InitInv == Init => IInv
  BY DEF Init, IInv, TypeOK, SwitchInv, RollbackLeadsElsewhere

\* Types.
LEMMA StepType == IInv /\ [Next]_vars => TypeOK'
<1> SUFFICES ASSUME IInv, [Next]_vars PROVE TypeOK'
  OBVIOUS
<1> USE DEF IInv, TypeOK, SwitchInv
<1>1. ASSUME NEW v \in Versions, Install(v) PROVE TypeOK'
  BY <1>1 DEF Install
<1>2. ASSUME NEW v \in Versions, LoseVersion(v) PROVE TypeOK'
  BY <1>2 DEF LoseVersion
<1>3. CASE Rollback
  BY <1>3 DEF Rollback
<1>4. CASE Handler
  <2>1. CASE Publish
    BY <2>1 DEF Publish
  <2>2. CASE Load \/ Commit \/ CommitFails
    BY <2>2 DEF Load, Commit, CommitFails
  <2>3. QED
    BY <1>4, <2>1, <2>2 DEF Handler
<1>5. CASE TakeCommand
  <2>1. shield' \in Versions /\ queue' \in Seq(Versions)
    BY <1>5 DEF TakeCommand
  <2>2. QED
    BY <1>5, <2>1 DEF TakeCommand
<1>6. CASE Crash
  BY <1>6 DEF Crash
<1>7. CASE Start
  BY <1>7 DEF Start, Loadable
<1>8. CASE UNCHANGED vars
  BY <1>8 DEF vars
<1>9. QED
  BY <1>1, <1>2, <1>3, <1>4, <1>5, <1>6, <1>7, <1>8 DEF Next

\* The rows, the version in force and the locals stay in step.
LEMMA StepSwitch == IInv /\ [Next]_vars => SwitchInv' /\ RollbackLeadsElsewhere'
<1> SUFFICES ASSUME IInv, [Next]_vars PROVE SwitchInv' /\ RollbackLeadsElsewhere'
  OBVIOUS
<1> USE DEF IInv, TypeOK, SwitchInv, RollbackLeadsElsewhere
<1>1. ASSUME NEW v \in Versions, Install(v) PROVE SwitchInv' /\ RollbackLeadsElsewhere'
  BY <1>1 DEF Install
<1>2. CASE Rollback
  BY <1>2 DEF Rollback
<1>3. CASE Load
  BY <1>3 DEF Load, Loadable
<1>4. CASE Commit \/ CommitFails
  BY <1>4 DEF Commit, CommitFails
<1>5. CASE Publish
  BY <1>5 DEF Publish
<1>6. CASE Crash
  BY <1>6 DEF Crash
<1>7. CASE Start
  BY <1>7 DEF Start, Loadable
<1>8. ASSUME UNCHANGED <<active, previous, running, pc, job>>
      PROVE  SwitchInv' /\ RollbackLeadsElsewhere'
  BY <1>8
<1>9. QED
  BY <1>1, <1>2, <1>3, <1>4, <1>5, <1>6, <1>7, <1>8
     DEF Next, Handler, LoseVersion, TakeCommand, vars

LEMMA Invariance == Spec => []IInv
<1>1. IInv /\ [Next]_vars => IInv'
  BY StepType, StepSwitch DEF IInv
<1>2. QED
  BY InitInv, <1>1, PTL DEF Spec

\* The variables keep their types.
THEOREM ContentTypeCorrect == Spec => []TypeOK
  BY Invariance, PTL DEF IInv

\* The signed version in force is the recorded one, through every failure.
THEOREM RunningIsRecordedHolds == Spec => []RunningIsRecorded
<1>1. IInv => RunningIsRecorded
  BY DEF IInv, SwitchInv, RunningIsRecorded
<1>2. QED
  BY Invariance, <1>1, PTL

\* The rollback target is never the active version.
THEOREM RollbackLeadsElsewhereHolds == Spec => []RollbackLeadsElsewhere
  BY Invariance, PTL DEF IInv

\* A switch away from signed content keeps that version as rollback target.
THEOREM SwitchKeepsTheOldHolds == Spec => SwitchKeepsTheOld
<1> DEFINE A == pc = "committed" /\ pc' = "idle" /\ running.signed
                  => previous = running.version /\ active = running'.version
<1>1. ASSUME IInv, [Next]_vars PROVE A
  <2> USE <1>1 DEF IInv, TypeOK, SwitchInv
  <2>1. CASE Publish
    BY <2>1 DEF Publish
  <2>2. CASE ~Publish
    BY <2>2 DEF Next, Handler, Install, LoseVersion, Rollback, Load, Commit, CommitFails,
         TakeCommand, Crash, Start, vars
  <2>3. QED
    BY <2>1, <2>2
<1>2. IInv /\ [Next]_vars => [A]_vars
  BY <1>1
<1>3. QED
  BY Invariance, <1>2, PTL DEF Spec, SwitchKeepsTheOld

\* The protection thread has, or has been sent, the version in force.
THEOREM ThreadsAgreeHolds == Spec => []ThreadsAgree
<1>1. Init => QueueInv
  BY DEF Init, QueueInv, ThreadsAgree, LastSent
<1>2. ASSUME TypeOK, TypeOK', QueueInv, [Next]_vars PROVE QueueInv'
  <2> USE <1>2 DEF TypeOK, QueueInv, ThreadsAgree, LastSent
  <2>1. CASE Publish
    BY <2>1 DEF Publish
  <2>2. CASE TakeCommand
    <3>1. CASE Len(queue) = 1
      <4>1. queue' = <<>>
        BY <2>2, <3>1 DEF TakeCommand
      <4>2. QED
        BY <2>2, <3>1, <4>1 DEF TakeCommand
    <3>2. CASE Len(queue) > 1
      <4>1. queue' # <<>> /\ queue'[Len(queue')] = queue[Len(queue)]
        BY <2>2, <3>2 DEF TakeCommand
      <4>2. QED
        BY <2>2, <3>2, <4>1 DEF TakeCommand
    <3>3. QED
      BY <2>2, <3>1, <3>2 DEF TakeCommand
  <2>3. CASE Start
    BY <2>3 DEF Start
  <2>4. CASE Crash
    BY <2>4 DEF Crash
  <2>5. ASSUME UNCHANGED <<running, queue, shield>>, pc' = "down" <=> pc = "down"
        PROVE  QueueInv'
    BY <2>5
  <2>6. ASSUME NEW v \in Versions, Install(v) PROVE QueueInv'
    BY <2>6 DEF Install
  <2>7. QED
    BY <1>2, <2>1, <2>2, <2>3, <2>4, <2>5, <2>6
       DEF Next, Handler, LoseVersion, Rollback, Load, Commit, CommitFails, vars
<1>3. TypeOK /\ TypeOK' /\ QueueInv /\ [Next]_vars => QueueInv'
  BY <1>2
<1>4. QueueInv => ThreadsAgree
  BY DEF QueueInv
<1>5. QED
  BY ContentTypeCorrect, <1>1, <1>3, <1>4, PTL DEF Spec

-----------------------------------------------------------------------------
(***************************************************************************)
(* The pipe                                                                *)
(***************************************************************************)
USE PeersAssumption

\* A connection is served with someone at its other end; a request counted as
\* late is the last one before the service stops.
LoopInv ==
  /\ server \in {"reading", "handling", "replying"} => peer # NoOne
  /\ late <= 1
  /\ late = 1 => stop /\ server \in {"handling", "replying", "returned", "stopped"}

PipeInv == PipeTypeOK /\ NobodyForgotten /\ LoopInv

LEMMA PipeInitInv == PipeInit => PipeInv
<1> SUFFICES ASSUME PipeInit PROVE PipeInv
  OBVIOUS
<1>1. PipeTypeOK
  BY DEF PipeInit, PipeTypeOK, ServerSteps, CallSteps
<1>2. NobodyForgotten /\ LoopInv
  BY DEF PipeInit, NobodyForgotten, LoopInv
<1>3. QED
  BY <1>1, <1>2 DEF PipeInv

\* Every step of the service thread, the stop control and the callers.
LEMMA PipeStepInv == PipeInv /\ [PipeNext]_pipeVars => PipeInv'
<1> SUFFICES ASSUME PipeInv, [PipeNext]_pipeVars PROVE PipeInv'
  OBVIOUS
<1> USE DEF PipeInv, PipeTypeOK, NobodyForgotten, LoopInv, ServerSteps,
            CallSteps
<1>1. CASE Server
  <2>1. CASE StartService \/ CreatePipe \/ Handle \/ CheckStop
    BY <2>1 DEF StartService, CreatePipe, Handle, CheckStop
  <2>2. CASE Accept
    BY <2>2 DEF Accept
  <2>3. CASE ReadRequest
    BY <2>3 DEF ReadRequest
  <2>4. CASE ReadFails \/ ReplyFails
    BY <2>4 DEF ReadFails, ReplyFails, Drop
  <2>5. CASE Reply
    BY <2>5 DEF Reply
  <2>6. QED
    BY <1>1, <2>1, <2>2, <2>3, <2>4, <2>5 DEF Server
<1>2. CASE StopControl
  BY <1>2 DEF StopControl
<1>3. CASE Wake
  <2>1. Waker \in Peers
    BY DEF Peers
  <2>2. QED
    BY <1>3, <2>1 DEF Wake, CanOpen
<1>4. ASSUME NEW c \in Clients, OpenPipe(c) PROVE PipeInv'
  <2>1. c \in Peers
    BY DEF Peers
  <2>2. QED
    BY <1>4, <2>1 DEF OpenPipe, CanOpen
<1>5. ASSUME NEW p \in Peers, SendRequest(p) PROVE PipeInv'
  BY <1>5 DEF SendRequest
<1>6. ASSUME NEW p \in Peers, HangUp(p) \/ Close(p) PROVE PipeInv'
  BY <1>6 DEF HangUp, Close
<1>7. CASE Restart
  <2>1. at' \in [Peers -> CallSteps]
    BY <1>7 DEF Restart
  <2>2. NobodyForgotten'
    BY <1>7 DEF Restart
  <2>3. server' = "starting" /\ late' = 0 /\ stop' = FALSE /\ waking' = FALSE
    BY <1>7 DEF Restart
  <2>4. peer' = peer /\ frame' = frame
    BY <1>7 DEF Restart
  <2>5. PipeTypeOK'
    BY <2>1, <2>3, <2>4
  <2>6. LoopInv'
    BY <2>3
  <2>7. QED
    BY <2>2, <2>5, <2>6
<1>8. CASE UNCHANGED pipeVars
  BY <1>8 DEF pipeVars
<1>9. QED
  BY <1>1, <1>2, <1>3, <1>4, <1>5, <1>6, <1>7, <1>8 DEF PipeNext, WakeUp, Peers

LEMMA PipeInvariance == PipeSpec => []PipeInv
  BY PipeInitInv, PipeStepInv, PTL DEF PipeSpec

\* The variables keep their types.
THEOREM PipeTypeCorrect == PipeSpec => []PipeTypeOK
  BY PipeInvariance, PTL DEF PipeInv

\* No caller ever waits on a connection the server has left behind, on
\* whichever path serve_connection returned.
THEOREM NobodyForgottenHolds == PipeSpec => []NobodyForgotten
  BY PipeInvariance, PTL DEF PipeInv

\* At most one request is let in once the stop flag is set.
THEOREM AtMostOneLateCallHolds == PipeSpec => []AtMostOneLateCall
<1>1. PipeInv => AtMostOneLateCall
  BY DEF PipeInv, LoopInv, AtMostOneLateCall
<1>2. QED
  BY PipeInvariance, <1>1, PTL

=============================================================================
