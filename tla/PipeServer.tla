------------------------------ MODULE PipeServer ------------------------------
(***************************************************************************)
(* The life of the service around its one named pipe: the loop that serves *)
(* one connection after the other, and the stop control, which sets a flag *)
(* and sends a wake-up call down the same pipe.  Every blocking call of    *)
(* the loop (ConnectNamedPipe, read_frame) waits without a timeout.        *)
(***************************************************************************)
EXTENDS Naturals

CONSTANTS
  Clients,    \* local programs that call the service
  Waker,      \* the thread of the stop handler, calling as a client does
  NoOne,      \* nobody is at the other end of the pipe
  PipeFaults  \* the failing calls this instance admits

PipeFaultKinds == {"start"}
Peers == Clients \cup {Waker}

ASSUME PeersAssumption == Waker \notin Clients /\ NoOne \notin Peers
ASSUME PipeFaultsAssumption == PipeFaults \subseteq PipeFaultKinds

VARIABLES
  server,  \* where the service thread stands
  peer,    \* who opened the instance of the pipe the server holds
  frame,   \* that instance holds a whole request
  at,      \* where each caller stands
  waking,  \* the wake-up thread is about to open the pipe
  stop,    \* stop_requested
  late     \* history: requests handled after the flag was set

pipeVars == <<server, peer, frame, at, waking, stop, late>>

ServerSteps == {"starting", "between", "listening", "reading", "handling",
                "replying", "returned", "stopped", "dead"}
CallSteps == {"away", "connected", "sent", "answered", "dropped"}

PipeTypeOK ==
  /\ server \in ServerSteps
  /\ peer \in Peers \cup {NoOne}
  /\ frame \in BOOLEAN
  /\ at \in [Peers -> CallSteps]
  /\ waking \in BOOLEAN
  /\ stop \in BOOLEAN
  /\ late \in Nat

PipeInit ==
  /\ server = "starting"
  /\ peer = NoOne
  /\ frame = FALSE
  /\ at = [p \in Peers |-> "away"]
  /\ waking = FALSE
  /\ stop = FALSE
  /\ late = 0

-----------------------------------------------------------------------------
(***************************************************************************)
(* The service thread                                                      *)
(***************************************************************************)

\* create_state, after the service was already reported as running.  When it
\* fails the thread returns and no further status is reported.
StartService ==
  /\ server = "starting"
  /\ \/ server' = "between"
     \/ "start" \in PipeFaults /\ server' = "dead"
  /\ UNCHANGED <<peer, frame, at, waking, stop, late>>

\* A caller that still holds the last instance may keep the next one from
\* being the first.
Lingering == \E p \in Peers : at[p] \in {"answered", "dropped"}

CreatePipe ==
  /\ server = "between"
  /\ \/ server' = "listening"
     \/ Lingering /\ server' = "returned"
  /\ frame' = FALSE
  /\ UNCHANGED <<peer, at, waking, stop, late>>

\* ConnectNamedPipe returns once someone has opened the instance, with an
\* error when the caller is gone again.
Accept ==
  /\ server = "listening" /\ peer # NoOne
  /\ IF at[peer] # "away"
       THEN server' = "reading" /\ UNCHANGED <<peer, frame>>
       ELSE server' = "returned" /\ peer' = NoOne /\ frame' = FALSE
  /\ UNCHANGED <<at, waking, stop, late>>

ReadRequest ==
  /\ server = "reading" /\ frame
  /\ server' = "handling"
  /\ late' = IF stop THEN late + 1 ELSE late
  /\ UNCHANGED <<peer, frame, at, waking, stop>>

\* The server's handle is closed: a caller still there notices.
Drop == /\ server' = "returned"
        /\ peer' = NoOne
        /\ frame' = FALSE
        /\ at' = [at EXCEPT ![peer] = IF @ = "away" THEN @ ELSE "dropped"]

\* Variant with a bug: the handle of a failed connection is never closed.
ReadFailsLeaking ==
  /\ server = "reading"
  /\ frame \/ at[peer] = "away"
  /\ server' = "returned"
  /\ peer' = NoOne
  /\ UNCHANGED <<frame, at, waking, stop, late>>

\* A frame that does not decode, a caller that hung up or has no identity.
ReadFails ==
  /\ server = "reading"
  /\ frame \/ at[peer] = "away"
  /\ Drop
  /\ UNCHANGED <<waking, stop, late>>

\* Variant with a bug: a request found while stopping is left without a reply.
HandleUnlessStopping ==
  /\ server = "handling"
  /\ server' = IF stop THEN "returned" ELSE "replying"
  /\ UNCHANGED <<peer, frame, at, waking, stop, late>>

Handle ==
  /\ server = "handling"
  /\ server' = "replying"
  /\ UNCHANGED <<peer, frame, at, waking, stop, late>>

Reply ==
  /\ server = "replying"
  /\ server' = "returned"
  /\ peer' = NoOne
  /\ frame' = FALSE
  /\ at' = [at EXCEPT ![peer] = IF @ = "away" THEN @ ELSE "answered"]
  /\ UNCHANGED <<waking, stop, late>>

\* write_frame refuses a response beyond the frame limit, or the pipe breaks.
ReplyFails ==
  /\ server = "replying"
  /\ Drop
  /\ UNCHANGED <<waking, stop, late>>

\* Variant with a bug: the flag is not looked at.
CheckNothing ==
  /\ server = "returned"
  /\ server' = "between"
  /\ UNCHANGED <<peer, frame, at, waking, stop, late>>

\* The flag is looked at only here, between two connections.
CheckStop ==
  /\ server = "returned"
  /\ server' = IF stop THEN "stopped" ELSE "between"
  /\ UNCHANGED <<peer, frame, at, waking, stop, late>>

Server ==
  \/ StartService \/ CreatePipe \/ Accept \/ ReadRequest \/ ReadFails
  \/ Handle \/ Reply \/ ReplyFails \/ CheckStop

-----------------------------------------------------------------------------
(***************************************************************************)
(* The stop control and its wake-up thread                                 *)
(***************************************************************************)

\* The control is accepted until "stopped" is reported, any number of times.
StopControl ==
  /\ server # "stopped"
  /\ ~waking /\ at[Waker] = "away"
  /\ stop' = TRUE
  /\ waking' = TRUE
  /\ UNCHANGED <<server, peer, frame, at, late>>

CanOpen == server = "listening" /\ peer = NoOne

\* One attempt to open the pipe: without a free instance the thread ends.
Wake ==
  /\ waking
  /\ waking' = FALSE
  /\ IF CanOpen
       THEN peer' = Waker /\ at' = [at EXCEPT ![Waker] = "connected"]
       ELSE UNCHANGED <<peer, at>>
  /\ UNCHANGED <<server, frame, stop, late>>

-----------------------------------------------------------------------------
(***************************************************************************)
(* Callers                                                                 *)
(***************************************************************************)

OpenPipe(c) ==
  /\ at[c] = "away"
  /\ CanOpen
  /\ peer' = c
  /\ at' = [at EXCEPT ![c] = "connected"]
  /\ UNCHANGED <<server, frame, waking, stop, late>>

SendRequest(p) ==
  /\ at[p] = "connected"
  /\ at' = [at EXCEPT ![p] = "sent"]
  /\ frame' = TRUE
  /\ UNCHANGED <<server, peer, waking, stop, late>>

\* A client gives up waiting, or dies; the wake-up thread does neither.
HangUp(c) ==
  /\ at[c] \in {"connected", "sent"}
  /\ at' = [at EXCEPT ![c] = "away"]
  /\ UNCHANGED <<server, peer, frame, waking, stop, late>>

Close(p) ==
  /\ at[p] \in {"answered", "dropped"}
  /\ at' = [at EXCEPT ![p] = "away"]
  /\ UNCHANGED <<server, peer, frame, waking, stop, late>>

\* The service is started again in a new process.
Restart ==
  /\ server = "stopped"
  /\ server' = "starting"
  /\ waking' = FALSE
  /\ at' = [at EXCEPT ![Waker] = "away"]
  /\ stop' = FALSE
  /\ late' = 0
  /\ UNCHANGED <<peer, frame>>

WakeUp == Wake \/ SendRequest(Waker)

PipeNext ==
  \/ Server
  \/ StopControl
  \/ WakeUp
  \/ \E c \in Clients : OpenPipe(c) \/ SendRequest(c) \/ HangUp(c)
  \/ \E p \in Peers : Close(p)
  \/ Restart

PipeSpec == PipeInit /\ [][PipeNext]_pipeVars

\* The service thread and the wake-up thread run whenever they can.  Clients
\* owe nothing: they may stay connected, silent, for ever.
PipeFairness == WF_pipeVars(Server) /\ WF_pipeVars(WakeUp)
PipeFairSpec == PipeSpec /\ PipeFairness

-----------------------------------------------------------------------------
(***************************************************************************)
(* Properties                                                              *)
(***************************************************************************)

\* Every exit of serve_connection tells its caller: nobody waits on a
\* connection the server has left behind.
NobodyForgotten ==
  \A p \in Peers : at[p] \in {"connected", "sent"} => peer = p

\* After the stop control at most one more request is let in.
AtMostOneLateCall == late <= 1

\* A request that reached the pipe is answered or refused, a stop arriving at
\* any point of it included, unless its sender hangs up.
RequestAnswered ==
  \A p \in Peers : at[p] = "sent" ~> at[p] \in {"answered", "dropped", "away"}

\* Once stop is requested the next call, and the wake-up call if it gets
\* through, ends the service.
StopAtNextCall ==
  stop /\ (frame \/ at[Waker] = "connected") ~> server = "stopped"

\* "Clean shutdown" (refuted by the code): a stop control stops the service.
StopCompletes == stop ~> server = "stopped"

=============================================================================
