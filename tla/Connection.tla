------------------------------- MODULE Connection -------------------------------
(***************************************************************************)
(* One connection from the handshake to the end of a channel (server.go,   *)
(* handleConn): the client authenticates, then a channel is opened and a   *)
(* worker serves it.                                                       *)
(***************************************************************************)
EXTENDS AuthAttempts, ChannelWorker

vars == <<authVars, workerVars>>

Init == AuthInit /\ WorkerInit

\* handleConn ranges over the channels.  Only the context outlives the handshake.
ServingBegins ==
  /\ authAt = "up" /\ authAt' = "serving"
  /\ callbacks' = [m \in Methods |-> "off"] /\ conflicts' = {} /\ verifies' = FALSE
  /\ attempt' = NoAttempt /\ cache' = NoCache /\ attempts' = 0
  /\ keyState' = [candidate |-> NoKey, pending |-> NoKey]
  /\ UNCHANGED <<ctxVars, transport, historyVars, workerVars>>

Next ==
  \/ AuthNext /\ UNCHANGED workerVars
  \/ ServingBegins
  \/ authAt = "serving" /\ WorkerNext /\ UNCHANGED authVars

Spec == Init /\ [][Next]_vars
FairSpec == Spec /\ WorkerFairness
================================================================================
