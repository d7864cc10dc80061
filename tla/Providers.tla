----------------------------- MODULE Providers -----------------------------
(***************************************************************************)
(* The servers of a program on its one io loop: the websocket server, the  *)
(* HTTP server and an upgraded session.  They share the loop, and with it  *)
(* its end: the environment's shutdown, or a crash in any of them.         *)
(***************************************************************************)
EXTENDS WsServer, HttpServer, UpgradedSession

CONSTANTS
  Loads,    \* the sets of connections that are opened in one behaviour
  Upgraded  \* the upgraded session, as a member of a load

VARIABLE load

vars == <<load, loop, wsVars, httpVars, upVars>>

TypeOK ==
  /\ load \in Loads
  /\ loop \in LoopStates
  /\ WsTypeOK /\ HttpTypeOK /\ UpTypeOK

Init ==
  /\ load \in Loads
  /\ loop = "running"
  /\ WsInit /\ HttpInit /\ UpInit
  \* A listener that nobody connects to is in order.
  /\ load \cap Sessions = {} => wsAcceptor = "listening"
  /\ load \cap Clients = {} => httpAcceptor = "listening"

\* dynamic_environment::shutdown: the websocket server closes its sessions,
\* the HTTP server does nothing, and the loop stops.
Stop ==
  /\ loop = "running"
  /\ loop' = "stopped"
  /\ CloseAll
  /\ UNCHANGED <<load, httpVars, upVars>>

Next ==
  \/ WsNext(load \cap Sessions) /\ UNCHANGED <<load, httpVars, upVars>>
  \/ HttpNext(load \cap Clients) /\ UNCHANGED <<load, wsVars, upVars>>
  \/ Upgraded \in load /\ UpNext /\ UNCHANGED <<load, wsVars, httpVars>>
  \/ Stop

Spec == Init /\ [][Next]_vars

FairSpec == Spec /\ WsFairness /\ HttpFairness /\ UpFairness
=============================================================================
