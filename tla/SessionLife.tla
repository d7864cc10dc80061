----------------------------- MODULE SessionLife -----------------------------
(***************************************************************************)
(* What the websocket server promises the services about a session, and    *)
(* what ManagerServices and PlatformServices assume of it: requests come   *)
(* from open sessions only, a connection ends once and is reported at most *)
(* once, and only a session that was reported is removed, except at        *)
(* shutdown.                                                               *)
(***************************************************************************)
EXTENDS Naturals

CONSTANT Sessions

VARIABLES
  life,      \* life[s]: "new", "open", "dead" (ended, still listed), "gone"
  heard,     \* heard[s]: the number of requests the router got from s
  reported   \* the sessions whose end the router was told

lifeVars == <<life, heard, reported>>

LifeInit ==
  /\ life = [s \in Sessions |-> "new"]
  /\ heard = [s \in Sessions |-> 0]
  /\ reported = {}

Open(s) ==
  /\ life[s] = "new"
  /\ life' = [life EXCEPT ![s] = "open"]
  /\ UNCHANGED <<heard, reported>>

Hear(s) ==
  /\ life[s] = "open"
  /\ heard' = [heard EXCEPT ![s] = @ + 1]
  /\ UNCHANGED <<life, reported>>

End(s) ==
  /\ life[s] = "open"
  /\ life' = [life EXCEPT ![s] = "dead"]
  /\ \/ reported' = reported \cup {s}
     \/ UNCHANGED reported
  /\ UNCHANGED heard

Remove(s) ==
  /\ life[s] = "dead" /\ s \in reported
  /\ life' = [life EXCEPT ![s] = "gone"]
  /\ UNCHANGED <<heard, reported>>

Shutdown ==
  /\ life' = [s \in Sessions |-> IF life[s] = "new" THEN "new" ELSE "gone"]
  /\ UNCHANGED <<heard, reported>>

LifeNext ==
  \/ \E s \in Sessions : Open(s) \/ Hear(s) \/ End(s) \/ Remove(s)
  \/ Shutdown

LifeSpec == LifeInit /\ [][LifeNext]_lifeVars
=============================================================================
