----------------------------- MODULE MCProgram -----------------------------
(***************************************************************************)
(* The programs of the repository from their first call to a signal: how   *)
(* each of them is wired and what its actors can reach, and the device     *)
(* program, whose services are modelled one by one.  A behaviour is about  *)
(* one of the two; the variables of the other part stay as they are.       *)
(***************************************************************************)
EXTENDS Wiring, Programs, DeviceAgent

\* The calls on a group with a layer, each in a sequence of its own.
PoolCalls ==
    {Adds("pool", <<"one">>), Adds("pool", <<"two">>),
     Shares("pool", <<"lamp">>), Joins("pool", <<"peer">>)}

MCScripts ==
    ManagerProgram \cup PlatformProgram \cup DeviceProgram
    \cup {Pool(order) : order \in SetToSeqs(PoolCalls)}

\* Only the device program looks up a name that nobody announces.
ASSUME OnlyDeviceUnannounced ==
    /\ \A s \in MCScripts \ DeviceProgram : Announced(s)
    /\ \A s \in DeviceProgram : ~Announced(s)

NoUses == [entry |-> {}, errors |-> {}, startup |-> {}, names |-> <<>>]

WiringIdle ==
    /\ program = [calls |-> <<>>, uses |-> NoUses, config |-> {}] /\ at = 1 /\ phase = "down"
    /\ store = <<>> /\ edges = <<>> /\ group = <<>> /\ mailbox = <<>>
    /\ contacts = <<>> /\ channels = {} /\ work = 0 /\ served = <<>> /\ failed = {}

DeviceIdle ==
    /\ process = "down" /\ status = FALSE /\ initial = FALSE
    /\ link = "connecting" /\ reads = 0 /\ losses = 0 /\ closing = FALSE
    /\ managerBox = <<>> /\ controlBox = <<>> /\ asked = <<>> /\ handed = <<>>

MCInit == (WiringInit /\ DeviceIdle) \/ (DeviceInit /\ WiringIdle)

MCNext ==
    \/ WiringNext /\ UNCHANGED deviceVars
    \/ DeviceNext /\ UNCHANGED wiringVars

MCSpec == MCInit /\ [][MCNext]_<<wiringVars, deviceVars>>
=============================================================================
