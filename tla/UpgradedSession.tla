-------------------------- MODULE UpgradedSession --------------------------
(***************************************************************************)
(* websocket_session of the HTTP server: an echo session that pings a      *)
(* silent client and closes the connection when nothing comes back.  The   *)
(* line of http_session that creates it is commented out, so no program    *)
(* runs it yet; the module describes one session as do_accept starts it.   *)
(***************************************************************************)
EXTENDS Naturals, IoLoop

CONSTANT MaxActivity  \* bound: messages and control frames of the client

VARIABLES
  stream,     \* the websocket: "none", "handshake", "open", "closed"
  pingState,  \* ping_state_
  pings,      \* the number of async_pings under way
  op,         \* the async operation of the session: accept, read or write
  alarm,      \* the async_wait of the timer; "ready": on_timer is next
  deadline,   \* "armed" or "passed"
  activity    \* the number of messages and control frames received

upVars == <<stream, pingState, pings, op, alarm, deadline, activity>>

UpTypeOK ==
  /\ stream \in {"none", "handshake", "open", "closed"}
  /\ pingState \in 0..2
  /\ pings \in 0..(MaxActivity + 1)
  /\ op \in {"none", "accept", "read", "write"}
  /\ alarm \in {"none", "pending", "ready"}
  /\ deadline \in {"armed", "passed"}
  /\ activity \in 0..MaxActivity

UpInit ==
  /\ stream = "none" /\ pingState = 0 /\ pings = 0 /\ op = "none"
  /\ alarm = "none" /\ deadline = "armed" /\ activity = 0

\* The wait of the timer is cancelled by every change of its deadline.
Rearm == /\ deadline' = "armed"
         /\ alarm' = IF alarm = "pending" THEN "ready" ELSE alarm

\* do_accept: the timer is started, then its deadline set.
DoAccept ==
  /\ loop = "running" /\ stream = "none"
  /\ stream' = "handshake" /\ op' = "accept" /\ alarm' = "ready"
  /\ UNCHANGED <<loop, pingState, pings, deadline, activity>>

\* on_accept: the first read, or the end of the chain.
OnUpgrade ==
  /\ loop = "running" /\ op = "accept"
  /\ \/ stream = "handshake" /\ stream' = "open" /\ op' = "read"
     \/ op' = "none" /\ UNCHANGED stream
  /\ UNCHANGED <<loop, pingState, pings, alarm, deadline, activity>>

\* activity(), by a control frame while a read is under way or by a message,
\* which is echoed.
OnActivity ==
  /\ loop = "running" /\ stream = "open" /\ op = "read"
  /\ activity < MaxActivity
  /\ activity' = activity + 1
  /\ pingState' = 0
  /\ Rearm
  /\ op' \in {"read", "write"}
  /\ UNCHANGED <<loop, stream, pings>>

\* on_write: the next read.
OnEchoed ==
  /\ loop = "running" /\ stream = "open" /\ op = "write"
  /\ op' = "read"
  /\ UNCHANGED <<loop, stream, pingState, pings, alarm, deadline, activity>>

\* on_read or on_write with an error.
OnOperationFailed ==
  /\ loop = "running" /\ op \in {"read", "write"}
  /\ op' = "none"
  /\ UNCHANGED <<loop, stream, pingState, pings, alarm, deadline, activity>>

Ticks ==
  /\ loop = "running" /\ stream # "none" /\ deadline = "armed"
  /\ deadline' = "passed"
  /\ alarm' = IF alarm = "pending" THEN "ready" ELSE alarm
  /\ UNCHANGED <<loop, stream, pingState, pings, op, activity>>

\* Mutant: a second silence is answered with another ping.
OnAlarmPings ==
  /\ loop = "running" /\ alarm = "ready"
  /\ \/ deadline = "armed" /\ alarm' = "pending" /\ UNCHANGED <<deadline, stream>>
     \/ /\ deadline = "passed" /\ stream = "open"
        /\ alarm' = "pending" /\ deadline' = "armed"
        /\ UNCHANGED stream
     \/ /\ deadline = "passed" /\ stream # "open"
        /\ stream' = "closed" /\ alarm' = "none"
        /\ UNCHANGED deadline
  /\ UNCHANGED <<loop, pingState, pings, op, activity>>

\* on_timer: the first time the deadline passes a ping is sent, the second
\* time, or before the handshake is over, the socket is closed.
OnAlarm ==
  /\ loop = "running" /\ alarm = "ready"
  /\ \/ /\ deadline = "armed"
        /\ alarm' = "pending"
        /\ UNCHANGED <<stream, pingState, pings, deadline>>
     \/ /\ deadline = "passed" /\ stream = "open" /\ pingState = 0
        /\ pingState' = 1 /\ pings' = pings + 1
        /\ deadline' = "armed" /\ alarm' = "pending"
        /\ UNCHANGED stream
     \/ /\ deadline = "passed" /\ ~(stream = "open" /\ pingState = 0)
        /\ stream' = "closed" /\ alarm' = "none"
        /\ UNCHANGED <<pingState, pings, deadline>>
  /\ UNCHANGED <<loop, op, activity>>

\* on_ping.  Two pings can be under way when a control frame comes before the
\* first is written; the second then finds the state neither 1 nor 0, and a
\* build with assertions ends.
OnPing ==
  /\ loop = "running" /\ pings > 0
  /\ pings' = pings - 1
  /\ \/ /\ stream = "open" /\ pingState = 1
        /\ pingState' = 2 /\ UNCHANGED loop
     \/ /\ stream = "open" /\ pingState = 2
        /\ loop' \in {"running", "crashed"} /\ UNCHANGED pingState
     \/ /\ pingState = 0 \/ stream = "closed"
        /\ UNCHANGED <<pingState, loop>>
  /\ UNCHANGED <<stream, op, alarm, deadline, activity>>

UpNext ==
  \/ DoAccept \/ OnUpgrade \/ OnActivity \/ OnEchoed \/ OnOperationFailed
  \/ Ticks \/ OnAlarm \/ OnPing

UpFairness == WF_<<upVars, loop>>(Ticks) /\ WF_<<upVars, loop>>(OnAlarm)

-----------------------------------------------------------------------------

\* A client that falls silent is disconnected, in whatever state of the ping
\* it does so.
SilentIsClosed == stream # "none" ~> stream = "closed" \/ loop # "running"
=============================================================================
