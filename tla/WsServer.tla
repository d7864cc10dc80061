------------------------------ MODULE WsServer ------------------------------
(***************************************************************************)
(* The websocket server: ws_listener, its sessions and the handlers of     *)
(* ws_server.  Accepting, reading and the writes that are posted to the    *)
(* strand of a session run on the thread of the io loop; the handlers      *)
(* write, close and remove run on the thread of the service that sends     *)
(* them, one at a time (one worker, as configured).  storage_sessions is   *)
(* used by both threads without a lock.                                    *)
(*                                                                         *)
(* Accepted connections are at least a microsecond apart, so that the ids  *)
(* of sessions differ.  Frames are numbers, in the order of the writes.    *)
(***************************************************************************)
EXTENDS Naturals, Sequences, SequencesExt, FiniteSets, IoLoop

CONSTANTS
  Sessions,   \* the connections that clients open, by the id they are given
  MaxHeard,   \* bound: requests of one session
  MaxFrames,  \* bound: frames that services write
  Nobody      \* no session

ASSUME WsAssumption ==
  /\ MaxHeard \in Nat /\ MaxFrames \in Nat
  /\ Nobody \notin Sessions

VARIABLES
  wsAcceptor,  \* the acceptor of the listener
  conn,      \* conn[s]: the connection of the stream
  listed,    \* storage_sessions: the ids in the map
  reading,   \* the sessions with an async_read under way
  strand,    \* strand[s]: frames posted to the strand and not queued yet
  que,       \* que[s]: _que, the frames that are not written yet
  writes,    \* writes[s]: the number of async_writes under way
  lookup,    \* the write a service's thread is doing: its session, its frame,
             \* and whether the map was changed meanwhile
  errors,    \* the errors sent to the router that it has not handled
  frames,    \* the number of frames that services have written
  heard,     \* history: heard[s], the requests the router got from s
  reported,  \* history: the sessions whose error the router got
  posted,    \* history: posted[s], the frames given to session s
  sent,      \* history: sent[s], the frames written to the connection
  passed     \* history: the frames handed to the pipes instead

wsIo == <<conn, reading, strand, que, writes, sent>>
wsVars == <<wsAcceptor, wsIo, listed, lookup, errors, frames, heard, reported, posted, passed>>

Idle == [s |-> Nobody, frame |-> 0, raced |-> FALSE]

\* Error codes the router tells apart: a reset or refused connection, others.
Codes == {"reset", "other"}

ListenerType ==
  /\ wsAcceptor \in AcceptorStates
  /\ listed \subseteq Sessions
  /\ lookup \in [s : Sessions \cup {Nobody}, frame : 0..MaxFrames, raced : BOOLEAN]

SessionType ==
  /\ conn \in [Sessions -> {"none", "handshake", "open", "broken", "closed"}]
  /\ reading \subseteq Sessions
  /\ strand \in [Sessions -> Seq(1..MaxFrames)]
  /\ que \in [Sessions -> Seq(1..MaxFrames)]
  /\ writes \in [Sessions -> 0..1]

WsTypeOK ==
  /\ ListenerType /\ SessionType
  /\ errors \in Seq([s : Sessions, code : Codes])
  /\ frames \in 0..MaxFrames
  /\ heard \in [Sessions -> 0..MaxHeard]
  /\ reported \subseteq Sessions
  /\ posted \in [Sessions -> Seq(1..MaxFrames)]
  /\ sent \in [Sessions -> Seq(1..MaxFrames)]
  /\ passed \subseteq 1..MaxFrames

WsInit ==
  /\ wsAcceptor \in AcceptorStates
  /\ conn = [s \in Sessions |-> "none"]
  /\ listed = {} /\ reading = {} /\ reported = {} /\ passed = {}
  /\ strand = [s \in Sessions |-> <<>>]
  /\ que = [s \in Sessions |-> <<>>]
  /\ writes = [s \in Sessions |-> 0]
  /\ lookup = Idle
  /\ errors = <<>>
  /\ frames = 0
  /\ heard = [s \in Sessions |-> 0]
  /\ posted = [s \in Sessions |-> <<>>]
  /\ sent = [s \in Sessions |-> <<>>]

-----------------------------------------------------------------------------
(* The thread of the io loop. *)

\* ws_listener::on_accept.  The session enters the map and starts to read the
\* handshake.  A service's thread that is looking up an id meanwhile may find
\* nothing, or break the process.
OnAccept(s) ==
  /\ loop = "running"
  /\ wsAcceptor = "listening"
  /\ conn[s] = "none"
  /\ conn' = [conn EXCEPT ![s] = "handshake"]
  /\ listed' = listed \cup {s}
  /\ lookup' = [lookup EXCEPT !.raced = (lookup # Idle)]
  /\ \/ UNCHANGED loop
     \/ lookup # Idle /\ loop' = "crashed"
  /\ UNCHANGED <<wsAcceptor, reading, strand, que, writes, sent, errors, frames, heard,
                 reported, posted, passed>>

\* ws_session::on_accept: after an error the session stays as it is.
OnHandshake(s) ==
  /\ loop = "running"
  /\ conn[s] = "handshake"
  /\ \/ conn' = [conn EXCEPT ![s] = "open"] /\ reading' = reading \cup {s}
     \/ conn' = [conn EXCEPT ![s] = "broken"] /\ UNCHANGED reading
  /\ UNCHANGED <<loop, wsAcceptor, listed, strand, que, writes, sent, lookup, errors, frames,
                 heard, reported, posted, passed>>

\* The client closes the connection, or it is lost.
ConnectionEnds(s) ==
  /\ loop = "running"
  /\ conn[s] = "open"
  /\ \E how \in {"closed", "broken"} : conn' = [conn EXCEPT ![s] = how]
  /\ UNCHANGED <<loop, wsAcceptor, listed, reading, strand, que, writes, sent, lookup, errors,
                 frames, heard, reported, posted, passed>>

\* on_read with a request: the router gets it and the next read is started.
OnReadRequest(s) ==
  /\ loop = "running"
  /\ s \in reading
  /\ conn[s] = "open"
  /\ heard[s] < MaxHeard
  /\ heard' = [heard EXCEPT ![s] = @ + 1]
  /\ UNCHANGED <<loop, wsAcceptor, wsIo, listed, lookup, errors, frames, reported, posted, passed>>

\* Mutant: the session goes on reading after an error.
OnReadEndAgain(s) ==
  /\ loop = "running"
  /\ s \in reading
  /\ conn[s] = "broken" /\ Len(errors) < 2
  /\ \E code \in Codes : errors' = Append(errors, [s |-> s, code |-> code])
  /\ reported' = reported \cup {s}
  /\ UNCHANGED <<loop, wsAcceptor, wsIo, listed, lookup, frames, heard, posted, passed>>

\* on_read with an error: closed ends the session silently, any other error
\* is sent to the router.  No read is started.
OnReadEnd(s) ==
  /\ loop = "running"
  /\ s \in reading
  /\ conn[s] \in {"closed", "broken"}
  /\ reading' = reading \ {s}
  /\ \/ conn[s] = "closed" /\ UNCHANGED <<errors, reported>>
     \/ /\ conn[s] = "broken"
        /\ \E code \in Codes : errors' = Append(errors, [s |-> s, code |-> code])
        /\ reported' = reported \cup {s}
  /\ UNCHANGED <<loop, wsAcceptor, conn, listed, strand, que, writes, sent, lookup, frames,
                 heard, posted, passed>>

\* The function that ws_session::write posts to the strand.
StrandWrite(s) ==
  /\ loop = "running"
  /\ strand[s] # <<>>
  /\ strand' = [strand EXCEPT ![s] = Tail(@)]
  /\ que' = [que EXCEPT ![s] = Append(@, Head(strand[s]))]
  /\ writes' = [writes EXCEPT ![s] = IF que[s] = <<>> THEN @ + 1 ELSE @]
  /\ UNCHANGED <<loop, wsAcceptor, conn, reading, sent, listed, lookup, errors, frames, heard,
                 reported, posted, passed>>

\* Mutant: the front of the queue is popped only when another frame waits.
OnWriteKeepsLast(s) ==
  /\ loop = "running"
  /\ writes[s] > 0
  /\ conn[s] = "open"
  /\ sent' = [sent EXCEPT ![s] = Append(@, Head(que[s]))]
  /\ que' = [que EXCEPT ![s] = IF Len(@) > 1 THEN Tail(@) ELSE @]
  /\ writes' = [writes EXCEPT ![s] = IF Len(que[s]) > 1 THEN @ ELSE @ - 1]
  /\ UNCHANGED <<loop, wsAcceptor, conn, reading, strand, listed, lookup, errors, frames, heard,
                 reported, posted, passed>>

\* Mutant: the next write is left to the next frame.
OnWriteStops(s) ==
  /\ loop = "running"
  /\ writes[s] > 0
  /\ writes' = [writes EXCEPT ![s] = @ - 1]
  /\ conn[s] = "open"
  /\ sent' = [sent EXCEPT ![s] = Append(@, Head(que[s]))]
  /\ que' = [que EXCEPT ![s] = Tail(@)]
  /\ UNCHANGED <<loop, wsAcceptor, conn, reading, strand, listed, lookup, errors, frames, heard,
                 reported, posted, passed>>

\* ws_session::on_write: a frame that was written leaves the queue and the
\* next write is started.  After an error the queue stays as it is.
OnWrite(s) ==
  /\ loop = "running"
  /\ writes[s] > 0
  /\ \/ /\ conn[s] = "open"
        /\ sent' = [sent EXCEPT ![s] = Append(@, Head(que[s]))]
        /\ que' = [que EXCEPT ![s] = Tail(@)]
        /\ writes' = [writes EXCEPT ![s] = IF Len(que[s]) > 1 THEN @ ELSE @ - 1]
     \/ /\ conn[s] # "open"
        /\ writes' = [writes EXCEPT ![s] = @ - 1]
        /\ UNCHANGED <<sent, que>>
  /\ UNCHANGED <<loop, wsAcceptor, conn, reading, strand, listed, lookup, errors, frames, heard,
                 reported, posted, passed>>

-----------------------------------------------------------------------------
(* The threads of the services. *)

\* The handler write begins, for a session whose id the services know from a
\* request of it.
Write(s) ==
  /\ loop = "running"
  /\ lookup = Idle
  /\ heard[s] > 0
  /\ frames < MaxFrames
  /\ frames' = frames + 1
  /\ lookup' = [s |-> s, frame |-> frames + 1, raced |-> FALSE]
  /\ UNCHANGED <<loop, wsAcceptor, wsIo, listed, errors, heard, reported, posted, passed>>

\* ws_listener::write: a session that is in the map gets the frame, the pipes
\* get it otherwise.
WriteDone ==
  /\ loop = "running"
  /\ lookup # Idle
  /\ LET s == lookup.s IN
       \/ /\ s \in listed
          /\ strand' = [strand EXCEPT ![s] = Append(@, lookup.frame)]
          /\ posted' = [posted EXCEPT ![s] = Append(@, lookup.frame)]
          /\ UNCHANGED passed
       \/ /\ s \notin listed \/ lookup.raced
          /\ passed' = passed \cup {lookup.frame}
          /\ UNCHANGED <<strand, posted>>
  /\ lookup' = Idle
  /\ UNCHANGED <<loop, wsAcceptor, conn, reading, que, writes, sent, listed, errors, frames,
                 heard, reported>>

\* Mutant: the router drops the other errors.
RouterErrorDrops ==
  /\ loop = "running"
  /\ lookup = Idle
  /\ errors # <<>>
  /\ errors' = Tail(errors)
  /\ listed' = IF Head(errors).code = "reset" THEN listed \ {Head(errors).s} ELSE listed
  /\ UNCHANGED <<loop, wsAcceptor, wsIo, lookup, frames, heard, reported, posted, passed>>

\* The router's error handler sends remove for a lost connection and close for
\* any other error; ws_listener::close closes the session and removes it.
RouterError ==
  /\ loop = "running"
  /\ lookup = Idle
  /\ errors # <<>>
  /\ errors' = Tail(errors)
  /\ LET s == Head(errors).s IN
       /\ listed' = listed \ {s}
       /\ conn' = IF Head(errors).code = "other" /\ s \in listed
                    THEN [conn EXCEPT ![s] = "closed"] ELSE conn
  /\ UNCHANGED <<loop, wsAcceptor, reading, strand, que, writes, sent, lookup, frames, heard,
                 reported, posted, passed>>

\* ws_listener::close_all, then the loop stops.
CloseAll ==
  /\ conn' = [s \in Sessions |-> IF s \in listed THEN "closed" ELSE conn[s]]
  /\ listed' = {}
  /\ lookup' = Idle
  /\ UNCHANGED <<wsAcceptor, reading, strand, que, writes, sent, errors, frames, heard,
                 reported, posted, passed>>

-----------------------------------------------------------------------------

WsNext(clients) ==
  \/ \E s \in clients :
       \/ OnAccept(s) \/ ConnectionEnds(s) \/ OnReadRequest(s)
       \/ OnHandshake(s) \/ OnReadEnd(s) \/ StrandWrite(s) \/ OnWrite(s)
       \/ Write(s)
  \/ WriteDone \/ RouterError

\* The loop runs every handler that is ready, and so does the router.
WsFairness ==
  /\ \A s \in Sessions : /\ WF_<<wsVars, loop>>(OnReadEnd(s))
                         /\ WF_<<wsVars, loop>>(StrandWrite(s))
                         /\ WF_<<wsVars, loop>>(OnWrite(s))
  /\ WF_<<wsVars, loop>>(WriteDone)
  /\ WF_<<wsVars, loop>>(RouterError)

-----------------------------------------------------------------------------
(* Properties *)

\* A session writes its frames in the order in which it was given them, none
\* twice and none left out, one write at a time and always the front of its
\* queue, although frames come from the services' threads and completions from
\* the loop.
SentInOrder ==
  \A s \in Sessions :
    /\ sent[s] \o que[s] \o strand[s] = posted[s]
    /\ writes[s] <= 1 /\ (writes[s] = 1 => que[s] # <<>>)

\* The sessions as the services see them.
Life(s) ==
  CASE conn[s] = "none"                             -> "new"
    [] conn[s] # "none" /\ s \notin listed          -> "gone"
    [] s \in listed /\ (s \in reading \/ conn[s] = "handshake") -> "open"
    [] OTHER                                        -> "dead"

Sessions_ == INSTANCE SessionLife WITH life <- [s \in Sessions |-> Life(s)]

\* The server keeps what ManagerServices and PlatformServices assume about
\* sessions (SessionLife).
ImplementsSessions == Sessions_!LifeSpec

\* A session whose error was reported leaves the map.
ReportedIsRemoved ==
  \A s \in Sessions : s \in reported ~> s \notin listed \/ loop # "running"

\* A frame that a session was given is written, as long as the connection is
\* open and the process runs: the queue does not stand still.
FramesAreSent ==
  \A s \in Sessions, f \in 1..MaxFrames :
    f \in Range(posted[s]) ~>
      f \in Range(sent[s]) \/ conn[s] # "open" \/ loop # "running"
=============================================================================
