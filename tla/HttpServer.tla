----------------------------- MODULE HttpServer -----------------------------
(***************************************************************************)
(* The HTTP server: listener, its sessions with their pipelines of         *)
(* responses, and the timer that ends them.  All of it runs on the thread  *)
(* of the io loop; every handler of a session on the session's strand.     *)
(* A session lives as long as an operation of it is under way.             *)
(***************************************************************************)
EXTENDS Naturals, Sequences, FiniteSets, IoLoop

CONSTANTS
  Clients,   \* the connections that HTTP clients open
  Limit,     \* queue::limit, 8 in the code
  MaxAsked,  \* bound: requests of one connection
  Files      \* the paths of the files below doc_root that can be opened

ASSUME HttpAssumption == Limit \in Nat \ {0} /\ MaxAsked \in Nat

VARIABLES
  httpAcceptor,  \* the acceptor of the listener
  socket,    \* socket[c]: the connection; "half" after shutdown_send
  reads,     \* reads[c]: the number of async_reads under way
  items,     \* items[c]: the queued responses
  busy,      \* busy[c]: the number of async_writes under way
  wait,      \* wait[c]: the async_wait of the timer; "ready": on_timer is next
  due,       \* due[c]: the deadline of the timer
  asked,     \* history: asked[c], the requests that were read
  answered,  \* history: answered[c], the responses that were written
  failed     \* history: the connections whose read ended with an error

httpVars == <<httpAcceptor, socket, reads, items, busy, wait, due, asked, answered, failed>>

\* The parts of a request that the server looks at.  A target "bad" is empty,
\* not absolute or contains ".."; "page" has no known extension.
Request == [method : {"GET", "HEAD", "other"}, target : {"bad", "page", "image"},
            host : {"absent", "plain", "manager"}, keep : BOOLEAN]

\* A response: the number of its request, its status, need_eof.
Response == [no : 1..MaxAsked, status : {200, 400, 404, 500}, close : BOOLEAN]

\* The queue of a session.
QueueType ==
  /\ items \in [Clients -> Seq(Response)]
  /\ busy \in [Clients -> 0..1]

HttpSessionType ==
  /\ socket \in [Clients -> {"none", "open", "half", "closed"}]
  /\ reads \in [Clients -> 0..1]
  /\ wait \in [Clients -> {"none", "pending", "ready"}]
  /\ due \in [Clients -> {"never", "armed", "passed"}]

HttpTypeOK ==
  /\ httpAcceptor \in AcceptorStates
  /\ QueueType /\ HttpSessionType
  /\ asked \in [Clients -> 0..MaxAsked]
  /\ answered \in [Clients -> Seq(Response)]
  /\ failed \subseteq Clients

HttpInit ==
  /\ httpAcceptor \in AcceptorStates
  /\ socket = [c \in Clients |-> "none"]
  /\ reads = [c \in Clients |-> 0] /\ busy = [c \in Clients |-> 0]
  /\ items = [c \in Clients |-> <<>>] /\ answered = [c \in Clients |-> <<>>]
  /\ wait = [c \in Clients |-> "none"] /\ due = [c \in Clients |-> "never"]
  /\ asked = [c \in Clients |-> 0]
  /\ failed = {}

-----------------------------------------------------------------------------
(* listener::operator(): what a request is answered with. *)

\* mime_type: a target without a known extension counts as a page.
IsPage(q) == q.target = "page"

\* The subdomain "manager" has a directory of its own, other hosts share one.
Root(q) == IF q.host = "manager" THEN "manager" ELSE "main"

\* path_cat of the root and the target, or of the root and /index.html.
Path(q) == <<Root(q), IF IsPage(q) THEN "index" ELSE q.target>>

\* A file that is not in Files is missing, or cannot be opened.
Statuses(q) ==
  IF q.method = "other" \/ q.target = "bad" THEN {400}
  ELSE IF Path(q) \in Files THEN {200} ELSE {404, 500}

\* req.at(host) throws when the request has no Host field; nothing catches it.
Throws(q) == q.method # "other" /\ q.target # "bad" /\ q.host = "absent"

-----------------------------------------------------------------------------
(* http_session *)

\* queue::is_full
IsFull(s) == Len(s) >= Limit

\* do_read: the deadline moves, which cancels the wait, and a read starts.
DoRead(c) ==
  /\ due' = [due EXCEPT ![c] = "armed"]
  /\ wait' = [wait EXCEPT ![c] = IF @ = "pending" THEN "ready" ELSE @]

\* run: the timer waits for a deadline that never comes, and the first do_read
\* moves it.
RunSession(c) ==
  /\ socket' = [socket EXCEPT ![c] = "open"]
  /\ reads' = [reads EXCEPT ![c] = 1]
  /\ due' = [due EXCEPT ![c] = "armed"]
  /\ wait' = [wait EXCEPT ![c] = "ready"]

\* on_accept: a session for the connection, and the next accept.
HttpAccept(c) ==
  /\ loop = "running"
  /\ httpAcceptor = "listening"
  /\ socket[c] = "none"
  /\ RunSession(c)
  /\ UNCHANGED <<loop, httpAcceptor, items, busy, asked, answered, failed>>

\* queue::operator(): the response is stored, and written if it is the first.
Push(c, r) ==
  /\ items' = [items EXCEPT ![c] = Append(@, r)]
  /\ busy' = [busy EXCEPT ![c] = IF items[c] = <<>> THEN @ + 1 ELSE @]

\* Mutant: the next request is read although the queue is full.
OnRequestAlways(c, q) ==
  /\ loop = "running"
  /\ reads[c] > 0 /\ socket[c] \in {"open", "half"} /\ asked[c] < MaxAsked
  /\ ~Throws(q)
  /\ asked' = [asked EXCEPT ![c] = @ + 1]
  /\ \E status \in Statuses(q) :
       Push(c, [no |-> asked[c] + 1, status |-> status, close |-> ~q.keep])
  /\ DoRead(c)
  /\ UNCHANGED <<loop, httpAcceptor, socket, reads, answered, failed>>

\* on_read with a request: it is answered at once, and unless the queue is
\* full now the next read starts.
OnRequest(c, q) ==
  /\ loop = "running"
  /\ reads[c] > 0 /\ socket[c] \in {"open", "half"} /\ asked[c] < MaxAsked
  /\ \/ Throws(q) /\ loop' = "crashed" /\ UNCHANGED httpVars
     \/ /\ ~Throws(q)
        /\ asked' = [asked EXCEPT ![c] = @ + 1]
        /\ \E status \in Statuses(q) :
             Push(c, [no |-> asked[c] + 1, status |-> status, close |-> ~q.keep])
        /\ \/ ~IsFull(items'[c]) /\ DoRead(c) /\ UNCHANGED reads
           \/ /\ IsFull(items'[c])
              /\ reads' = [reads EXCEPT ![c] = @ - 1]
              /\ UNCHANGED <<due, wait>>
        /\ UNCHANGED <<loop, httpAcceptor, socket, answered, failed>>

\* on_read after the client closed its side (do_close), after another error,
\* or after the timer closed the socket.
OnReadOver(c) ==
  /\ loop = "running"
  /\ reads[c] > 0
  /\ reads' = [reads EXCEPT ![c] = @ - 1]
  /\ \/ /\ socket[c] \in {"open", "half"}
        /\ socket' = [socket EXCEPT ![c] = "half"]
        /\ UNCHANGED failed
     \/ failed' = failed \cup {c} /\ UNCHANGED socket
  /\ UNCHANGED <<loop, httpAcceptor, items, busy, wait, due, asked, answered>>

\* queue::on_write: the response that was written leaves the queue, and the
\* next one, if any, is written.
Pop(c) ==
  /\ items' = [items EXCEPT ![c] = Tail(@)]
  /\ busy' = [busy EXCEPT ![c] = IF Len(items[c]) > 1 THEN @ ELSE @ - 1]

\* Mutant: the write that leaves the full queue does not start a read.
OnWrittenSilent(c) ==
  /\ loop = "running"
  /\ busy[c] > 0 /\ socket[c] = "open"
  /\ answered' = [answered EXCEPT ![c] = Append(@, Head(items[c]))]
  /\ Pop(c)
  /\ UNCHANGED <<loop, httpAcceptor, socket, reads, due, wait, asked, failed>>

\* Mutant: a response that closes the connection leaves the queue like others.
OnWrittenGoesOn(c) ==
  /\ loop = "running"
  /\ busy[c] > 0 /\ socket[c] = "open"
  /\ answered' = [answered EXCEPT ![c] = Append(@, Head(items[c]))]
  /\ Pop(c)
  /\ \/ ~IsFull(items[c]) /\ UNCHANGED <<reads, due, wait>>
     \/ IsFull(items[c]) /\ reads' = [reads EXCEPT ![c] = @ + 1] /\ DoRead(c)
  /\ UNCHANGED <<loop, httpAcceptor, socket, asked, failed>>

\* on_write: a response that asks for it closes the sending side and stays in
\* the queue; another one leaves it, the next is written, and the write that
\* leaves the full queue starts the read that was put off.
OnWritten(c) ==
  /\ loop = "running"
  /\ busy[c] > 0 /\ socket[c] = "open"
  /\ answered' = [answered EXCEPT ![c] = Append(@, Head(items[c]))]
  /\ \/ /\ Head(items[c]).close
        /\ socket' = [socket EXCEPT ![c] = "half"]
        /\ busy' = [busy EXCEPT ![c] = @ - 1]
        /\ UNCHANGED <<items, reads, due, wait>>
     \/ /\ ~Head(items[c]).close
        /\ Pop(c)
        /\ \/ ~IsFull(items[c]) /\ UNCHANGED <<reads, due, wait>>
           \/ IsFull(items[c]) /\ reads' = [reads EXCEPT ![c] = @ + 1] /\ DoRead(c)
        /\ UNCHANGED socket
  /\ UNCHANGED <<loop, httpAcceptor, asked, failed>>

\* on_write with an error: the connection is lost, or this side has closed it.
OnWriteFailed(c) ==
  /\ loop = "running"
  /\ busy[c] > 0
  /\ busy' = [busy EXCEPT ![c] = @ - 1]
  /\ UNCHANGED <<loop, httpAcceptor, socket, reads, items, wait, due, asked, answered, failed>>

\* Fifteen seconds pass since the last do_read.
TimePasses(c) ==
  /\ loop = "running"
  /\ due[c] = "armed"
  /\ due' = [due EXCEPT ![c] = "passed"]
  /\ wait' = [wait EXCEPT ![c] = IF @ = "pending" THEN "ready" ELSE @]
  /\ UNCHANGED <<loop, httpAcceptor, socket, reads, items, busy, asked, answered, failed>>

\* Mutant: a wait that was cancelled is not started again.
OnTimerCancelled(c) ==
  /\ loop = "running"
  /\ wait[c] = "ready"
  /\ wait' = [wait EXCEPT ![c] = "none"]
  /\ socket' = IF due[c] = "passed" THEN [socket EXCEPT ![c] = "closed"] ELSE socket
  /\ UNCHANGED <<loop, httpAcceptor, reads, items, busy, due, asked, answered, failed>>

\* on_timer: the deadline has passed and the socket is closed, or it has moved
\* and the timer waits again.
OnTimer(c) ==
  /\ loop = "running"
  /\ wait[c] = "ready"
  /\ \/ /\ due[c] = "passed"
        /\ socket' = [socket EXCEPT ![c] = "closed"]
        /\ wait' = [wait EXCEPT ![c] = "none"]
     \/ /\ due[c] # "passed"
        /\ wait' = [wait EXCEPT ![c] = "pending"]
        /\ UNCHANGED socket
  /\ UNCHANGED <<loop, httpAcceptor, reads, items, busy, due, asked, answered, failed>>

-----------------------------------------------------------------------------

HttpNext(clients) ==
  \E c \in clients :
    \/ HttpAccept(c)
    \/ \E q \in Request : OnRequest(c, q)
    \/ OnReadOver(c) \/ OnWritten(c) \/ OnWriteFailed(c)
    \/ TimePasses(c) \/ OnTimer(c)

\* The loop runs every handler that is ready, time passes, and an operation
\* on a socket that was closed completes.
HttpFairness ==
  \A c \in Clients :
    /\ WF_<<httpVars, loop>>(TimePasses(c))
    /\ WF_<<httpVars, loop>>(OnTimer(c))
    /\ WF_<<httpVars, loop>>(socket[c] = "closed" /\ OnReadOver(c))
    /\ WF_<<httpVars, loop>>(socket[c] = "closed" /\ OnWriteFailed(c))

-----------------------------------------------------------------------------
(* Properties *)

\* One read and one write at most are under way on a connection, and the
\* queue stays within its limit: reads are started by on_read and by on_write,
\* and must never both go on.
PipelineBounded ==
  \A c \in Clients :
    /\ reads[c] <= 1 /\ busy[c] <= 1
    /\ Len(items[c]) <= Limit

\* Requests are answered in the order in which they were read, each once, and
\* after a response that closes the connection nothing is written.
ResponsesInOrder ==
  \A c \in Clients : \A i \in DOMAIN answered[c] :
    /\ answered[c][i].no = i
    /\ answered[c][i].close => i = Len(answered[c])

\* A connection that is open both ways is being read unless the queue is full:
\* the read that a full queue puts off is not forgotten when it drains.
KeepsReading ==
  \A c \in Clients :
    socket[c] = "open" /\ c \notin failed =>
      reads[c] = 1 \/ IsFull(items[c])

Released(c) == reads[c] = 0 /\ busy[c] = 0 /\ wait[c] = "none"

\* No session is kept for ever: once the client falls silent, however the
\* connection ended, the timer closes it and every operation ends.
SessionReleased ==
  \A c \in Clients :
    socket[c] # "none" ~> Released(c) \/ loop # "running"
=============================================================================
