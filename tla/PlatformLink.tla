---------------------------- MODULE PlatformLink ----------------------------
(***************************************************************************)
(* The link of a manager to the platform: the client's ws_session, whose   *)
(* handlers run on the io thread, and the platform service, an actor that  *)
(* asks for the connection again when it is lost.  The two talk through    *)
(* the inbox of the service and through the strand of the session.         *)
(*                                                                         *)
(* Boost.Asio and Beast are external: an operation that was started        *)
(* completes once, with an error when the connection it used is down.      *)
(***************************************************************************)
EXTENDS Naturals, Sequences

CONSTANTS
  Data,       \* what the manager writes for the clients of the platform
  MaxEpochs,  \* bound: connections in one behaviour
  MaxOps,     \* bound: attempts to connect in one behaviour
  MaxInbox    \* bound: messages of the platform waiting for the service

ASSUME LinkAssumption ==
  /\ MaxEpochs \in Nat
  /\ MaxOps \in Nat \ {0}
  /\ MaxInbox \in Nat
  /\ Data \cap {"handshake", "gone", "failed", "request", "disconnect",
               "refusal", "response", "connect", "closing"} = {}

VARIABLES
  ops,       \* the operations of the connect and read chain outstanding
  attempts,  \* the number of calls of run
  up,        \* the websocket is open
  epoch,     \* how many times it has been opened
  inbox,     \* the messages for the platform service
  asleep,    \* the service is in the ten seconds' sleep of its error handler
  posted,    \* writes posted to the strand that have not run
  que,       \* _que of the session
  writes,    \* the epochs of the async_write operations outstanding
  sent,      \* <<e, x>>: x was written completely in epoch e
  accepted,  \* history: everything given to write, in order
  unsent,    \* the Data that has not been given to write
  closing,   \* closing_message is set
  stops      \* how many times main_loop()->stop() was called

vars == <<ops, attempts, up, epoch, inbox, asleep, posted, que, writes, sent,
          accepted, unsent, closing, stops>>

\* After stop no handler of the io thread runs.
stopped == stops > 0

Chain == {"resolve", "connect", "handshake", "read"}

\* What the session and ws_listener send to the service: the websocket is
\* open; an operation failed because the other side is gone, or otherwise;
\* a message of the platform of one of four kinds; data to write.
Events == {"handshake", "gone", "failed", "request", "disconnect", "refusal",
           "response"}

\* managers.connect, the text of closing_message, or data.
Writes == {"connect", "closing"} \cup Data

TypeOK ==
  /\ ops \in Seq(Chain)
  /\ attempts \in 0..MaxOps
  /\ up \in BOOLEAN
  /\ epoch \in 0..MaxEpochs
  /\ inbox \in Seq(Events \cup Data)
  /\ asleep \in BOOLEAN
  /\ posted \in Seq(Writes)
  /\ que \in Seq(Writes)
  /\ writes \in Seq(0..MaxEpochs)
  /\ sent \in Seq((1..MaxEpochs) \X Writes)
  /\ accepted \in Seq(Writes)
  /\ unsent \subseteq Data
  /\ closing \in BOOLEAN
  /\ stops \in 0..2

\* ws_client::startup has called run.
Init ==
  /\ ops = <<"resolve">>
  /\ attempts = 1
  /\ up = FALSE
  /\ epoch = 0
  /\ inbox = <<>>
  /\ asleep = FALSE
  /\ posted = <<>>
  /\ que = <<>>
  /\ writes = <<>>
  /\ sent = <<>>
  /\ accepted = <<>>
  /\ unsent = Data
  /\ closing = FALSE
  /\ stops = 0

-----------------------------------------------------------------------------
(* The chain resolve, connect, handshake, read of the session. *)

chain == <<ops, attempts, up, epoch>>
service == <<inbox, asleep, unsent, closing>>
output == <<posted, que, writes, sent, accepted>>

\* The first outstanding operation of kind o completes; then is started.
Completes(o, then) ==
  /\ ~stopped
  /\ \E i \in DOMAIN ops :
       /\ ops[i] = o
       /\ ops' = SubSeq(ops, 1, i - 1) \o SubSeq(ops, i + 1, Len(ops)) \o then

Tell(e) == inbox' = Append(inbox, e)

\* A name that is not found ends the chain, and nobody is told.
OnResolve ==
  /\ Completes("resolve", <<"connect">>) \/ Completes("resolve", <<>>)
  /\ UNCHANGED <<attempts, up, epoch, service, output, stops>>

OnConnect ==
  /\ \/ Completes("connect", <<"handshake">>) /\ UNCHANGED inbox
     \/ Completes("connect", <<>>) /\ \E e \in {"gone", "failed"} : Tell(e)
  /\ UNCHANGED <<attempts, up, epoch, asleep, unsent, closing, output, stops>>

\* A failed handshake ends the chain, and nobody is told.
OnHandshake ==
  /\ \/ /\ epoch < MaxEpochs
        /\ Completes("handshake", <<"read">>)
        /\ up' = TRUE
        /\ epoch' = epoch + 1
        /\ Tell("handshake")
     \/ Completes("handshake", <<>>) /\ UNCHANGED <<up, epoch, inbox>>
  /\ UNCHANGED <<attempts, asleep, unsent, closing, output, stops>>

\* A message of the platform, or the error of a websocket that is not open.
OnRead ==
  /\ \/ /\ up
        /\ Len(inbox) < MaxInbox
        /\ Completes("read", <<"read">>)
        /\ \E e \in {"request", "disconnect", "refusal", "response"} : Tell(e)
     \/ /\ ~up
        /\ Completes("read", <<>>)
        /\ \E e \in {"gone", "failed"} : Tell(e)
  /\ UNCHANGED <<attempts, up, epoch, asleep, unsent, closing, output, stops>>

\* The connection breaks.
Break ==
  /\ up
  /\ up' = FALSE
  /\ UNCHANGED <<ops, attempts, epoch, service, output, stops>>

-----------------------------------------------------------------------------
(* Writing: write posts to the strand, where the queue is used. *)

Write(x) ==
  /\ posted' = Append(posted, x)
  /\ accepted' = Append(accepted, x)

\* Mutant: the write is started whether or not one is under way.
StrandWriteAlways ==
  /\ ~stopped
  /\ posted # <<>>
  /\ posted' = Tail(posted)
  /\ que' = Append(que, Head(posted))
  /\ writes' = Append(writes, epoch)
  /\ UNCHANGED <<chain, service, sent, accepted, stops>>

\* The posted function: queue the string, start the write if none is under way.
StrandWrite ==
  /\ ~stopped
  /\ posted # <<>>
  /\ posted' = Tail(posted)
  /\ que' = Append(que, Head(posted))
  /\ writes' = IF que = <<>> THEN Append(writes, epoch) ELSE writes
  /\ UNCHANGED <<chain, service, sent, accepted, stops>>

\* Mutant: a failed write is told to the service, as a failed read is.
OnWriteTells ==
  /\ ~stopped
  /\ writes # <<>>
  /\ \/ /\ up /\ Head(writes) = epoch
        /\ sent' = Append(sent, <<epoch, Head(que)>>)
        /\ que' = Tail(que)
        /\ writes' = IF Tail(que) = <<>> THEN Tail(writes)
                     ELSE Append(Tail(writes), epoch)
        /\ UNCHANGED inbox
     \/ /\ ~up \/ Head(writes) # epoch
        /\ writes' = Tail(writes)
        /\ Tell("gone")
        /\ UNCHANGED <<que, sent>>
  /\ UNCHANGED <<chain, asleep, unsent, closing, posted, accepted, stops>>

\* Mutant: the queue is popped before the error is looked at.
OnWritePopsFirst ==
  /\ ~stopped
  /\ writes # <<>>
  /\ que' = Tail(que)
  /\ \/ /\ up /\ Head(writes) = epoch
        /\ sent' = Append(sent, <<epoch, Head(que)>>)
        /\ writes' = IF Tail(que) = <<>> THEN Tail(writes)
                     ELSE Append(Tail(writes), epoch)
     \/ /\ ~up \/ Head(writes) # epoch
        /\ writes' = Tail(writes)
        /\ UNCHANGED sent
  /\ UNCHANGED <<chain, service, posted, accepted, stops>>

\* Mutant: the error code is not looked at.
OnWriteIgnoresError ==
  /\ ~stopped
  /\ writes # <<>>
  /\ sent' = Append(sent, <<epoch, Head(que)>>)
  /\ que' = Tail(que)
  /\ writes' = IF Tail(que) = <<>> THEN Tail(writes)
               ELSE Append(Tail(writes), epoch)
  /\ UNCHANGED <<chain, service, posted, accepted, stops>>

\* The oldest write completes.  It succeeds on the connection it was started
\* on only, and then the next one is started; an error is logged, no more.
OnWrite ==
  /\ ~stopped
  /\ writes # <<>>
  /\ \/ /\ up /\ Head(writes) = epoch
        /\ sent' = Append(sent, <<epoch, Head(que)>>)
        /\ que' = Tail(que)
        /\ writes' = IF Tail(que) = <<>> THEN Tail(writes)
                     ELSE Append(Tail(writes), epoch)
     \/ /\ ~up \/ Head(writes) # epoch
        /\ writes' = Tail(writes)
        /\ UNCHANGED <<que, sent>>
  /\ UNCHANGED <<chain, service, posted, accepted, stops>>

-----------------------------------------------------------------------------
(* The platform service. *)

Takes(e) ==
  /\ ~asleep
  /\ inbox # <<>>
  /\ Head(inbox) = e
  /\ inbox' = Tail(inbox)

\* handshake: ask the platform to connect this manager.
Handshake ==
  /\ Takes("handshake")
  /\ Write("connect")
  /\ UNCHANGED <<chain, asleep, unsent, closing, que, writes, sent, stops>>

\* dispatcher: a request goes to the router.
DispatchRequest ==
  /\ Takes("request")
  /\ UNCHANGED <<chain, asleep, unsent, closing, output, stops>>

\* dispatcher: a disconnect request or an error closes the websocket.
DispatchClose ==
  /\ Takes("disconnect") \/ Takes("refusal")
  /\ up' = FALSE
  /\ UNCHANGED <<ops, attempts, epoch, asleep, unsent, closing, output, stops>>

\* dispatcher: any response is taken for that to managers.connect.
DispatchResponse ==
  /\ Takes("response")
  /\ closing' = TRUE
  /\ UNCHANGED <<chain, asleep, unsent, output, stops>>

\* error: the other side is gone, sleep on the worker thread.
ErrorGone ==
  /\ Takes("gone")
  /\ asleep' = TRUE
  /\ UNCHANGED <<chain, unsent, closing, output, stops>>

\* error: after the sleep, reconnect, which calls run again.
Reconnect ==
  /\ asleep
  /\ attempts < MaxOps
  /\ asleep' = FALSE
  /\ ops' = Append(ops, "resolve")
  /\ attempts' = attempts + 1
  /\ UNCHANGED <<up, epoch, inbox, unsent, closing, output, stops>>

\* error: anything else closes the websocket.
ErrorOther ==
  /\ Takes("failed")
  /\ up' = FALSE
  /\ UNCHANGED <<ops, attempts, epoch, asleep, unsent, closing, output, stops>>

\* ws_listener::write for a session it does not know.
Submit(x) ==
  /\ x \in unsent
  /\ unsent' = unsent \ {x}
  /\ Tell(x)
  /\ UNCHANGED <<chain, asleep, closing, output, stops>>

\* write: add the id of the session and hand over to the client, in whatever
\* state the link is.
WriteData ==
  /\ \E x \in Data : Takes(x) /\ Write(x)
  /\ UNCHANGED <<chain, asleep, unsent, closing, que, writes, sent, stops>>

\* dynamic_environment::shutdown: ws_client::shutdown, then stop.  The handler
\* of the signal calls it on the io thread, and startup once more when run has
\* returned.
Shutdown ==
  /\ stops < 2
  /\ stops' = stops + 1
  /\ \/ closing /\ Write("closing") /\ UNCHANGED up
     \/ ~closing /\ up' = FALSE /\ UNCHANGED <<posted, accepted>>
  /\ UNCHANGED <<ops, attempts, epoch, service, que, writes, sent>>

-----------------------------------------------------------------------------

IoStep ==
  OnResolve \/ OnConnect \/ OnHandshake \/ OnRead \/ StrandWrite \/ OnWrite

ServiceStep ==
  \/ Handshake \/ DispatchRequest \/ DispatchClose \/ DispatchResponse
  \/ ErrorGone \/ Reconnect \/ ErrorOther \/ WriteData

Next ==
  \/ IoStep \/ ServiceStep
  \/ Break \/ Shutdown
  \/ \E x \in Data : Submit(x)

Spec == Init /\ [][Next]_vars

\* The io thread runs what has been posted and what has completed, and the
\* service runs.  The messages of the platform are not fair.
Fairness ==
  /\ WF_vars(StrandWrite) /\ WF_vars(OnWrite)
  /\ WF_vars(ServiceStep)

FairSpec == Spec /\ Fairness

-----------------------------------------------------------------------------
(* Properties *)

\* The failures of an operation that are on their way to the service.
Failures == {i \in DOMAIN inbox : inbox[i] \in {"gone", "failed"}}

\* The link has one chain: an operation outstanding, its failure on its way
\* to the service, or the sleep before the reconnect, never two of them.
OneChain ==
  /\ Len(ops) <= 1
  /\ \A i, j \in Failures : i = j
  /\ ops # <<>> => Failures = {} /\ ~asleep
  /\ asleep => Failures = {}

\* Beast allows one async_write at a time, and its buffer is the front of the
\* queue: never two, and none for an empty queue, across reconnects too.
OneWrite == Len(writes) <= 1 /\ (writes # <<>> => que # <<>>)

\* What was written, without the connections it was written to.
Texts(s) == [i \in DOMAIN s |-> s[i][2]]

\* Nothing given to write is lost, doubled or reordered in the session: it
\* has been sent, is queued, or is on its way to the strand, in this order.
WritesInOrder == accepted = Texts(sent) \o que \o posted

\* platform.cpp: the handshake handler sends the command that connects the
\* manager.  Each time the websocket opens, the command is written to it,
\* unless it closes again or the process is stopped.
ConnectCommandSent ==
  \A e \in 1..MaxEpochs :
    (up /\ epoch = e) ~>
      \/ ~up \/ epoch # e \/ stopped
      \/ \E i \in DOMAIN sent : sent[i] = <<e, "connect">>
=============================================================================
