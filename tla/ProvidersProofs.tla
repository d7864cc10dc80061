--------------------------- MODULE ProvidersProofs ---------------------------
(***************************************************************************)
(* Theorems about the servers on the io loop, for any number of            *)
(* connections, any limit of the pipeline and any bounds: the order of the *)
(* frames and of the responses, the bounds and the progress of a pipeline, *)
(* and that the websocket server implements SessionLife.                   *)
(***************************************************************************)
EXTENDS Providers, SequenceTheorems, TLAPS

Frames == 1..MaxFrames

\* The frames of the sessions.
FrameType ==
  /\ strand \in [Sessions -> Seq(Frames)]
  /\ que \in [Sessions -> Seq(Frames)]
  /\ posted \in [Sessions -> Seq(Frames)]
  /\ sent \in [Sessions -> Seq(Frames)]
  /\ writes \in [Sessions -> 0..1]
  /\ frames \in 0..MaxFrames

\* A service's thread that is in write has a frame for a session.
LookupType ==
  lookup # Idle => lookup.s \in Sessions /\ lookup.frame \in Frames

\* The frames keep their order only because the frame that a completed write
\* records is the front of a queue that is not empty.
FrameInv == FrameType /\ LookupType /\ SentInOrder

\* The front of the queue becomes the end of what has been sent.
LEMMA MoveFront ==
  ASSUME NEW t \in Seq(Frames), NEW q \in Seq(Frames), NEW p \in Seq(Frames), q # <<>>
  PROVE  Append(t, Head(q)) \o Tail(q) \o p = t \o q \o p
  <1>1. Append(t, Head(q)) = t \o <<Head(q)>>
    BY AppendIsConcat, HeadTailProperties
  <1>2. (t \o <<Head(q)>>) \o Tail(q) \o p = t \o q \o p
    BY SMTT(60)
  <1> QED BY <1>1, <1>2

\* The front of what is posted becomes the end of the queue.
LEMMA MovePosted ==
  ASSUME NEW t \in Seq(Frames), NEW q \in Seq(Frames), NEW p \in Seq(Frames), p # <<>>
  PROVE  t \o Append(q, Head(p)) \o Tail(p) = t \o q \o p
  <1>1. Append(q, Head(p)) = q \o <<Head(p)>>
    BY AppendIsConcat, HeadTailProperties
  <1>2. t \o (q \o <<Head(p)>>) \o Tail(p) = t \o q \o p
    BY SMTT(60)
  <1> QED BY <1>1, <1>2

\* A frame that a session is given is posted.
LEMMA AppendPosted ==
  ASSUME NEW t \in Seq(Frames), NEW q \in Seq(Frames), NEW p \in Seq(Frames), NEW x \in Frames
  PROVE  t \o q \o Append(p, x) = Append(t \o q \o p, x)
  <1>1. t \o q \in Seq(Frames) /\ t \o q \o p \in Seq(Frames) /\ <<x>> \in Seq(Frames)
    BY ConcatProperties
  <1>2. Append(t \o q \o p, x) = (t \o q \o p) \o <<x>>
    BY <1>1, AppendIsConcat
  <1>3. Append(p, x) = p \o <<x>>
    BY AppendIsConcat
  <1>4. ((t \o q) \o p) \o <<x>> = (t \o q) \o (p \o <<x>>)
    BY <1>1, ConcatAssociative, SMTT(60)
  <1> QED BY <1>2, <1>3, <1>4

\* What SentInOrder says about one session.
InOrder(s) ==
  /\ sent[s] \o que[s] \o strand[s] = posted[s]
  /\ writes[s] <= 1 /\ (writes[s] = 1 => que[s] # <<>>)

LEMMA FrameInit == Init => FrameInv
  <1> SUFFICES ASSUME Init PROVE FrameInv
    OBVIOUS
  <1>1. WsInit
    BY DEF Init
  <1>2. <<>> \in Seq(Frames) /\ 0 \in 0..1 /\ 0 \in 0..MaxFrames
    BY WsAssumption
  <1>3. FrameType
    BY <1>1, <1>2 DEF WsInit, FrameType
  <1>4. LookupType
    BY <1>1 DEF WsInit, LookupType
  <1>5. SentInOrder
    <2>1. <<>> \o <<>> \o <<>> = <<>>
      OBVIOUS
    <2>2. ASSUME NEW s \in Sessions
          PROVE  /\ sent[s] = <<>> /\ que[s] = <<>> /\ strand[s] = <<>> /\ posted[s] = <<>>
                 /\ writes[s] = 0
      BY <1>1 DEF WsInit
    <2>3. ASSUME NEW s \in Sessions PROVE InOrder(s)
      <3>1. sent[s] \o que[s] \o strand[s] = posted[s]
        BY <2>1, <2>2, Zenon
      <3>2. writes[s] <= 1 /\ writes[s] # 1
        BY <2>2
      <3> QED BY <3>1, <3>2 DEF InOrder
    <2> QED BY <2>3 DEF SentInOrder, InOrder
  <1> QED BY <1>3, <1>4, <1>5 DEF FrameInv


LEMMA StrandWriteFrames ==
  ASSUME FrameInv, NEW s \in Sessions, StrandWrite(s)
  PROVE  FrameInv'
  <1>1. /\ strand[s] \in Seq(Frames) /\ que[s] \in Seq(Frames) /\ sent[s] \in Seq(Frames)
        /\ strand[s] # <<>>
        /\ writes[s] \in 0..1
    BY DEF FrameInv, FrameType, StrandWrite
  <1>2. Head(strand[s]) \in Frames /\ Tail(strand[s]) \in Seq(Frames)
    BY <1>1
  <1>3. InOrder(s)
    BY DEF FrameInv, SentInOrder, InOrder
  <1>4. que[s] = <<>> => writes[s] = 0
    BY <1>1, <1>3 DEF InOrder
  <1>5. Append(que[s], Head(strand[s])) \in Seq(Frames) /\ Append(que[s], Head(strand[s])) # <<>>
    BY <1>1, <1>2
  <1>6. FrameType'
    <2>1. (IF que[s] = <<>> THEN writes[s] + 1 ELSE writes[s]) \in 0..1
      BY <1>1, <1>4
    <2>2. strand' \in [Sessions -> Seq(Frames)]
      BY <1>2 DEF FrameInv, FrameType, StrandWrite
    <2>3. que' \in [Sessions -> Seq(Frames)]
      BY <1>5 DEF FrameInv, FrameType, StrandWrite
    <2>4. writes' \in [Sessions -> 0..1]
      BY <2>1 DEF FrameInv, FrameType, StrandWrite
    <2> QED BY <2>2, <2>3, <2>4 DEF FrameInv, FrameType, StrandWrite
  <1>7. /\ strand'[s] = Tail(strand[s])
        /\ que'[s] = Append(que[s], Head(strand[s]))
        /\ UNCHANGED <<sent, posted, lookup>>
        /\ \A u \in Sessions \ {s} : /\ strand'[u] = strand[u] /\ que'[u] = que[u]
                                     /\ writes'[u] = writes[u]
    BY DEF FrameInv, FrameType, StrandWrite
  <1>8. sent'[s] \o que'[s] \o strand'[s] = posted'[s]
    <2>1. sent[s] \o Append(que[s], Head(strand[s])) \o Tail(strand[s])
            = sent[s] \o que[s] \o strand[s]
      BY <1>1, MovePosted
    <2>2. sent[s] \o que[s] \o strand[s] = posted[s]
      BY <1>3 DEF InOrder
    <2> QED BY <1>7, <2>1, <2>2
  <1>9. SentInOrder'
    <2> SUFFICES ASSUME NEW u \in Sessions PROVE InOrder(u)'
      BY DEF SentInOrder, InOrder
    <2>1. CASE u = s
      <3>1. writes'[s] <= 1
        <4>1. writes'[s] \in 0..1
          BY <1>6 DEF FrameType
        <4> QED BY <4>1
      <3> QED BY <1>5, <1>7, <1>8, <2>1, <3>1 DEF InOrder
    <2>2. CASE u # s
      BY <1>7, <2>2 DEF FrameInv, SentInOrder, InOrder
    <2> QED BY <2>1, <2>2
  <1> QED BY <1>6, <1>7, <1>9 DEF FrameInv, LookupType

LEMMA OnWriteFrames ==
  ASSUME FrameInv, NEW s \in Sessions, OnWrite(s)
  PROVE  FrameInv'
  <1>1. /\ strand[s] \in Seq(Frames) /\ que[s] \in Seq(Frames) /\ sent[s] \in Seq(Frames)
        /\ writes[s] = 1
    BY DEF FrameInv, FrameType, OnWrite
  <1>2. InOrder(s)
    BY DEF FrameInv, SentInOrder, InOrder
  <1>3. que[s] # <<>>
    BY <1>1, <1>2 DEF InOrder
  <1>4. Head(que[s]) \in Frames /\ Tail(que[s]) \in Seq(Frames)
    BY <1>1, <1>3
  <1>5. /\ UNCHANGED <<strand, posted, lookup, frames>>
        /\ \A u \in Sessions \ {s} : /\ sent'[u] = sent[u] /\ que'[u] = que[u]
                                     /\ writes'[u] = writes[u]
    BY DEF FrameInv, FrameType, OnWrite
  <1>6. CASE /\ sent' = [sent EXCEPT ![s] = Append(@, Head(que[s]))]
             /\ que' = [que EXCEPT ![s] = Tail(@)]
             /\ writes' = [writes EXCEPT ![s] = IF Len(que[s]) > 1 THEN @ ELSE @ - 1]
    <2>1. sent'[s] = Append(sent[s], Head(que[s])) /\ que'[s] = Tail(que[s])
      BY <1>6 DEF FrameInv, FrameType
    <2>2. writes'[s] = IF Len(que[s]) > 1 THEN 1 ELSE 0
      BY <1>1, <1>6 DEF FrameInv, FrameType
    <2>3. Len(que[s]) > 1 => Tail(que[s]) # <<>>
      <3>1. Len(Tail(que[s])) = Len(que[s]) - 1 /\ Len(que[s]) \in Nat
        BY <1>1, <1>3
      <3>2. Len(<<>>) = 0
        OBVIOUS
      <3>3. \A n \in Nat : n > 1 => n - 1 # 0
        OBVIOUS
      <3> QED BY <3>1, <3>2, <3>3, Zenon
    <2>4. sent'[s] \o que'[s] \o strand'[s] = posted'[s]
      <3>1. Append(sent[s], Head(que[s])) \o Tail(que[s]) \o strand[s]
              = sent[s] \o que[s] \o strand[s]
        BY <1>1, <1>3, MoveFront
      <3>2. sent[s] \o que[s] \o strand[s] = posted[s]
        BY <1>2 DEF InOrder
      <3> QED BY <1>5, <2>1, <3>1, <3>2
    <2>5. InOrder(s)'
      <3>1. writes'[s] <= 1 /\ (writes'[s] = 1 => que'[s] # <<>>)
        BY <2>1, <2>2, <2>3
      <3> QED BY <2>4, <3>1 DEF InOrder
    <2>6. Append(sent[s], Head(que[s])) \in Seq(Frames)
      BY <1>1, <1>4
    <2>7. FrameType'
      <3>1. sent' \in [Sessions -> Seq(Frames)]
        BY <1>6, <2>6 DEF FrameInv, FrameType
      <3>2. que' \in [Sessions -> Seq(Frames)]
        BY <1>4, <1>6 DEF FrameInv, FrameType
      <3>3. writes' \in [Sessions -> 0..1]
        BY <1>1, <1>6 DEF FrameInv, FrameType
      <3> QED BY <1>5, <3>1, <3>2, <3>3 DEF FrameInv, FrameType
    <2>8. SentInOrder'
      <3> SUFFICES ASSUME NEW u \in Sessions PROVE InOrder(u)'
        BY DEF SentInOrder, InOrder
      <3>1. CASE u # s
        BY <1>5, <3>1 DEF FrameInv, SentInOrder, InOrder
      <3> QED BY <2>5, <3>1
    <2> QED BY <1>5, <2>7, <2>8 DEF FrameInv, LookupType
  <1>7. CASE writes' = [writes EXCEPT ![s] = @ - 1] /\ UNCHANGED <<sent, que>>
    <2>1. FrameType' /\ writes'[s] = 0
      BY <1>1, <1>5, <1>7 DEF FrameInv, FrameType
    <2>2. SentInOrder'
      <3> SUFFICES ASSUME NEW u \in Sessions PROVE InOrder(u)'
        BY DEF SentInOrder, InOrder
      <3>1. CASE u # s
        BY <1>5, <3>1 DEF FrameInv, SentInOrder, InOrder
      <3>2. CASE u = s
        <4>1. sent'[s] \o que'[s] \o strand'[s] = posted'[s]
          BY <1>2, <1>5, <1>7 DEF InOrder
        <4>2. writes'[s] <= 1 /\ (writes'[s] = 1 => que'[s] # <<>>)
          BY <2>1
        <4> QED BY <3>2, <4>1, <4>2 DEF InOrder
      <3> QED BY <3>1, <3>2
    <2> QED BY <1>5, <2>1, <2>2 DEF FrameInv, LookupType
  <1> QED BY <1>6, <1>7 DEF OnWrite

LEMMA WriteDoneFrames ==
  ASSUME FrameInv, WriteDone
  PROVE  FrameInv'
  <1> DEFINE s == lookup.s
             x == lookup.frame
  <1>1. s \in Sessions /\ x \in Frames
    BY DEF FrameInv, LookupType, WriteDone
  <1>2. UNCHANGED <<que, writes, sent, frames>> /\ LookupType'
    BY DEF WriteDone, LookupType
  <1>3. /\ strand[s] \in Seq(Frames) /\ que[s] \in Seq(Frames) /\ sent[s] \in Seq(Frames)
        /\ posted[s] \in Seq(Frames)
    BY <1>1 DEF FrameInv, FrameType
  <1>4. CASE UNCHANGED <<strand, posted>>
    BY <1>2, <1>4 DEF FrameInv, FrameType, SentInOrder
  <1>5. CASE /\ strand' = [strand EXCEPT ![s] = Append(@, x)]
             /\ posted' = [posted EXCEPT ![s] = Append(@, x)]
    <2>1. Append(strand[s], x) \in Seq(Frames) /\ Append(posted[s], x) \in Seq(Frames)
      BY <1>1, <1>3
    <2>2. FrameType'
      BY <1>2, <1>5, <2>1 DEF FrameInv, FrameType
    <2>3. /\ strand'[s] = Append(strand[s], x) /\ posted'[s] = Append(posted[s], x)
          /\ \A u \in Sessions \ {s} : strand'[u] = strand[u] /\ posted'[u] = posted[u]
      BY <1>1, <1>5 DEF FrameInv, FrameType
    <2>4. sent'[s] \o que'[s] \o strand'[s] = posted'[s]
      <3>1. sent[s] \o que[s] \o Append(strand[s], x) = Append(sent[s] \o que[s] \o strand[s], x)
        BY <1>1, <1>3, AppendPosted, ZenonT(60)
      <3>2. sent[s] \o que[s] \o strand[s] = posted[s]
        BY <1>1 DEF FrameInv, SentInOrder
      <3> QED BY <1>2, <2>3, <3>1, <3>2
    <2>5. SentInOrder'
      <3> SUFFICES ASSUME NEW u \in Sessions PROVE InOrder(u)'
        BY DEF SentInOrder, InOrder
      <3>1. /\ writes'[u] <= 1 /\ (writes'[u] = 1 => que'[u] # <<>>)
        BY <1>2 DEF FrameInv, SentInOrder
      <3>2. sent'[u] \o que'[u] \o strand'[u] = posted'[u]
        <4>1. CASE u = s
          BY <2>4, <4>1
        <4>2. CASE u # s
          BY <1>2, <2>3, <4>2 DEF FrameInv, SentInOrder
        <4> QED BY <4>1, <4>2
      <3> QED BY <3>1, <3>2 DEF InOrder
    <2> QED BY <1>2, <2>2, <2>5 DEF FrameInv
  <1> QED BY <1>4, <1>5 DEF WriteDone

\* The steps that leave the frames of the sessions alone.
LEMMA FramesUnchanged ==
  ASSUME FrameInv, UNCHANGED <<strand, que, writes, sent, posted>>,
         frames' \in 0..MaxFrames, LookupType'
  PROVE  FrameInv'
  BY DEF FrameInv, FrameType, SentInOrder

LEMMA WriteFrames ==
  ASSUME FrameInv, NEW s \in Sessions, Write(s)
  PROVE  FrameInv'
  <1>1. frames' = frames + 1 /\ frames' \in Frames
    BY WsAssumption DEF FrameInv, FrameType, Write, Frames
  <1>2. frames' \in 0..MaxFrames
    BY <1>1 DEF Frames
  <1>3. lookup'.s = s /\ lookup'.frame = frames'
    BY <1>1 DEF Write
  <1>4. LookupType'
    BY <1>1, <1>3 DEF LookupType
  <1>5. UNCHANGED <<strand, que, writes, sent, posted>>
    BY DEF Write, wsIo
  <1> QED BY <1>2, <1>4, <1>5, FramesUnchanged

\* on_accept of the listener may mark the lookup of a service's thread.
LEMMA AcceptFrames ==
  ASSUME FrameInv, NEW s \in Sessions, OnAccept(s)
  PROVE  FrameInv'
  <1>1. LookupType'
    <2>1. CASE lookup = Idle
      <3>1. lookup' = Idle
        BY <2>1 DEF OnAccept, Idle
      <3> QED BY <3>1 DEF LookupType, Idle
    <2>2. CASE lookup # Idle
      <3>1. lookup.s \in Sessions /\ lookup.frame \in Frames
        BY <2>2 DEF FrameInv, LookupType
      <3>2. lookup' = [lookup EXCEPT !.raced = TRUE]
        BY <2>2 DEF OnAccept
      <3>3. lookup'.s = lookup.s /\ lookup'.frame = lookup.frame
        BY <3>2
      <3> QED BY <3>1, <3>3 DEF LookupType
    <2> QED BY <2>1, <2>2
  <1>2. UNCHANGED <<strand, que, writes, sent, posted, frames>>
    BY DEF OnAccept
  <1> QED BY <1>1, <1>2, FramesUnchanged DEF FrameInv, FrameType

LEMMA FrameStep == FrameInv /\ [Next]_vars => FrameInv'
  <1> SUFFICES ASSUME FrameInv, [Next]_vars PROVE FrameInv'
    OBVIOUS
  <1>0. CASE UNCHANGED <<strand, que, writes, sent, posted, frames>>
             /\ (UNCHANGED lookup \/ lookup' = Idle)
    <2>1. LookupType'
      BY <1>0 DEF FrameInv, LookupType, Idle
    <2> QED BY <1>0, <2>1, FramesUnchanged DEF FrameInv, FrameType
  <1>1. CASE WsNext(load \cap Sessions)
    <2>1. ASSUME NEW s \in Sessions, ConnectionEnds(s) \/ OnHandshake(s) \/ OnReadEnd(s)
          PROVE  FrameInv'
      BY <1>0, <2>1 DEF ConnectionEnds, OnHandshake, OnReadEnd
    <2>2. ASSUME NEW s \in Sessions, OnReadRequest(s) PROVE FrameInv'
      BY <1>0, <2>2 DEF OnReadRequest, wsIo
    <2>3. CASE RouterError
      BY <1>0, <2>3 DEF RouterError
    <2> QED
      BY <1>1, <2>1, <2>2, <2>3, StrandWriteFrames, OnWriteFrames, WriteDoneFrames,
         WriteFrames, AcceptFrames
      DEF WsNext
  <1>2. CASE Stop
    BY <1>0, <1>2 DEF Stop, CloseAll
  <1>3. CASE UNCHANGED wsVars
    BY <1>0, <1>3 DEF wsVars, wsIo
  <1> QED BY <1>1, <1>2, <1>3 DEF Next, vars

\* A session of the websocket server writes the frames it is given in their
\* order, none twice and none left out, whatever the threads of the services
\* post while the completions of earlier writes run on the loop.
THEOREM FramesKeepOrder == Spec => []SentInOrder
  <1>1. FrameInv => SentInOrder
    BY DEF FrameInv
  <1> QED BY FrameInit, FrameStep, <1>1, PTL DEF Spec

-----------------------------------------------------------------------------
(* The pipelines of the HTTP server. *)

PipeType ==
  /\ items \in [Clients -> Seq(Response)]
  /\ answered \in [Clients -> Seq(Response)]
  /\ busy \in [Clients -> 0..1]
  /\ reads \in [Clients -> 0..1]
  /\ asked \in [Clients -> 0..MaxAsked]
  /\ socket \in [Clients -> {"none", "open", "half", "closed"}]

\* A connection that was not accepted has no pipeline.
Unused(c) ==
  socket[c] = "none" => /\ reads[c] = 0 /\ busy[c] = 0 /\ asked[c] = 0
                        /\ items[c] = <<>> /\ answered[c] = <<>>

\* A write has a response to write; a read has room for the response it brings.
Room(c) ==
  /\ busy[c] = 1 => items[c] # <<>>
  /\ Len(items[c]) <= Limit
  /\ reads[c] = 1 => Len(items[c]) < Limit

\* KeepsReading, for one connection.
Reading(c) ==
  socket[c] = "open" /\ c \notin failed => reads[c] = 1 \/ IsFull(items[c])

\* The queue holds the responses to the last requests, in their order.
Queued(c) ==
  \A i \in DOMAIN items[c] : items[c][i].no + Len(items[c]) = asked[c] + i

\* As long as the connection is open both ways every request is answered or
\* queued, and no response that closes the connection has been written.
Counted(c) ==
  socket[c] = "open" => Len(answered[c]) + Len(items[c]) = asked[c]

Numbered(c) ==
  \A i \in DOMAIN answered[c] :
    /\ answered[c][i].no = i
    /\ answered[c][i].close => i = Len(answered[c]) /\ socket[c] # "open"

Pipe(c) ==
  Unused(c) /\ Room(c) /\ Reading(c) /\ Queued(c) /\ Counted(c) /\ Numbered(c)

\* The bounds alone are not inductive: that on_read and on_write never start
\* two reads rests on the room a read has, and the order of what is written
\* on the numbers of what is queued.
PipeInv == PipeType /\ \A c \in Clients : Pipe(c)

\* The value types of one connection.
LEMMA PipeTypeOf ==
  ASSUME PipeType, NEW c \in Clients
  PROVE  /\ items[c] \in Seq(Response) /\ answered[c] \in Seq(Response)
         /\ Len(items[c]) \in Nat /\ Len(answered[c]) \in Nat
         /\ busy[c] \in 0..1 /\ reads[c] \in 0..1
         /\ asked[c] \in 0..MaxAsked /\ asked[c] \in Nat
         /\ socket[c] \in {"none", "open", "half", "closed"}
  BY HttpAssumption DEF PipeType

LEMMA PipeInit == Init => PipeInv
  <1> SUFFICES ASSUME Init PROVE PipeInv
    OBVIOUS
  <1>1. HttpInit
    BY DEF Init
  <1>2. <<>> \in Seq(Response) /\ 0 \in 0..1 /\ 0 \in 0..MaxAsked
    BY HttpAssumption
  <1>3. PipeType
    BY <1>1, <1>2 DEF HttpInit, PipeType
  <1>4. ASSUME NEW c \in Clients PROVE Pipe(c)
    <2>1. /\ items[c] = <<>> /\ answered[c] = <<>> /\ reads[c] = 0 /\ busy[c] = 0
          /\ asked[c] = 0 /\ socket[c] = "none"
      BY <1>1 DEF HttpInit
    <2>2. Len(<<>>) = 0 /\ DOMAIN <<>> = {}
      OBVIOUS
    <2>3. Room(c)
      <3>1. 0 <= Limit
        BY HttpAssumption
      <3>2. busy[c] # 1 /\ reads[c] # 1
        BY <2>1
      <3> QED BY <2>1, <2>2, <3>1, <3>2 DEF Room
    <2> QED BY <2>1, <2>2, <2>3 DEF Pipe, Unused, Reading, Queued, Counted, Numbered
  <1> QED BY <1>3, <1>4 DEF PipeInv

\* A step of connection c leaves the other connections alone.
LEMMA PipeFrame ==
  ASSUME PipeInv, PipeType', NEW c \in Clients, Pipe(c)',
         \A u \in Clients \ {c} :
           /\ items'[u] = items[u] /\ answered'[u] = answered[u]
           /\ busy'[u] = busy[u] /\ reads'[u] = reads[u]
           /\ asked'[u] = asked[u] /\ socket'[u] = socket[u]
           /\ u \in failed' <=> u \in failed
  PROVE  PipeInv'
  <1>1. ASSUME NEW u \in Clients \ {c} PROVE Pipe(u)'
    <2>1. Pipe(u)
      BY DEF PipeInv
    <2>2. /\ items'[u] = items[u] /\ answered'[u] = answered[u]
          /\ busy'[u] = busy[u] /\ reads'[u] = reads[u]
          /\ asked'[u] = asked[u] /\ socket'[u] = socket[u]
      OBVIOUS
    <2>4. Unused(u)' /\ Room(u)' /\ Counted(u)'
      BY <2>1, <2>2 DEF Pipe, Unused, Room, Counted
    <2>5. Queued(u)' /\ Numbered(u)'
      BY <2>1, <2>2, Zenon DEF Pipe, Queued, Numbered
    <2>3. Reading(u)'
      BY <2>1, <2>2 DEF Pipe, Reading, IsFull
    <2> QED BY <2>3, <2>4, <2>5 DEF Pipe
  <1> QED BY <1>1 DEF PipeInv

LEMMA AcceptPipe ==
  ASSUME PipeInv, NEW c \in Clients, HttpAccept(c)
  PROVE  PipeInv'
  <1>1. PipeType /\ Pipe(c)
    BY DEF PipeInv
  <1>2. /\ socket' = [socket EXCEPT ![c] = "open"]
        /\ reads' = [reads EXCEPT ![c] = 1]
        /\ UNCHANGED <<items, busy, asked, answered, failed>>
        /\ socket[c] = "none"
    BY DEF HttpAccept, RunSession
  <1>3. PipeType'
    BY <1>1, <1>2 DEF PipeType
  <1>4. /\ socket'[c] = "open" /\ reads'[c] = 1 /\ busy'[c] = 0 /\ asked'[c] = 0
        /\ items'[c] = <<>> /\ answered'[c] = <<>>
    BY <1>1, <1>2 DEF PipeType, Pipe, Unused
  <1>5. Len(<<>>) = 0 /\ DOMAIN <<>> = {} /\ 0 <= Limit /\ 0 < Limit /\ 0 + 0 = 0
    BY HttpAssumption
  <1>6. Pipe(c)'
    <2>1. busy'[c] # 1
      BY <1>4
    <2>2. Room(c)'
      BY <1>4, <1>5, <2>1 DEF Room
    <2> QED BY <1>4, <1>5, <2>2 DEF Pipe, Unused, Reading, Queued, Counted, Numbered
  <1>7. \A u \in Clients \ {c} : reads'[u] = reads[u] /\ socket'[u] = socket[u]
    BY <1>1, <1>2 DEF PipeType
  <1> QED BY <1>2, <1>3, <1>6, <1>7, PipeFrame

LEMMA ReadOverPipe ==
  ASSUME PipeInv, NEW c \in Clients, OnReadOver(c)
  PROVE  PipeInv'
  <1>1. PipeType /\ Pipe(c)
    BY DEF PipeInv
  <1>2. /\ reads' = [reads EXCEPT ![c] = @ - 1]
        /\ reads[c] > 0
        /\ UNCHANGED <<items, busy, asked, answered>>
    BY DEF OnReadOver
  <1>3. reads[c] = 1 /\ reads'[c] = 0
    BY <1>1, <1>2, PipeTypeOf DEF PipeType
  <1>4. \/ socket' = [socket EXCEPT ![c] = "half"] /\ UNCHANGED failed
        \/ failed' = failed \cup {c} /\ UNCHANGED socket
    BY DEF OnReadOver
  <1>5. PipeType'
    <2>1. reads' \in [Clients -> 0..1]
      BY <1>1, <1>2, <1>3 DEF PipeType
    <2>2. socket' \in [Clients -> {"none", "open", "half", "closed"}]
      BY <1>1, <1>4 DEF PipeType
    <2> QED BY <1>1, <1>2, <2>1, <2>2 DEF PipeType
  <1>6. socket[c] # "none"
    BY <1>1, <1>3 DEF Pipe, Unused
  <1>7. /\ socket'[c] # "none"
        /\ socket'[c] = "open" => socket[c] = "open" /\ c \in failed'
    BY <1>1, <1>4, <1>6 DEF PipeType
  <1>8. Pipe(c)'
    <2>1. Room(c)'
      BY <1>1, <1>2, <1>3 DEF Pipe, Room
    <2> QED BY <1>1, <1>2, <1>7, <2>1 DEF Pipe, Unused, Reading, Queued, Counted, Numbered
  <1>9. \A u \in Clients \ {c} :
          reads'[u] = reads[u] /\ socket'[u] = socket[u] /\ (u \in failed' <=> u \in failed)
    BY <1>1, <1>2, <1>4 DEF PipeType
  <1> QED BY <1>2, <1>5, <1>8, <1>9, PipeFrame

LEMMA WriteFailedPipe ==
  ASSUME PipeInv, NEW c \in Clients, OnWriteFailed(c)
  PROVE  PipeInv'
  <1>1. PipeType /\ Pipe(c)
    BY DEF PipeInv
  <1>2. /\ busy' = [busy EXCEPT ![c] = @ - 1]
        /\ busy[c] > 0
        /\ UNCHANGED <<socket, reads, items, asked, answered, failed>>
    BY DEF OnWriteFailed
  <1>3. busy[c] = 1 /\ busy'[c] = 0
    BY <1>1, <1>2, PipeTypeOf DEF PipeType
  <1>4. PipeType'
    BY <1>1, <1>2, <1>3 DEF PipeType
  <1>5. socket[c] # "none"
    BY <1>1, <1>3 DEF Pipe, Unused
  <1>6. Pipe(c)'
    <2>1. Room(c)'
      BY <1>1, <1>2, <1>3 DEF Pipe, Room
    <2> QED BY <1>1, <1>2, <1>5, <2>1 DEF Pipe, Unused, Reading, Queued, Counted, Numbered
  <1>7. \A u \in Clients \ {c} : busy'[u] = busy[u]
    BY <1>1, <1>2 DEF PipeType
  <1> QED BY <1>2, <1>4, <1>6, <1>7, PipeFrame

LEMMA TimerPipe ==
  ASSUME PipeInv, NEW c \in Clients, OnTimer(c)
  PROVE  PipeInv'
  <1>1. PipeType /\ Pipe(c)
    BY DEF PipeInv
  <1>2. UNCHANGED <<reads, items, busy, asked, answered, failed>>
    BY DEF OnTimer
  <1>3. CASE UNCHANGED socket
    BY <1>2, <1>3 DEF PipeInv, PipeType, Pipe, Unused, Room, Reading, Queued, Counted,
                      Numbered, IsFull
  <1>4. CASE socket' = [socket EXCEPT ![c] = "closed"]
    <2>1. PipeType' /\ socket'[c] = "closed"
      BY <1>1, <1>2, <1>4 DEF PipeType
    <2>2. Pipe(c)'
      BY <1>1, <1>2, <2>1 DEF Pipe, Unused, Room, Reading, Queued, Counted, Numbered
    <2>3. \A u \in Clients \ {c} : socket'[u] = socket[u]
      BY <1>1, <1>4 DEF PipeType
    <2> QED BY <1>2, <2>1, <2>2, <2>3, PipeFrame
  <1> QED BY <1>3, <1>4 DEF OnTimer

\* Head(items[c]) is the next to be written, and it is the next one by number.
LEMMA FrontOfPipe ==
  ASSUME PipeInv, NEW c \in Clients, busy[c] > 0, socket[c] = "open"
  PROVE  /\ busy[c] = 1 /\ items[c] # <<>> /\ Len(items[c]) > 0
         /\ Head(items[c]) \in Response /\ Tail(items[c]) \in Seq(Response)
         /\ Head(items[c]).no = Len(answered[c]) + 1
  <1>1. PipeType /\ Pipe(c)
    BY DEF PipeInv
  <1>2. busy[c] = 1 /\ items[c] \in Seq(Response)
    BY <1>1, PipeTypeOf
  <1>3. items[c] # <<>>
    BY <1>1, <1>2 DEF Pipe, Room
  <1>4. /\ Head(items[c]) \in Response /\ Tail(items[c]) \in Seq(Response)
        /\ 1 \in DOMAIN items[c] /\ Head(items[c]) = items[c][1] /\ Len(items[c]) > 0
    BY <1>2, <1>3
  <1>5. items[c][1].no + Len(items[c]) = asked[c] + 1
    BY <1>1, <1>4 DEF Pipe, Queued
  <1>6. Len(answered[c]) + Len(items[c]) = asked[c]
    BY <1>1 DEF Pipe, Counted
  <1>7. \A r \in Response : r.no \in Nat
    BY DEF Response
  <1>8. Len(items[c]) \in Nat /\ Len(answered[c]) \in Nat /\ asked[c] \in Nat
    BY <1>1, PipeTypeOf
  <1>9. items[c][1].no = Len(answered[c]) + 1
    <2>1. items[c][1].no \in Nat
      BY <1>4, <1>7
    <2>2. PICK n \in Nat, m \in Nat, a \in Nat, k \in Nat :
            n = items[c][1].no /\ m = Len(items[c]) /\ a = asked[c] /\ k = Len(answered[c])
      BY <1>8, <2>1, Zenon
    <2>3. n + m = a + 1 /\ k + m = a
      BY <1>5, <1>6, <2>2, Zenon
    <2>4. n = k + 1
      BY <2>3
    <2> QED BY <2>2, <2>4, Zenon
  <1> QED BY <1>2, <1>3, <1>4, <1>9

\* What has been written stays numbered when the next response is added.
LEMMA NumberedNext ==
  ASSUME PipeInv, NEW c \in Clients, NEW r \in Response, socket[c] = "open",
         r.no = Len(answered[c]) + 1,
         answered' = [answered EXCEPT ![c] = Append(@, r)],
         r.close => socket'[c] # "open"
  PROVE  /\ Numbered(c)'
         /\ answered' \in [Clients -> Seq(Response)]
         /\ Len(answered'[c]) = Len(answered[c]) + 1
         /\ \A u \in Clients \ {c} : answered'[u] = answered[u]
  <1>1. PipeType /\ Pipe(c) /\ answered[c] \in Seq(Response) /\ Len(answered[c]) \in Nat
    BY PipeTypeOf DEF PipeInv
  <1> DEFINE n == Len(answered[c])
  <1>2. /\ Append(answered[c], r) \in Seq(Response)
        /\ Len(Append(answered[c], r)) = n + 1
        /\ DOMAIN Append(answered[c], r) = 1..(n + 1)
        /\ DOMAIN answered[c] = 1..n
        /\ Append(answered[c], r)[n + 1] = r
        /\ \A i \in 1..n : Append(answered[c], r)[i] = answered[c][i]
    BY <1>1
  <1>3. answered'[c] = Append(answered[c], r)
    BY <1>1 DEF PipeType
  <1>4. ASSUME NEW i \in DOMAIN answered'[c]
        PROVE  /\ answered'[c][i].no = i
               /\ answered'[c][i].close => i = Len(answered'[c]) /\ socket'[c] # "open"
    <2>1. CASE i = n + 1
      BY <1>2, <1>3, <2>1
    <2>2. CASE i # n + 1
      <3>1. i \in 1..n
        <4>1. i \in 1..(n + 1)
          BY <1>2, <1>3
        <4> QED BY <1>1, <2>2, <4>1
      <3>2. answered'[c][i] = answered[c][i] /\ i \in DOMAIN answered[c]
        BY <1>2, <1>3, <3>1
      <3>3. answered[c][i].no = i /\ ~answered[c][i].close
        BY <1>1, <3>2 DEF Pipe, Numbered
      <3> QED BY <3>2, <3>3
    <2> QED BY <2>1, <2>2
  <1>5. Numbered(c)'
    BY <1>4 DEF Numbered
  <1> QED BY <1>1, <1>2, <1>3, <1>5 DEF PipeType

LEMMA WrittenPipe ==
  ASSUME PipeInv, NEW c \in Clients, OnWritten(c)
  PROVE  PipeInv'
  <1>1. PipeType /\ Pipe(c) /\ socket[c] = "open" /\ busy[c] > 0
    BY DEF PipeInv, OnWritten
  <1> DEFINE r == Head(items[c])
             rest == Tail(items[c])
  <1>2. /\ busy[c] = 1 /\ items[c] # <<>> /\ Len(items[c]) > 0
        /\ r \in Response /\ rest \in Seq(Response) /\ r.no = Len(answered[c]) + 1
    BY <1>1, FrontOfPipe
  <1>3. answered' = [answered EXCEPT ![c] = Append(@, r)] /\ UNCHANGED <<asked, failed>>
    BY DEF OnWritten
  <1>4. /\ items[c] \in Seq(Response) /\ Len(items[c]) \in Nat /\ Len(answered[c]) \in Nat
        /\ reads[c] \in 0..1 /\ asked[c] \in Nat
    BY <1>1, PipeTypeOf
  <1> HIDE DEF r, rest
  <1>5. CASE /\ socket' = [socket EXCEPT ![c] = "half"]
             /\ busy' = [busy EXCEPT ![c] = @ - 1]
             /\ UNCHANGED <<items, reads>>
    <2>1. socket'[c] = "half" /\ busy'[c] = 0
      BY <1>1, <1>2, <1>5 DEF PipeType
    <2>2. /\ Numbered(c)'
          /\ answered' \in [Clients -> Seq(Response)]
          /\ \A u \in Clients \ {c} : answered'[u] = answered[u]
      BY <1>1, <1>2, <1>3, <2>1, NumberedNext
    <2>3. PipeType'
      BY <1>1, <1>2, <1>3, <1>5, <2>2 DEF PipeType
    <2>4. Room(c)'
      BY <1>1, <1>5, <2>1 DEF Pipe, Room
    <2>5. Pipe(c)'
      BY <1>1, <1>3, <1>5, <2>1, <2>2, <2>4 DEF Pipe, Unused, Reading, Queued, Counted
    <2>6. \A u \in Clients \ {c} : socket'[u] = socket[u] /\ busy'[u] = busy[u]
      BY <1>1, <1>5 DEF PipeType
    <2> QED BY <1>3, <1>5, <2>2, <2>3, <2>5, <2>6, PipeFrame
  <1>6. CASE /\ ~r.close
             /\ Pop(c)
             /\ \/ ~IsFull(items[c]) /\ UNCHANGED reads
                \/ IsFull(items[c]) /\ reads' = [reads EXCEPT ![c] = @ + 1]
             /\ UNCHANGED socket
    <2>1. /\ items' = [items EXCEPT ![c] = rest]
          /\ busy' = [busy EXCEPT ![c] = IF Len(items[c]) > 1 THEN @ ELSE @ - 1]
      BY <1>6 DEF Pop, rest
    <2>2. items'[c] = rest /\ busy'[c] = IF Len(items[c]) > 1 THEN 1 ELSE 0
      BY <1>1, <1>2, <2>1 DEF PipeType
    <2>3. /\ Len(rest) = Len(items[c]) - 1 /\ DOMAIN rest = 1..(Len(items[c]) - 1)
          /\ \A i \in DOMAIN rest : rest[i] = items[c][i + 1] /\ i + 1 \in DOMAIN items[c]
      BY <1>2, <1>4 DEF rest
    <2>4. /\ Numbered(c)'
          /\ answered' \in [Clients -> Seq(Response)]
          /\ Len(answered'[c]) = Len(answered[c]) + 1
          /\ \A u \in Clients \ {c} : answered'[u] = answered[u]
      BY <1>1, <1>2, <1>3, <1>6, NumberedNext
    <2>5. Len(items[c]) <= Limit /\ (reads[c] = 1 => Len(items[c]) < Limit)
      BY <1>1 DEF Pipe, Room
    <2>6. IsFull(items[c]) => Len(items[c]) = Limit /\ reads[c] = 0
      BY <1>4, <2>5, HttpAssumption DEF IsFull
    <2>7. reads'[c] \in 0..1 /\ reads' \in [Clients -> 0..1]
      <3>1. CASE UNCHANGED reads
        BY <1>1, <1>4, <3>1 DEF PipeType
      <3>2. CASE IsFull(items[c]) /\ reads' = [reads EXCEPT ![c] = @ + 1]
        <4>1. reads[c] + 1 \in 0..1
          BY <2>6, <3>2
        <4> QED BY <1>1, <3>2, <4>1 DEF PipeType
      <3> QED BY <1>6, <3>1, <3>2
    <2>8. PipeType'
      <3>1. busy' \in [Clients -> 0..1]
        BY <1>1, <1>2, <2>1 DEF PipeType
      <3>2. items' \in [Clients -> Seq(Response)]
        BY <1>1, <1>2, <2>1 DEF PipeType
      <3> QED BY <1>1, <1>3, <1>6, <2>4, <2>7, <3>1, <3>2 DEF PipeType
    <2>9. Room(c)'
      <3>1. Len(rest) < Limit
        BY <1>2, <1>4, <2>3, <2>5, HttpAssumption
      <3>2. busy'[c] = 1 => rest # <<>>
        <4>1. busy'[c] = 1 => Len(rest) # 0
          <5>1. CASE Len(items[c]) > 1
            <6>1. \A n \in Nat : n > 1 => n - 1 # 0
              OBVIOUS
            <6> QED BY <1>4, <2>3, <5>1, <6>1
          <5>2. CASE ~(Len(items[c]) > 1)
            BY <2>2, <5>2
          <5> QED BY <5>1, <5>2
        <4>2. Len(<<>>) = 0
          OBVIOUS
        <4> QED BY <4>1, <4>2
      <3>3. Len(rest) <= Limit
        BY <1>4, <2>3, <3>1, HttpAssumption
      <3> QED BY <2>2, <3>1, <3>2, <3>3 DEF Room
    <2>10. Reading(c)'
      <3>1. c \notin failed' => reads'[c] = 1
        <4>1. CASE IsFull(items[c])
          <5>1. reads' = [reads EXCEPT ![c] = @ + 1] /\ reads[c] = 0
            BY <1>6, <2>6, <4>1
          <5> QED BY <1>1, <5>1 DEF PipeType
        <4>2. CASE ~IsFull(items[c])
          BY <1>1, <1>3, <1>6, <4>2 DEF Pipe, Reading
        <4> QED BY <4>1, <4>2
      <3> QED BY <3>1 DEF Reading
    <2>11. Queued(c)'
      <3> SUFFICES ASSUME NEW i \in DOMAIN rest
                   PROVE  rest[i].no + Len(rest) = asked[c] + i
        BY <1>3, <2>2 DEF Queued
      <3>1. rest[i] = items[c][i + 1] /\ i + 1 \in DOMAIN items[c] /\ i \in Nat
        BY <1>4, <2>3
      <3>2. items[c][i + 1].no + Len(items[c]) = asked[c] + (i + 1)
        BY <1>1, <3>1 DEF Pipe, Queued
      <3>3. items[c][i + 1].no \in Nat
        <4>1. \A q \in Response : q.no \in Nat
          BY DEF Response
        <4>2. items[c][i + 1] \in Response
          BY <1>4, <3>1
        <4> QED BY <4>1, <4>2
      <3>4. PICK n \in Nat, l \in Nat, a \in Nat, k \in Nat :
              n = items[c][i + 1].no /\ l = Len(items[c]) /\ a = asked[c] /\ k = i
        BY <1>4, <3>1, <3>3, Zenon
      <3>5. items[c][i + 1].no + (Len(items[c]) - 1) = asked[c] + i
        <4>1. n + l = a + (k + 1)
          BY <3>2, <3>4, Zenon
        <4>2. n + (l - 1) = a + k
          BY <4>1
        <4> QED BY <3>4, <4>2, Zenon
      <3> QED BY <2>3, <3>1, <3>5
    <2>12. Counted(c)'
      <3>1. Len(answered[c]) + Len(items[c]) = asked[c]
        BY <1>1 DEF Pipe, Counted
      <3>2. PICK n \in Nat, l \in Nat, a \in Nat :
              n = Len(answered[c]) /\ l = Len(items[c]) /\ a = asked[c]
        BY <1>4, Zenon
      <3>3. (Len(answered[c]) + 1) + (Len(items[c]) - 1) = asked[c]
        <4>1. n + l = a
          BY <3>1, <3>2, Zenon
        <4>2. (n + 1) + (l - 1) = a
          BY <4>1
        <4> QED BY <3>2, <4>2, Zenon
      <3> QED BY <1>3, <2>2, <2>3, <2>4, <3>3 DEF Counted
    <2>13. Unused(c)'
      BY <1>1, <1>6 DEF Unused
    <2>14. Pipe(c)'
      BY <2>4, <2>9, <2>10, <2>11, <2>12, <2>13 DEF Pipe
    <2>15. \A u \in Clients \ {c} :
             items'[u] = items[u] /\ busy'[u] = busy[u] /\ reads'[u] = reads[u]
      BY <1>1, <1>6, <2>1 DEF PipeType
    <2> QED BY <1>3, <1>6, <2>4, <2>8, <2>14, <2>15, PipeFrame
  <1> QED BY <1>5, <1>6 DEF OnWritten, r

LEMMA RequestPipe ==
  ASSUME PipeInv, NEW c \in Clients, NEW q \in Request, OnRequest(c, q), ~Throws(q)
  PROVE  PipeInv'
  <1>1. PipeType /\ Pipe(c)
    BY DEF PipeInv
  <1>2. /\ items[c] \in Seq(Response) /\ Len(items[c]) \in Nat /\ Len(answered[c]) \in Nat
        /\ reads[c] \in 0..1 /\ busy[c] \in 0..1 /\ asked[c] \in Nat
    BY <1>1, PipeTypeOf
  <1>3. /\ reads[c] > 0 /\ socket[c] \in {"open", "half"} /\ asked[c] < MaxAsked
        /\ asked' = [asked EXCEPT ![c] = @ + 1]
        /\ UNCHANGED <<socket, answered, failed>>
    BY DEF OnRequest
  <1>4. reads[c] = 1 /\ Len(items[c]) < Limit
    <2>1. reads[c] = 1
      BY <1>2, <1>3
    <2> QED BY <1>1, <2>1 DEF Pipe, Room
  <1>5. PICK status \in Statuses(q) :
          Push(c, [no |-> asked[c] + 1, status |-> status, close |-> ~q.keep])
    BY DEF OnRequest
  <1> DEFINE r == [no |-> asked[c] + 1, status |-> status, close |-> ~q.keep]
             new == Append(items[c], r)
  <1>6. r \in Response /\ r.no = asked[c] + 1
    <2>1. status \in {200, 400, 404, 500}
      BY DEF Statuses
    <2>2. asked[c] + 1 \in 1..MaxAsked
      BY <1>2, <1>3, HttpAssumption
    <2>3. (~q.keep) \in BOOLEAN
      OBVIOUS
    <2> QED BY <2>1, <2>2, <2>3 DEF Response
  <1>7. /\ items' = [items EXCEPT ![c] = new]
        /\ busy' = [busy EXCEPT ![c] = IF items[c] = <<>> THEN @ + 1 ELSE @]
    BY <1>5 DEF Push
  <1> HIDE DEF r
  <1>8. /\ new \in Seq(Response) /\ Len(new) = Len(items[c]) + 1
        /\ DOMAIN new = 1..(Len(items[c]) + 1) /\ DOMAIN items[c] = 1..Len(items[c])
        /\ new[Len(items[c]) + 1] = r
        /\ \A i \in 1..Len(items[c]) : new[i] = items[c][i]
        /\ new # <<>>
    BY <1>2, <1>6
  <1> HIDE DEF new
  <1>9. items'[c] = new /\ asked'[c] = asked[c] + 1
    BY <1>1, <1>3, <1>7 DEF PipeType
  <1>10. \/ ~IsFull(new) /\ UNCHANGED reads
         \/ IsFull(new) /\ reads' = [reads EXCEPT ![c] = @ - 1]
    <2>1. \/ ~IsFull(items'[c]) /\ UNCHANGED reads
          \/ IsFull(items'[c]) /\ reads' = [reads EXCEPT ![c] = @ - 1]
      BY DEF OnRequest
    <2> QED BY <1>9, <2>1
  <1>11. /\ ~IsFull(new) => reads'[c] = 1
         /\ IsFull(new) => reads'[c] = 0
    BY <1>1, <1>4, <1>10 DEF PipeType
  <1>12. PipeType'
    <2>1. asked' \in [Clients -> 0..MaxAsked]
      <3>1. asked[c] + 1 \in 0..MaxAsked
        BY <1>2, <1>3, HttpAssumption
      <3> QED BY <1>1, <1>3, <3>1 DEF PipeType
    <2>2. items' \in [Clients -> Seq(Response)]
      BY <1>1, <1>7, <1>8 DEF PipeType
    <2>3. busy' \in [Clients -> 0..1]
      <3>1. items[c] = <<>> => busy[c] = 0
        BY <1>1, <1>2 DEF Pipe, Room
      <3>2. (IF items[c] = <<>> THEN busy[c] + 1 ELSE busy[c]) \in 0..1
        BY <1>2, <3>1
      <3> QED BY <1>1, <1>7, <3>2 DEF PipeType
    <2>4. reads' \in [Clients -> 0..1]
      <3>1. reads[c] - 1 \in 0..1
        BY <1>4
      <3> QED BY <1>1, <1>10, <3>1 DEF PipeType
    <2> QED BY <1>1, <1>3, <2>1, <2>2, <2>3, <2>4 DEF PipeType
  <1>13. Room(c)'
    <2>1. Len(new) <= Limit
      BY <1>2, <1>4, <1>8, HttpAssumption
    <2>2. reads'[c] = 1 => Len(new) < Limit
      <3>1. ~IsFull(new) => Len(new) < Limit
        BY <1>2, <1>8, HttpAssumption DEF IsFull
      <3>2. reads'[c] = 1 => ~IsFull(new)
        BY <1>11
      <3> QED BY <3>1, <3>2
    <2> QED BY <1>8, <1>9, <2>1, <2>2 DEF Room
  <1>14. Reading(c)'
    BY <1>9, <1>11 DEF Reading, IsFull
  <1>15. Queued(c)'
    <2> SUFFICES ASSUME NEW i \in DOMAIN new
                 PROVE  new[i].no + Len(new) = (asked[c] + 1) + i
      BY <1>9 DEF Queued
    <2>1. PICK l \in Nat, a \in Nat : l = Len(items[c]) /\ a = asked[c]
      BY <1>2, Zenon
    <2>2. i \in 1..(l + 1) /\ Len(new) = l + 1
      BY <1>8, <2>1, Zenon
    <2>3. CASE i = l + 1
      <3>1. new[i].no = a + 1
        BY <1>6, <1>8, <2>1, <2>3
      <3>2. (a + 1) + (l + 1) = (a + 1) + i
        BY <2>3
      <3> QED BY <2>1, <2>2, <3>1, <3>2, Zenon
    <2>4. CASE i # l + 1
      <3>1. i \in 1..l
        BY <2>2, <2>4
      <3>2. new[i] = items[c][i] /\ i \in DOMAIN items[c]
        BY <1>8, <2>1, <3>1, Zenon
      <3>3. items[c][i].no + l = a + i
        BY <1>1, <2>1, <3>2 DEF Pipe, Queued
      <3>4. PICK n \in Nat : n = items[c][i].no
        <4>1. items[c][i] \in Response
          BY <1>2, <3>2
        <4> QED BY <4>1 DEF Response
      <3>5. n + l = a + i
        BY <3>3, <3>4, Zenon
      <3>6. n + (l + 1) = (a + 1) + i
        BY <3>1, <3>5
      <3> QED BY <2>1, <2>2, <3>2, <3>4, <3>6, Zenon
    <2> QED BY <2>3, <2>4
  <1>16. Counted(c)'
    <2>1. PICK l \in Nat, a \in Nat, k \in Nat :
            l = Len(items[c]) /\ a = asked[c] /\ k = Len(answered[c])
      BY <1>2, Zenon
    <2>2. socket[c] = "open" => k + l = a
      BY <1>1, <2>1 DEF Pipe, Counted
    <2>3. socket[c] = "open" => k + (l + 1) = a + 1
      BY <2>2
    <2> QED BY <1>3, <1>8, <1>9, <2>1, <2>3 DEF Counted
  <1>17. Unused(c)' /\ Numbered(c)'
    BY <1>1, <1>3 DEF Pipe, Unused, Numbered
  <1>18. Pipe(c)'
    BY <1>13, <1>14, <1>15, <1>16, <1>17 DEF Pipe
  <1>19. \A u \in Clients \ {c} :
           /\ items'[u] = items[u] /\ busy'[u] = busy[u] /\ reads'[u] = reads[u]
           /\ asked'[u] = asked[u]
    BY <1>1, <1>3, <1>7, <1>10 DEF PipeType
  <1> QED BY <1>3, <1>12, <1>18, <1>19, PipeFrame

LEMMA PipeStep == PipeInv /\ [Next]_vars => PipeInv'
  <1> SUFFICES ASSUME PipeInv, [Next]_vars PROVE PipeInv'
    OBVIOUS
  <1>0. CASE UNCHANGED <<items, answered, busy, reads, asked, socket, failed>>
    BY <1>0 DEF PipeInv, PipeType, Pipe, Unused, Room, Reading, Queued, Counted, Numbered,
                IsFull
  <1>1. CASE HttpNext(load \cap Clients)
    <2>1. ASSUME NEW c \in Clients, TimePasses(c) PROVE PipeInv'
      BY <1>0, <2>1 DEF TimePasses
    <2>2. ASSUME NEW c \in Clients, NEW q \in Request, OnRequest(c, q) PROVE PipeInv'
      <3>1. CASE Throws(q)
        BY <1>0, <2>2, <3>1 DEF OnRequest, httpVars
      <3> QED BY <2>2, <3>1, RequestPipe
    <2> QED
      BY <1>1, <2>1, <2>2, AcceptPipe, ReadOverPipe, WrittenPipe, WriteFailedPipe, TimerPipe
      DEF HttpNext
  <1>2. CASE UNCHANGED httpVars
    BY <1>0, <1>2 DEF httpVars
  <1> QED BY <1>1, <1>2 DEF Next, vars, Stop

LEMMA PipeInvariant == Spec => []PipeInv
  BY PipeInit, PipeStep, PTL DEF Spec

\* http_session never has two reads or two writes under way and its queue
\* never holds more than limit responses, although both on_read and on_write
\* start reads.
THEOREM PipelinesAreBounded == Spec => []PipelineBounded
  <1>1. PipeInv => PipelineBounded
    <2> SUFFICES ASSUME PipeInv, NEW c \in Clients
                 PROVE  reads[c] <= 1 /\ busy[c] <= 1 /\ Len(items[c]) <= Limit
      BY DEF PipelineBounded
    <2>1. reads[c] \in 0..1 /\ busy[c] \in 0..1
      BY PipeTypeOf DEF PipeInv
    <2>2. Len(items[c]) <= Limit
      BY DEF PipeInv, Pipe, Room
    <2> QED BY <2>1, <2>2
  <1> QED BY <1>1, PipeInvariant, PTL

\* Every response that on_write has written answers the next request, and
\* none follows one that closes the connection.
THEOREM ResponsesKeepOrder == Spec => []ResponsesInOrder
  <1>1. PipeInv => ResponsesInOrder
    BY DEF PipeInv, Pipe, Numbered, ResponsesInOrder
  <1> QED BY <1>1, PipeInvariant, PTL

\* The read that on_read puts off when the queue is full is started by the
\* write that makes room, for every limit.
THEOREM ReadsGoOn == Spec => []KeepsReading
  <1>1. PipeInv => KeepsReading
    BY DEF PipeInv, Pipe, Reading, KeepsReading
  <1> QED BY <1>1, PipeInvariant, PTL

-----------------------------------------------------------------------------
(* The refinement of SessionLife. *)

ConnStates == {"none", "handshake", "open", "broken", "closed"}

SessionsType ==
  /\ conn \in [Sessions -> ConnStates]
  /\ heard \in [Sessions -> Nat]
  /\ listed \subseteq Sessions /\ reading \subseteq Sessions /\ reported \subseteq Sessions
  /\ errors \in Seq([s : Sessions, code : Codes])

\* A session that reads is over its handshake, and one in the map accepted.
Accepted ==
  /\ \A s \in reading : conn[s] \notin {"none", "handshake"}
  /\ \A s \in listed : conn[s] # "none"

\* As long as the loop runs, only the sessions that have ended leave the map.
StillListed ==
  loop = "running" =>
    \A s \in Sessions : s \in reading \/ conn[s] = "handshake" => s \in listed

\* An error that the router has not handled is of a session that was reported,
\* has stopped to read and does not start again.
Ended(s) == s \in reported /\ s \notin reading /\ conn[s] \notin {"none", "handshake"}

ErrorsEnded == \A i \in DOMAIN errors : Ended(errors[i].s)

\* What the refinement needs: a request is heard only from a session that the
\* services see as open, and what the router removes is dead and reported.
LifeInv == SessionsType /\ Accepted /\ StillListed /\ ErrorsEnded

\* A step moves the life of the sessions to the new map.
LEMMA LifeMoves ==
  ASSUME NEW s \in Sessions, NEW v, Life(s)' = v, \A u \in Sessions \ {s} : Life(u)' = Life(u)
  PROVE  [u \in Sessions |-> Life(u)]' = [[u \in Sessions |-> Life(u)] EXCEPT ![s] = v]
  OBVIOUS

LEMMA LifeStays ==
  ASSUME \A u \in Sessions : Life(u)' = Life(u), UNCHANGED <<heard, reported>>
  PROVE  UNCHANGED Sessions_!lifeVars
  BY DEF Sessions_!lifeVars

LEMMA LifeInvInit == Init => LifeInv
  <1> SUFFICES ASSUME Init PROVE LifeInv
    OBVIOUS
  <1>1. WsInit
    BY DEF Init
  <1>2. SessionsType
    BY <1>1 DEF WsInit, SessionsType, ConnStates
  <1>3. Accepted /\ StillListed
    BY <1>1 DEF WsInit, Accepted, StillListed
  <1>4. ErrorsEnded
    BY <1>1 DEF WsInit, ErrorsEnded
  <1> QED BY <1>2, <1>3, <1>4 DEF LifeInv

\* The steps that change nothing of what the services see.
LEMMA LifeInvFrame ==
  ASSUME LifeInv, UNCHANGED <<conn, heard, listed, reading, reported, errors>>,
         loop' = "running" => loop = "running"
  PROVE  LifeInv'
  BY DEF LifeInv, SessionsType, Accepted, StillListed, ErrorsEnded, Ended

LEMMA ErrorAt ==
  ASSUME SessionsType, ErrorsEnded, NEW i \in DOMAIN errors
  PROVE  errors[i].s \in Sessions /\ Ended(errors[i].s)
  <1>1. errors[i] \in [s : Sessions, code : Codes]
    <2>1. errors \in Seq([s : Sessions, code : Codes]) /\ i \in 1..Len(errors)
      BY DEF SessionsType
    <2> QED BY <2>1, ElementOfSeq
  <1>2. errors[i].s \in Sessions
    BY <1>1
  <1> QED BY <1>2 DEF ErrorsEnded

LEMMA AcceptLife ==
  ASSUME LifeInv, NEW s \in Sessions, OnAccept(s)
  PROVE  LifeInv'
  <1>1. /\ conn[s] = "none" /\ conn' = [conn EXCEPT ![s] = "handshake"]
        /\ listed' = listed \cup {s} /\ loop = "running"
        /\ UNCHANGED <<reading, errors, heard, reported>>
    BY DEF OnAccept
  <1>2. SessionsType /\ Accepted /\ StillListed /\ ErrorsEnded
    BY DEF LifeInv
  <1>3. SessionsType'
    BY <1>1, <1>2 DEF SessionsType, ConnStates
  <1>4. s \notin reading /\ \A u \in Sessions \ {s} : conn'[u] = conn[u]
    BY <1>1, <1>2 DEF SessionsType, Accepted
  <1>5. conn'[s] = "handshake"
    BY <1>1, <1>2 DEF SessionsType
  <1>6. Accepted'
    BY <1>1, <1>2, <1>4, <1>5 DEF SessionsType, Accepted
  <1>7. StillListed'
    BY <1>1, <1>2, <1>4 DEF StillListed
  <1>8. ErrorsEnded'
    <2> SUFFICES ASSUME NEW i \in DOMAIN errors PROVE Ended(errors[i].s)'
      BY <1>1 DEF ErrorsEnded, Ended
    <2>1. errors[i].s \in Sessions /\ Ended(errors[i].s)
      BY <1>2, ErrorAt
    <2>2. errors[i].s # s
      BY <1>1, <2>1 DEF Ended
    <2> QED BY <1>1, <1>4, <2>1, <2>2 DEF Ended
  <1> QED BY <1>3, <1>6, <1>7, <1>8 DEF LifeInv

LEMMA HandshakeLife ==
  ASSUME LifeInv, NEW s \in Sessions, OnHandshake(s)
  PROVE  LifeInv'
  <1>1. /\ conn[s] = "handshake" /\ loop = "running"
        /\ \/ conn' = [conn EXCEPT ![s] = "open"] /\ reading' = reading \cup {s}
           \/ conn' = [conn EXCEPT ![s] = "broken"] /\ UNCHANGED reading
        /\ UNCHANGED <<listed, errors, heard, reported>>
    BY DEF OnHandshake
  <1>2. SessionsType /\ Accepted /\ StillListed /\ ErrorsEnded
    BY DEF LifeInv
  <1>3. SessionsType'
    BY <1>1, <1>2 DEF SessionsType, ConnStates
  <1>4. /\ s \in listed /\ conn'[s] \in {"open", "broken"}
        /\ \A u \in Sessions \ {s} : conn'[u] = conn[u] /\ (u \in reading' <=> u \in reading)
    BY <1>1, <1>2 DEF SessionsType, StillListed
  <1>5. Accepted'
    BY <1>1, <1>2, <1>3, <1>4 DEF SessionsType, Accepted
  <1>6. StillListed'
    BY <1>1, <1>2, <1>4 DEF StillListed
  <1>7. ErrorsEnded'
    <2> SUFFICES ASSUME NEW i \in DOMAIN errors PROVE Ended(errors[i].s)'
      BY <1>1 DEF ErrorsEnded, Ended
    <2>1. errors[i].s \in Sessions /\ Ended(errors[i].s)
      BY <1>2, ErrorAt
    <2>2. errors[i].s # s
      BY <1>1, <2>1 DEF Ended
    <2> QED BY <1>1, <1>4, <2>1, <2>2 DEF Ended
  <1> QED BY <1>3, <1>5, <1>6, <1>7 DEF LifeInv

LEMMA EndsLife ==
  ASSUME LifeInv, NEW s \in Sessions, ConnectionEnds(s)
  PROVE  LifeInv'
  <1>1. /\ conn[s] = "open" /\ loop = "running" /\ UNCHANGED loop
        /\ \E how \in {"closed", "broken"} : conn' = [conn EXCEPT ![s] = how]
        /\ UNCHANGED <<listed, reading, errors, heard, reported>>
    BY DEF ConnectionEnds
  <1>2. SessionsType /\ Accepted /\ StillListed /\ ErrorsEnded
    BY DEF LifeInv
  <1>3. SessionsType'
    BY <1>1, <1>2 DEF SessionsType, ConnStates
  <1>4. /\ conn'[s] \in {"closed", "broken"}
        /\ \A u \in Sessions \ {s} : conn'[u] = conn[u]
    BY <1>1, <1>2 DEF SessionsType
  <1>5. Accepted'
    BY <1>1, <1>2, <1>4 DEF SessionsType, Accepted
  <1>6. StillListed'
    BY <1>1, <1>2, <1>4 DEF StillListed
  <1>7. ErrorsEnded'
    <2> SUFFICES ASSUME NEW i \in DOMAIN errors PROVE Ended(errors[i].s)'
      BY <1>1 DEF ErrorsEnded, Ended
    <2>1. errors[i].s \in Sessions /\ Ended(errors[i].s)
      BY <1>2, ErrorAt
    <2> QED BY <1>1, <1>4, <2>1 DEF Ended
  <1> QED BY <1>3, <1>5, <1>6, <1>7 DEF LifeInv

LEMMA RequestLife ==
  ASSUME LifeInv, NEW s \in Sessions, OnReadRequest(s)
  PROVE  LifeInv'
  <1>1. /\ UNCHANGED <<loop, conn, listed, reading, errors, reported>>
        /\ heard' = [heard EXCEPT ![s] = @ + 1]
    BY DEF OnReadRequest, wsIo
  <1>2. SessionsType'
    BY <1>1 DEF LifeInv, SessionsType
  <1> QED BY <1>1, <1>2 DEF LifeInv, Accepted, StillListed, ErrorsEnded, Ended

LEMMA ReadEndLife ==
  ASSUME LifeInv, NEW s \in Sessions, OnReadEnd(s)
  PROVE  LifeInv'
  <1>1. /\ s \in reading /\ conn[s] \in {"closed", "broken"} /\ loop = "running"
        /\ reading' = reading \ {s}
        /\ UNCHANGED <<loop, conn, listed, heard>>
    BY DEF OnReadEnd
  <1>2. \/ UNCHANGED <<errors, reported>>
        \/ \E code \in Codes : /\ errors' = Append(errors, [s |-> s, code |-> code])
                               /\ reported' = reported \cup {s}
    BY DEF OnReadEnd
  <1>3. SessionsType /\ Accepted /\ StillListed /\ ErrorsEnded
    BY DEF LifeInv
  <1>4. Accepted' /\ StillListed'
    BY <1>1, <1>3 DEF Accepted, StillListed
  <1>5. \A u : Ended(u) => Ended(u)'
    BY <1>1, <1>2 DEF Ended
  <1>6. CASE UNCHANGED <<errors, reported>>
    <2>1. SessionsType'
      BY <1>1, <1>3, <1>6 DEF SessionsType
    <2>2. ErrorsEnded'
      BY <1>3, <1>5, <1>6 DEF ErrorsEnded, Ended
    <2> QED BY <1>4, <2>1, <2>2 DEF LifeInv
  <1>7. ASSUME NEW code \in Codes, errors' = Append(errors, [s |-> s, code |-> code]),
               reported' = reported \cup {s}
        PROVE  LifeInv'
    <2> DEFINE e == [s |-> s, code |-> code]
    <2>1. e \in [s : Sessions, code : Codes] /\ e.s = s
      BY <1>7
    <2> HIDE DEF e
    <2>2. errors \in Seq([s : Sessions, code : Codes]) /\ errors' = Append(errors, e)
      BY <1>3, <1>7 DEF SessionsType, e
    <2>3. errors' \in Seq([s : Sessions, code : Codes])
      BY <2>1, <2>2
    <2>4. SessionsType'
      BY <1>1, <1>3, <1>7, <2>3 DEF SessionsType
    <2>5. ASSUME NEW i \in DOMAIN errors'
          PROVE  errors'[i] = e \/ (i \in DOMAIN errors /\ errors'[i] = errors[i])
      BY <2>1, <2>2
    <2>6. Ended(s)'
      BY <1>1, <1>7 DEF Ended
    <2>7. ErrorsEnded'
      <3> SUFFICES ASSUME NEW i \in DOMAIN errors'
                   PROVE  /\ errors'[i].s \in reported' /\ errors'[i].s \notin reading'
                          /\ conn'[errors'[i].s] \notin {"none", "handshake"}
        BY DEF ErrorsEnded, Ended
      <3>1. CASE errors'[i] = e
        BY <2>1, <2>6, <3>1 DEF Ended
      <3>2. CASE i \in DOMAIN errors /\ errors'[i] = errors[i]
        BY <1>3, <1>5, <3>2 DEF ErrorsEnded, Ended
      <3> QED BY <2>5, <3>1, <3>2
    <2> QED BY <1>4, <2>4, <2>7 DEF LifeInv
  <1> QED BY <1>2, <1>6, <1>7

LEMMA RouterErrorLife ==
  ASSUME LifeInv, RouterError
  PROVE  LifeInv'
  <1> DEFINE s == Head(errors).s
  <1>1. /\ errors # <<>> /\ errors' = Tail(errors) /\ listed' = listed \ {s}
        /\ conn' = [conn EXCEPT ![s] = "closed"] \/ UNCHANGED conn
        /\ UNCHANGED <<loop, reading, heard, reported>>
    BY DEF RouterError
  <1>2. SessionsType /\ Accepted /\ StillListed /\ ErrorsEnded
    BY DEF LifeInv
  <1>3. 1 \in DOMAIN errors /\ Head(errors) = errors[1]
    BY <1>1, <1>2 DEF SessionsType
  <1>4. s \in Sessions /\ Ended(s)
    BY <1>2, <1>3, ErrorAt
  <1> HIDE DEF s
  <1>5. /\ conn'[s] \notin {"none", "handshake"}
        /\ \A u \in Sessions \ {s} : conn'[u] = conn[u]
    BY <1>1, <1>2, <1>4 DEF SessionsType, Ended
  <1>6. SessionsType'
    <2>1. errors' \in Seq([s : Sessions, code : Codes])
      BY <1>1, <1>2 DEF SessionsType
    <2>2. conn' \in [Sessions -> ConnStates]
      BY <1>1, <1>2 DEF SessionsType, ConnStates
    <2> QED BY <1>1, <1>2, <2>1, <2>2 DEF SessionsType
  <1>7. Accepted'
    BY <1>1, <1>2, <1>5 DEF SessionsType, Accepted
  <1>8. StillListed'
    BY <1>1, <1>2, <1>4, <1>5 DEF StillListed, Ended
  <1>9. ErrorsEnded'
    <2> SUFFICES ASSUME NEW i \in DOMAIN Tail(errors)
                 PROVE  /\ Tail(errors)[i].s \in reported /\ Tail(errors)[i].s \notin reading
                        /\ conn'[Tail(errors)[i].s] \notin {"none", "handshake"}
      BY <1>1 DEF ErrorsEnded, Ended
    <2>1. i + 1 \in DOMAIN errors /\ Tail(errors)[i] = errors[i + 1]
      BY <1>1, <1>2 DEF SessionsType
    <2>2. errors[i + 1].s \in Sessions /\ Ended(errors[i + 1].s)
      BY <1>2, <2>1, ErrorAt
    <2> QED BY <1>5, <2>1, <2>2 DEF Ended
  <1> QED BY <1>6, <1>7, <1>8, <1>9 DEF LifeInv

LEMMA StopLife ==
  ASSUME LifeInv, Stop
  PROVE  LifeInv'
  <1>1. /\ conn' = [s \in Sessions |-> IF s \in listed THEN "closed" ELSE conn[s]]
        /\ listed' = {} /\ loop' = "stopped"
        /\ UNCHANGED <<reading, errors, heard, reported>>
    BY DEF Stop, CloseAll
  <1>2. SessionsType /\ Accepted /\ StillListed /\ ErrorsEnded
    BY DEF LifeInv
  <1>3. \A u \in Sessions : conn'[u] = "closed" \/ conn'[u] = conn[u]
    BY <1>1
  <1>4. SessionsType'
    BY <1>1, <1>2 DEF SessionsType, ConnStates
  <1>5. Accepted' /\ StillListed'
    BY <1>1, <1>2, <1>3 DEF SessionsType, Accepted, StillListed
  <1>6. ErrorsEnded'
    <2> SUFFICES ASSUME NEW i \in DOMAIN errors PROVE Ended(errors[i].s)'
      BY <1>1 DEF ErrorsEnded, Ended
    <2>1. errors[i].s \in Sessions /\ Ended(errors[i].s)
      BY <1>2, ErrorAt
    <2> QED BY <1>1, <1>3, <2>1 DEF Ended
  <1> QED BY <1>4, <1>5, <1>6 DEF LifeInv

LEMMA LifeInvStep == LifeInv /\ [Next]_vars => LifeInv'
  <1> SUFFICES ASSUME LifeInv, [Next]_vars PROVE LifeInv'
    OBVIOUS
  <1>1. CASE WsNext(load \cap Sessions)
    <2>1. ASSUME NEW s \in Sessions, StrandWrite(s) \/ OnWrite(s) PROVE LifeInv'
      BY <2>1, LifeInvFrame DEF StrandWrite, OnWrite
    <2>2. ASSUME NEW s \in Sessions, Write(s) PROVE LifeInv'
      BY <2>2, LifeInvFrame DEF Write, wsIo
    <2>3. CASE WriteDone
      BY <2>3, LifeInvFrame DEF WriteDone
    <2> QED
      BY <1>1, <2>1, <2>2, <2>3, AcceptLife, HandshakeLife, EndsLife, RequestLife,
         ReadEndLife, RouterErrorLife
      DEF WsNext
  <1>2. CASE HttpNext(load \cap Clients) /\ UNCHANGED wsVars
    <2>1. loop = "running"
      BY <1>2 DEF HttpNext, HttpAccept, OnRequest, OnReadOver, OnWritten, OnWriteFailed,
                  TimePasses, OnTimer
    <2> QED BY <1>2, <2>1, LifeInvFrame DEF wsVars, wsIo
  <1>3. CASE UpNext /\ UNCHANGED wsVars
    <2>1. loop = "running"
      BY <1>3 DEF UpNext, DoAccept, OnUpgrade, OnActivity, OnEchoed, OnOperationFailed,
                  Ticks, OnAlarm, OnPing
    <2> QED BY <1>3, <2>1, LifeInvFrame DEF wsVars, wsIo
  <1>4. CASE UNCHANGED vars
    BY <1>4, LifeInvFrame DEF vars, wsVars, wsIo
  <1> QED BY <1>1, <1>2, <1>3, <1>4, StopLife DEF Next

\* The life of a session before and after a step, without the order of the
\* cases of Life.
LEMMA StageNow ==
  ASSUME LifeInv, NEW s \in Sessions
  PROVE  /\ conn[s] = "none" => Life(s) = "new"
         /\ conn[s] # "none" /\ s \notin listed => Life(s) = "gone"
         /\ s \in listed /\ (s \in reading \/ conn[s] = "handshake") => Life(s) = "open"
         /\ s \in listed /\ s \notin reading /\ conn[s] # "handshake" => Life(s) = "dead"
  <1>1. s \in listed => conn[s] # "none"
    BY DEF LifeInv, Accepted
  <1>2. conn[s] = "none" => Life(s) = "new"
    BY <1>1 DEF Life
  <1>3. conn[s] # "none" /\ s \notin listed => Life(s) = "gone"
    BY DEF Life
  <1>4. s \in listed /\ (s \in reading \/ conn[s] = "handshake") => Life(s) = "open"
    BY <1>1 DEF Life
  <1>5. s \in listed /\ s \notin reading /\ conn[s] # "handshake" => Life(s) = "dead"
    BY <1>1 DEF Life
  <1> QED BY <1>2, <1>3, <1>4, <1>5

LEMMA StageNext ==
  ASSUME LifeInv', NEW s \in Sessions
  PROVE  /\ conn'[s] = "none" => Life(s)' = "new"
         /\ conn'[s] # "none" /\ s \notin listed' => Life(s)' = "gone"
         /\ s \in listed' /\ (s \in reading' \/ conn'[s] = "handshake") => Life(s)' = "open"
         /\ s \in listed' /\ s \notin reading' /\ conn'[s] # "handshake" => Life(s)' = "dead"
  <1>1. s \in listed' => conn'[s] # "none"
    BY DEF LifeInv, Accepted
  <1>2. conn'[s] = "none" => Life(s)' = "new"
    BY <1>1 DEF Life
  <1>3. conn'[s] # "none" /\ s \notin listed' => Life(s)' = "gone"
    BY DEF Life
  <1>4. s \in listed' /\ (s \in reading' \/ conn'[s] = "handshake") => Life(s)' = "open"
    BY <1>1 DEF Life
  <1>5. s \in listed' /\ s \notin reading' /\ conn'[s] # "handshake" => Life(s)' = "dead"
    BY <1>1 DEF Life
  <1> QED BY <1>2, <1>3, <1>4, <1>5

LEMMA LifeSame ==
  ASSUME NEW u, conn'[u] = conn[u], u \in listed' <=> u \in listed,
         u \in reading' <=> u \in reading
  PROVE  Life(u)' = Life(u)
  BY DEF Life

\* Every step of the servers is a step of SessionLife or leaves it alone.
LEMMA LifeStep ==
  ASSUME LifeInv, LifeInv', [Next]_vars
  PROVE  Sessions_!LifeNext \/ UNCHANGED Sessions_!lifeVars
  <1>0. CASE UNCHANGED <<conn, listed, reading, heard, reported>>
    BY <1>0, LifeSame, LifeStays
  <1>1. ASSUME NEW s \in Sessions, OnAccept(s) PROVE Sessions_!LifeNext
    <2>1. /\ conn[s] = "none" /\ conn' = [conn EXCEPT ![s] = "handshake"]
          /\ listed' = listed \cup {s} /\ UNCHANGED <<reading, heard, reported>>
      BY <1>1 DEF OnAccept
    <2>2. conn'[s] = "handshake" /\ \A u \in Sessions \ {s} : conn'[u] = conn[u]
      BY <2>1 DEF LifeInv, SessionsType
    <2>3. Life(s) = "new"
      BY <2>1, StageNow
    <2>4. Life(s)' = "open"
      BY <2>1, <2>2, StageNext
    <2>5. \A u \in Sessions \ {s} : Life(u)' = Life(u)
      BY <2>1, <2>2, LifeSame
    <2>6. [u \in Sessions |-> Life(u)]' = [[u \in Sessions |-> Life(u)] EXCEPT ![s] = "open"]
      BY <2>4, <2>5, LifeMoves
    <2>7. Sessions_!Open(s)
      BY <2>1, <2>3, <2>6 DEF Sessions_!Open
    <2> QED BY <2>7 DEF Sessions_!LifeNext
  <1>2. ASSUME NEW s \in Sessions, OnHandshake(s)
        PROVE  Sessions_!LifeNext \/ UNCHANGED Sessions_!lifeVars
    <2>1. /\ conn[s] = "handshake" /\ loop = "running"
          /\ UNCHANGED <<listed, heard, reported>>
      BY <1>2 DEF OnHandshake
    <2>2. s \in listed /\ Life(s) = "open"
      BY <2>1, StageNow DEF LifeInv, StillListed
    <2>3. CASE conn' = [conn EXCEPT ![s] = "open"] /\ reading' = reading \cup {s}
      <3>1. \A u \in Sessions \ {s} : Life(u)' = Life(u)
        BY <2>1, <2>3, LifeSame DEF LifeInv, SessionsType
      <3>2. Life(s)' = "open"
        BY <2>1, <2>2, <2>3, StageNext
      <3> QED BY <2>1, <2>2, <3>1, <3>2, LifeStays
    <2>4. CASE conn' = [conn EXCEPT ![s] = "broken"] /\ UNCHANGED reading
      <3>1. \A u \in Sessions \ {s} : Life(u)' = Life(u)
        BY <2>1, <2>4, LifeSame DEF LifeInv, SessionsType
      <3>2. conn'[s] = "broken" /\ s \notin reading
        BY <2>1, <2>4 DEF LifeInv, SessionsType, Accepted
      <3>3. Life(s)' = "dead"
        BY <2>1, <2>2, <2>4, <3>2, StageNext
      <3>4. [u \in Sessions |-> Life(u)]' = [[u \in Sessions |-> Life(u)] EXCEPT ![s] = "dead"]
        BY <3>1, <3>3, LifeMoves
      <3>5. Sessions_!End(s)
        BY <2>1, <2>2, <3>4 DEF Sessions_!End
      <3> QED BY <3>5 DEF Sessions_!LifeNext
    <2> QED BY <1>2, <2>3, <2>4 DEF OnHandshake
  <1>3. ASSUME NEW s \in Sessions, ConnectionEnds(s) PROVE UNCHANGED Sessions_!lifeVars
    <2>1. /\ conn[s] = "open"
          /\ \E how \in {"closed", "broken"} : conn' = [conn EXCEPT ![s] = how]
          /\ UNCHANGED <<listed, reading, heard, reported>>
      BY <1>3 DEF ConnectionEnds
    <2>2. /\ conn'[s] \in {"closed", "broken"}
          /\ \A u \in Sessions \ {s} : conn'[u] = conn[u]
      BY <2>1 DEF LifeInv, SessionsType
    <2>3. Life(s)' = Life(s)
      <3>1. CASE s \notin listed
        BY <2>1, <2>2, <3>1, StageNow, StageNext
      <3>2. CASE s \in listed /\ s \in reading
        BY <2>1, <2>2, <3>2, StageNow, StageNext
      <3>3. CASE s \in listed /\ s \notin reading
        BY <2>1, <2>2, <3>3, StageNow, StageNext
      <3> QED BY <3>1, <3>2, <3>3
    <2> QED BY <2>1, <2>2, <2>3, LifeSame, LifeStays
  <1>4. ASSUME NEW s \in Sessions, OnReadRequest(s) PROVE Sessions_!LifeNext
    <2>1. /\ loop = "running" /\ s \in reading /\ heard' = [heard EXCEPT ![s] = @ + 1]
          /\ UNCHANGED <<conn, reading, listed, reported>>
      BY <1>4 DEF OnReadRequest, wsIo
    <2>2. Life(s) = "open"
      BY <2>1, StageNow DEF LifeInv, StillListed
    <2>3. [u \in Sessions |-> Life(u)]' = [u \in Sessions |-> Life(u)]
      BY <2>1, LifeSame
    <2>4. Sessions_!Hear(s)
      BY <2>1, <2>2, <2>3 DEF Sessions_!Hear
    <2> QED BY <2>4 DEF Sessions_!LifeNext
  <1>5. ASSUME NEW s \in Sessions, OnReadEnd(s) PROVE Sessions_!LifeNext
    <2>1. /\ loop = "running" /\ s \in reading /\ conn[s] \in {"closed", "broken"}
          /\ reading' = reading \ {s}
          /\ UNCHANGED reported \/ reported' = reported \cup {s}
          /\ UNCHANGED <<conn, listed, heard>>
      BY <1>5 DEF OnReadEnd
    <2>2. s \in listed /\ Life(s) = "open"
      BY <2>1, StageNow DEF LifeInv, StillListed
    <2>3. Life(s)' = "dead"
      BY <2>1, <2>2, StageNext
    <2>4. \A u \in Sessions \ {s} : Life(u)' = Life(u)
      BY <2>1, LifeSame
    <2>5. [u \in Sessions |-> Life(u)]' = [[u \in Sessions |-> Life(u)] EXCEPT ![s] = "dead"]
      BY <2>3, <2>4, LifeMoves
    <2>6. Sessions_!End(s)
      BY <2>1, <2>2, <2>5 DEF Sessions_!End
    <2> QED BY <2>6 DEF Sessions_!LifeNext
  <1>6. CASE RouterError
    <2>0. PICK s : s = Head(errors).s
      OBVIOUS
    <2>1. /\ errors # <<>> /\ listed' = listed \ {s}
          /\ conn' = [conn EXCEPT ![s] = "closed"] \/ UNCHANGED conn
          /\ s \notin listed => UNCHANGED conn
          /\ UNCHANGED <<reading, heard, reported>>
      BY <1>6, <2>0 DEF RouterError
    <2>2. 1 \in DOMAIN errors /\ Head(errors) = errors[1]
      BY <2>1 DEF LifeInv, SessionsType
    <2>3. s \in Sessions /\ Ended(s)
      BY <2>0, <2>2, ErrorAt DEF LifeInv
    <2>4. CASE s \notin listed
      <3>1. UNCHANGED <<conn, listed>>
        BY <2>1, <2>4
      <3> QED BY <1>0, <2>1, <3>1
    <2>5. CASE s \in listed
      <3>1. /\ conn'[s] # "none"
            /\ \A u \in Sessions \ {s} : conn'[u] = conn[u]
        BY <2>1, <2>3 DEF LifeInv, SessionsType, Ended
      <3>2. Life(s) = "dead"
        BY <2>3, <2>5, StageNow DEF Ended
      <3>3. Life(s)' = "gone"
        BY <2>1, <2>3, <3>1, StageNext
      <3>4. \A u \in Sessions \ {s} : Life(u)' = Life(u)
        BY <2>1, <3>1, LifeSame
      <3>5. [u \in Sessions |-> Life(u)]' = [[u \in Sessions |-> Life(u)] EXCEPT ![s] = "gone"]
        BY <2>3, <3>3, <3>4, LifeMoves
      <3>6. Sessions_!Remove(s)
        BY <2>1, <2>3, <3>2, <3>5 DEF Sessions_!Remove, Ended
      <3> QED BY <2>3, <3>6 DEF Sessions_!LifeNext
    <2> QED BY <2>4, <2>5
  <1>7. CASE Stop
    <2>1. /\ conn' = [s \in Sessions |-> IF s \in listed THEN "closed" ELSE conn[s]]
          /\ listed' = {} /\ UNCHANGED <<heard, reported>>
      BY <1>7 DEF Stop, CloseAll
    <2>2. ASSUME NEW u \in Sessions
          PROVE  Life(u)' = IF Life(u) = "new" THEN "new" ELSE "gone"
      <3>1. CASE conn[u] = "none"
        <4>1. u \notin listed /\ conn'[u] = "none"
          BY <2>1, <3>1 DEF LifeInv, Accepted
        <4> QED BY <3>1, <4>1, StageNow, StageNext
      <3>2. CASE conn[u] # "none"
        <4>1. conn'[u] # "none" /\ u \notin listed'
          BY <2>1, <3>2
        <4>2. Life(u) # "new"
          BY <3>2, StageNow
        <4> QED BY <4>1, <4>2, StageNext
      <3> QED BY <3>1, <3>2
    <2>3. Sessions_!Shutdown
      BY <2>1, <2>2 DEF Sessions_!Shutdown
    <2> QED BY <2>3 DEF Sessions_!LifeNext
  <1>8. CASE UNCHANGED wsVars
    BY <1>0, <1>8 DEF wsVars, wsIo
  <1>9. CASE WsNext(load \cap Sessions)
    <2>1. ASSUME NEW s \in Sessions, StrandWrite(s) \/ OnWrite(s)
          PROVE  UNCHANGED <<conn, listed, reading, heard, reported>>
      BY <2>1 DEF StrandWrite, OnWrite
    <2>2. ASSUME NEW s \in Sessions, Write(s)
          PROVE  UNCHANGED <<conn, listed, reading, heard, reported>>
      BY <2>2 DEF Write, wsIo
    <2>3. CASE WriteDone
      BY <1>0, <2>3 DEF WriteDone
    <2> QED
      BY <1>0, <1>1, <1>2, <1>3, <1>4, <1>5, <1>6, <1>9, <2>1, <2>2, <2>3 DEF WsNext
  <1> QED BY <1>7, <1>8, <1>9 DEF Next, vars

\* The websocket server keeps what ManagerServices and PlatformServices assume
\* of its sessions: requests come from open sessions only, and on_read's error
\* is what removes a session, except at shutdown.
THEOREM SessionsAreImplemented == Spec => ImplementsSessions
  <1>1. Init => Sessions_!LifeInit
    <2> SUFFICES ASSUME Init PROVE Sessions_!LifeInit
      OBVIOUS
    <2>1. WsInit
      BY DEF Init
    <2>2. ASSUME NEW s \in Sessions PROVE Life(s) = "new"
      BY <2>1, LifeInvInit, StageNow DEF WsInit
    <2> QED BY <2>1, <2>2 DEF WsInit, Sessions_!LifeInit
  <1>2. LifeInv /\ LifeInv' /\ [Next]_vars => [Sessions_!LifeNext]_Sessions_!lifeVars
    BY LifeStep DEF Sessions_!lifeVars
  <1> QED
    BY <1>1, <1>2, LifeInvInit, LifeInvStep, PTL DEF Spec, ImplementsSessions, Sessions_!LifeSpec
=============================================================================
