------------------------ MODULE PlatformLinkProofs ------------------------
(***************************************************************************)
(* Theorems about PlatformLink, for any data and any bounds: the types, at *)
(* most one write at a time, the order of what is written, and one chain   *)
(* of operations through every reconnect.                                  *)
(***************************************************************************)
EXTENDS PlatformLink, SequenceTheorems, TLAPS

\* An open websocket has been opened.
Opened == up => epoch \in 1..MaxEpochs

\* The types alone are not inductive: what a completed write records is the
\* front of the queue and the number of the connection, so that the queue
\* must not be empty while a write is outstanding.
LinkInv == TypeOK /\ OneWrite /\ Opened

LEMMA RemovedType ==
  ASSUME NEW S, NEW s \in Seq(S), NEW t \in Seq(S), NEW i \in DOMAIN s
  PROVE  SubSeq(s, 1, i - 1) \o SubSeq(s, i + 1, Len(s)) \o t \in Seq(S)
  <1>1. i \in 1..Len(s)
    OBVIOUS
  <1>2. SubSeq(s, 1, i - 1) \in Seq(S)
    BY <1>1
  <1>3. SubSeq(s, i + 1, Len(s)) \in Seq(S)
    BY <1>1
  <1> QED BY <1>2, <1>3

\* The operations stay operations of the chain when one of them completes.
LEMMA CompletesType ==
  ASSUME TypeOK, NEW o \in Chain, NEW t \in Seq(Chain), Completes(o, t)
  PROVE  ops' \in Seq(Chain)
  BY RemovedType DEF TypeOK, Completes

LEMMA TellType ==
  ASSUME TypeOK, NEW e \in Events \cup Data, Tell(e)
  PROVE  inbox' \in Seq(Events \cup Data)
  BY DEF TypeOK, Tell

LEMMA TakesType ==
  ASSUME TypeOK, NEW e, Takes(e)
  PROVE  inbox' \in Seq(Events \cup Data)
  BY DEF TypeOK, Takes

LEMMA WriteType ==
  ASSUME TypeOK, NEW x \in Writes, Write(x)
  PROVE  posted' \in Seq(Writes) /\ accepted' \in Seq(Writes)
  BY DEF TypeOK, Write

LEMMA LinkInit == Init => LinkInv
  <1> SUFFICES ASSUME Init PROVE LinkInv
    OBVIOUS
  <1>1. <<"resolve">> \in Seq(Chain)
    BY DEF Chain
  <1>2. 1 \in 0..MaxOps /\ 0 \in 0..MaxEpochs /\ 0 \in 0..2
    BY LinkAssumption
  <1>3. \A S : <<>> \in Seq(S)
    OBVIOUS
  <1>4. TypeOK
    BY <1>1, <1>2, <1>3 DEF Init, TypeOK
  <1> QED BY <1>4 DEF Init, LinkInv, OneWrite, Opened

LEMMA TypeStep == LinkInv /\ [Next]_vars => TypeOK'
  <1> SUFFICES ASSUME LinkInv, TypeOK, [Next]_vars PROVE TypeOK'
    BY DEF LinkInv
  <1> USE LinkAssumption
  <1>0. /\ <<>> \in Seq(Chain)
        /\ \A o \in Chain : <<o>> \in Seq(Chain)
        /\ {"resolve", "connect", "handshake", "read"} \subseteq Chain
    BY DEF Chain
  <1>e. Events \subseteq Events \cup Data
    OBVIOUS
  <1>1. CASE OnResolve
    <2>1. ops' \in Seq(Chain)
      BY <1>0, <1>1, CompletesType DEF OnResolve
    <2> QED BY <1>1, <2>1 DEF OnResolve, TypeOK, service, output
  <1>2. CASE OnConnect
    <2>1. ops' \in Seq(Chain)
      BY <1>0, <1>2, CompletesType DEF OnConnect
    <2>2. inbox' \in Seq(Events \cup Data)
      <3>1. UNCHANGED inbox \/ \E e \in {"gone", "failed"} : Tell(e)
        BY <1>2 DEF OnConnect
      <3>2. {"gone", "failed"} \subseteq Events
        BY DEF Events
      <3> QED BY <3>1, <3>2, TellType DEF TypeOK
    <2> QED BY <1>2, <2>1, <2>2 DEF OnConnect, TypeOK, output
  <1>3. CASE OnHandshake
    <2>1. ops' \in Seq(Chain)
      BY <1>0, <1>3, CompletesType DEF OnHandshake
    <2>2. inbox' \in Seq(Events \cup Data)
      <3>1. UNCHANGED inbox \/ Tell("handshake")
        BY <1>3 DEF OnHandshake
      <3>2. "handshake" \in Events
        BY DEF Events
      <3> QED BY <3>1, <3>2, TellType DEF TypeOK
    <2>3. up' \in BOOLEAN
      BY <1>3, Zenon DEF OnHandshake, TypeOK
    <2>4. epoch' \in 0..MaxEpochs
      BY <1>3, SMT DEF OnHandshake, TypeOK
    <2> QED BY <1>3, <2>1, <2>2, <2>3, <2>4 DEF OnHandshake, TypeOK, output
  <1>4. CASE OnRead
    <2>1. ops' \in Seq(Chain)
      BY <1>0, <1>4, CompletesType DEF OnRead
    <2>2. inbox' \in Seq(Events \cup Data)
      <3>1. \/ \E e \in {"request", "disconnect", "refusal", "response"} : Tell(e)
            \/ \E e \in {"gone", "failed"} : Tell(e)
        BY <1>4 DEF OnRead
      <3>2. {"request", "disconnect", "refusal", "response"} \subseteq Events
        BY DEF Events
      <3>3. {"gone", "failed"} \subseteq Events
        BY DEF Events
      <3> QED BY <3>1, <3>2, <3>3, TellType
    <2> QED BY <1>4, <2>1, <2>2 DEF OnRead, TypeOK, output
  <1>5. CASE StrandWrite
    <2>1. posted' \in Seq(Writes) /\ que' \in Seq(Writes)
      <3>1. Head(posted) \in Writes /\ Tail(posted) \in Seq(Writes)
        BY <1>5 DEF StrandWrite, TypeOK
      <3> QED BY <1>5, <3>1 DEF StrandWrite, TypeOK
    <2>2. writes' \in Seq(0..MaxEpochs)
      <3>1. Append(writes, epoch) \in Seq(0..MaxEpochs)
        BY DEF TypeOK
      <3> QED BY <1>5, <3>1 DEF StrandWrite, TypeOK
    <2> QED BY <1>5, <2>1, <2>2 DEF StrandWrite, TypeOK, chain, service
  <1>6. CASE OnWrite
    <2>1. writes' \in Seq(0..MaxEpochs)
      <3>1. Tail(writes) \in Seq(0..MaxEpochs) /\ epoch \in 0..MaxEpochs
        BY <1>6 DEF OnWrite, TypeOK
      <3>2. Append(Tail(writes), epoch) \in Seq(0..MaxEpochs)
        BY <3>1
      <3> QED BY <1>6, <3>1, <3>2 DEF OnWrite
    <2>2. que' \in Seq(Writes) /\ sent' \in Seq((1..MaxEpochs) \X Writes)
      <3>1. CASE UNCHANGED <<que, sent>>
        BY <3>1 DEF TypeOK
      <3>2. CASE /\ up /\ Head(writes) = epoch
                 /\ sent' = Append(sent, <<epoch, Head(que)>>)
                 /\ que' = Tail(que)
        <4>1. que # <<>> /\ epoch \in 1..MaxEpochs
          BY <1>6, <3>2 DEF OnWrite, LinkInv, OneWrite, Opened
        <4>2. Head(que) \in Writes /\ Tail(que) \in Seq(Writes)
          BY <4>1 DEF TypeOK
        <4>3. sent \in Seq((1..MaxEpochs) \X Writes)
          BY DEF TypeOK
        <4>4. Append(sent, <<epoch, Head(que)>>) \in Seq((1..MaxEpochs) \X Writes)
          BY <4>1, <4>2, <4>3
        <4> QED BY <3>2, <4>2, <4>4
      <3> QED BY <1>6, <3>1, <3>2 DEF OnWrite
    <2> QED BY <1>6, <2>1, <2>2 DEF OnWrite, TypeOK, chain, service
  <1>7. CASE Handshake
    <2>1. "connect" \in Writes
      BY DEF Writes
    <2>2. posted' \in Seq(Writes) /\ accepted' \in Seq(Writes)
      BY <1>7, <2>1, WriteType DEF Handshake
    <2>3. inbox' \in Seq(Events \cup Data)
      BY <1>7, TakesType DEF Handshake
    <2> QED BY <1>7, <2>2, <2>3 DEF Handshake, TypeOK, chain
  <1>8. CASE DispatchRequest
    <2>1. inbox' \in Seq(Events \cup Data)
      BY <1>8, TakesType DEF DispatchRequest
    <2> QED BY <1>8, <2>1 DEF DispatchRequest, TypeOK, chain, output
  <1>9. CASE DispatchClose
    <2>1. inbox' \in Seq(Events \cup Data)
      BY <1>9, TakesType DEF DispatchClose
    <2> QED BY <1>9, <2>1 DEF DispatchClose, TypeOK, output
  <1>10. CASE DispatchResponse
    <2>1. inbox' \in Seq(Events \cup Data)
      BY <1>10, TakesType DEF DispatchResponse
    <2> QED BY <1>10, <2>1 DEF DispatchResponse, TypeOK, chain, output
  <1>11. CASE ErrorGone
    <2>1. inbox' \in Seq(Events \cup Data)
      BY <1>11, TakesType DEF ErrorGone
    <2> QED BY <1>11, <2>1 DEF ErrorGone, TypeOK, chain, output
  <1>12. CASE Reconnect
    <2>1. ops' \in Seq(Chain) /\ attempts' \in 0..MaxOps
      <3>1. "resolve" \in Chain
        BY DEF Chain
      <3> QED BY <1>12, <3>1 DEF Reconnect, TypeOK
    <2> QED BY <1>12, <2>1 DEF Reconnect, TypeOK, output
  <1>13. CASE ErrorOther
    <2>1. inbox' \in Seq(Events \cup Data)
      BY <1>13, TakesType DEF ErrorOther
    <2> QED BY <1>13, <2>1 DEF ErrorOther, TypeOK, output
  <1>14. CASE WriteData
    <2>1. PICK x \in Data : Takes(x) /\ Write(x)
      BY <1>14 DEF WriteData
    <2>2. x \in Writes
      BY DEF Writes
    <2>3. posted' \in Seq(Writes) /\ accepted' \in Seq(Writes)
      BY <2>1, <2>2, WriteType
    <2>4. inbox' \in Seq(Events \cup Data)
      BY <2>1, TakesType
    <2> QED BY <1>14, <2>3, <2>4 DEF WriteData, TypeOK, chain
  <1>15. CASE Break
    BY <1>15 DEF Break, TypeOK, service, output
  <1>16. CASE Shutdown
    <2>1. "closing" \in Writes
      BY DEF Writes
    <2>2. posted' \in Seq(Writes) /\ accepted' \in Seq(Writes)
      BY <1>16, <2>1, WriteType DEF Shutdown, TypeOK
    <2>3. up' \in BOOLEAN
      BY <1>16, Zenon DEF Shutdown, TypeOK
    <2>4. stops' \in 0..2
      BY <1>16, SMT DEF Shutdown, TypeOK
    <2> QED BY <1>16, <2>2, <2>3, <2>4 DEF Shutdown, TypeOK, service
  <1>17. ASSUME NEW x \in Data, Submit(x) PROVE TypeOK'
    <2>1. inbox' \in Seq(Events \cup Data)
      BY <1>17, TellType DEF Submit
    <2> QED BY <1>17, <2>1 DEF Submit, TypeOK, chain, output
  <1>18. CASE UNCHANGED vars
    BY <1>18 DEF TypeOK, vars
  <1> QED
    BY <1>1, <1>2, <1>3, <1>4, <1>5, <1>6, <1>7, <1>8, <1>9, <1>10, <1>11,
       <1>12, <1>13, <1>14, <1>15, <1>16, <1>17, <1>18
    DEF Next, IoStep, ServiceStep

\* Only the handshake opens the websocket, and it counts the connection.
LEMMA OpenedStep == LinkInv /\ [Next]_vars => Opened'
  <1> SUFFICES ASSUME LinkInv, [Next]_vars PROVE Opened'
    OBVIOUS
  <1> USE LinkAssumption DEF LinkInv, Opened
  <1>1. CASE OnHandshake
    <2>1. CASE UNCHANGED <<up, epoch>>
      BY <2>1
    <2>2. CASE epoch < MaxEpochs /\ epoch' = epoch + 1
      BY <2>2 DEF TypeOK
    <2> QED BY <1>1, <2>1, <2>2 DEF OnHandshake
  <1>2. CASE OnResolve \/ OnConnect \/ OnRead
    BY <1>2 DEF OnResolve, OnConnect, OnRead
  <1>3. CASE StrandWrite \/ OnWrite
    BY <1>3 DEF StrandWrite, OnWrite, chain
  <1>4. CASE Handshake \/ DispatchRequest \/ DispatchResponse \/ ErrorGone \/ WriteData
    BY <1>4 DEF Handshake, DispatchRequest, DispatchResponse, ErrorGone, WriteData, chain
  <1>5. CASE DispatchClose \/ ErrorOther \/ Break
    BY <1>5 DEF DispatchClose, ErrorOther, Break
  <1>6. CASE Reconnect
    BY <1>6 DEF Reconnect
  <1>7. CASE Shutdown
    BY <1>7 DEF Shutdown
  <1>8. CASE \E x \in Data : Submit(x)
    BY <1>8 DEF Submit, chain
  <1>9. CASE UNCHANGED vars
    BY <1>9 DEF vars
  <1> QED
    BY <1>1, <1>2, <1>3, <1>4, <1>5, <1>6, <1>7, <1>8, <1>9
    DEF Next, IoStep, ServiceStep

\* The steps that leave the queue and the outstanding writes alone.
LEMMA OutputFrame ==
  ASSUME [Next]_vars, ~StrandWrite, ~OnWrite
  PROVE  UNCHANGED <<que, writes, sent>>
  <1>1. CASE OnResolve \/ OnConnect \/ OnHandshake \/ OnRead
    BY <1>1 DEF OnResolve, OnConnect, OnHandshake, OnRead, output
  <1>2. CASE Handshake \/ WriteData
    BY <1>2 DEF Handshake, WriteData
  <1>3. CASE DispatchRequest \/ DispatchClose \/ DispatchResponse
    BY <1>3 DEF DispatchRequest, DispatchClose, DispatchResponse, output
  <1>4. CASE ErrorGone \/ Reconnect \/ ErrorOther
    BY <1>4 DEF ErrorGone, Reconnect, ErrorOther, output
  <1>5. CASE Break \/ Shutdown
    BY <1>5 DEF Break, Shutdown, output
  <1>6. CASE \E x \in Data : Submit(x)
    BY <1>6 DEF Submit, output
  <1>7. CASE UNCHANGED vars
    BY <1>7 DEF vars
  <1> QED
    BY <1>1, <1>2, <1>3, <1>4, <1>5, <1>6, <1>7 DEF Next, IoStep, ServiceStep

LEMMA OneWriteStep == LinkInv /\ [Next]_vars => OneWrite'
  <1> SUFFICES ASSUME TypeOK, OneWrite, [Next]_vars PROVE OneWrite'
    BY DEF LinkInv
  <1>1. CASE StrandWrite
    <2>1. que' # <<>>
      BY <1>1 DEF StrandWrite, TypeOK
    <2>2. Len(writes') <= 1
      <3>1. CASE que = <<>>
        <4>1. writes = <<>>
          BY <3>1 DEF OneWrite
        <4> QED BY <1>1, <3>1, <4>1 DEF StrandWrite, TypeOK
      <3>2. CASE que # <<>>
        BY <1>1, <3>2 DEF StrandWrite, OneWrite
      <3> QED BY <3>1, <3>2
    <2> QED BY <2>1, <2>2 DEF OneWrite
  <1>2. CASE OnWrite
    <2>1. Tail(writes) = <<>>
      BY <1>2 DEF OnWrite, OneWrite, TypeOK
    <2>2. CASE writes' = Tail(writes)
      BY <2>1, <2>2 DEF OneWrite
    <2>3. CASE /\ que' = Tail(que)
               /\ writes' = IF Tail(que) = <<>> THEN Tail(writes)
                           ELSE Append(Tail(writes), epoch)
      <3>1. CASE Tail(que) = <<>>
        BY <2>1, <2>3, <3>1 DEF OneWrite
      <3>2. CASE Tail(que) # <<>>
        <4>1. writes' = <<epoch>>
          <5>1. writes' = Append(<<>>, epoch)
            BY <2>1, <2>3, <3>2
          <5> QED BY <5>1
        <4>2. Len(writes') <= 1
          BY <4>1
        <4> QED BY <2>3, <3>2, <4>2 DEF OneWrite
      <3> QED BY <3>1, <3>2
    <2> QED BY <1>2, <2>2, <2>3 DEF OnWrite
  <1>3. CASE ~StrandWrite /\ ~OnWrite
    BY <1>3, OutputFrame DEF OneWrite
  <1> QED BY <1>1, <1>2, <1>3

LEMMA LinkInvariant == Spec => []LinkInv
  <1>1. LinkInv /\ [Next]_vars => LinkInv'
    BY TypeStep, OpenedStep, OneWriteStep DEF LinkInv
  <1> QED BY LinkInit, <1>1, PTL DEF Spec

\* The type invariant of the link: in particular what is recorded as written
\* has been written to a connection that was opened.
THEOREM LinkTypeCorrect == Spec => []TypeOK
  <1>1. LinkInv => TypeOK
    BY DEF LinkInv
  <1> QED BY <1>1, LinkInvariant, PTL

\* ws_session never has two async_writes outstanding and never one for an
\* empty queue, through any number of failures and reconnects.
THEOREM OneWriteAtATime == Spec => []OneWrite
  <1>1. LinkInv => OneWrite
    BY DEF LinkInv
  <1> QED BY <1>1, LinkInvariant, PTL

-----------------------------------------------------------------------------
(* The order of what is written. *)

LEMMA TextsAppend ==
  ASSUME NEW S, NEW s \in Seq(Nat \X S), NEW e \in Nat, NEW x \in S
  PROVE  /\ Texts(s) \in Seq(S)
         /\ Texts(Append(s, <<e, x>>)) = Append(Texts(s), x)
  <1>0. /\ DOMAIN s = 1..Len(s) /\ Len(s) \in Nat
        /\ \A i \in 1..Len(s) : s[i][2] \in S
    OBVIOUS
  <1>1. Texts(s) \in Seq(S)
    BY <1>0 DEF Texts
  <1>2. DOMAIN Texts(Append(s, <<e, x>>)) = DOMAIN Append(Texts(s), x)
    BY <1>1 DEF Texts
  <1>3. \A i \in DOMAIN Append(Texts(s), x) :
          Texts(Append(s, <<e, x>>))[i] = Append(Texts(s), x)[i]
    BY <1>1 DEF Texts
  <1>4. Texts(Append(s, <<e, x>>)) \in Seq(S) /\ Append(Texts(s), x) \in Seq(S)
    BY <1>1 DEF Texts
  <1> DEFINE u == Texts(Append(s, <<e, x>>))
             v == Append(Texts(s), x)
  <1>5. u \in Seq(S) /\ v \in Seq(S) /\ Len(u) = Len(v)
    BY <1>2, <1>4
  <1>6. DOMAIN v = 1..Len(u)
    BY <1>5
  <1>7. u = v
    BY <1>3, <1>5, <1>6, SeqEqual
  <1> QED BY <1>1, <1>7

\* The front of the queue becomes the end of what has been written.
LEMMA MoveFront ==
  ASSUME NEW t \in Seq(Writes), NEW q \in Seq(Writes), NEW p \in Seq(Writes), q # <<>>
  PROVE  Append(t, Head(q)) \o Tail(q) \o p = t \o q \o p
  <1>1. Append(t, Head(q)) = t \o <<Head(q)>>
    BY AppendIsConcat, HeadTailProperties
  <1>2. (t \o <<Head(q)>>) \o Tail(q) \o p = t \o q \o p
    BY SMTT(60)
  <1> QED BY <1>1, <1>2

\* The front of what is posted becomes the end of the queue.
LEMMA MovePosted ==
  ASSUME NEW t \in Seq(Writes), NEW q \in Seq(Writes), NEW p \in Seq(Writes), p # <<>>
  PROVE  t \o Append(q, Head(p)) \o Tail(p) = t \o q \o p
  <1>1. Append(q, Head(p)) = q \o <<Head(p)>>
    BY AppendIsConcat, HeadTailProperties
  <1>2. t \o (q \o <<Head(p)>>) \o Tail(p) = t \o q \o p
    BY SMTT(60)
  <1> QED BY <1>1, <1>2

\* What is given to write is posted.
LEMMA AppendPosted ==
  ASSUME NEW t \in Seq(Writes), NEW q \in Seq(Writes), NEW p \in Seq(Writes), NEW x \in Writes
  PROVE  Append(t \o q \o p, x) = t \o q \o Append(p, x)
  <1>1. t \o q \in Seq(Writes) /\ t \o q \o p \in Seq(Writes) /\ <<x>> \in Seq(Writes)
    BY ConcatProperties
  <1>2. Append(t \o q \o p, x) = (t \o q \o p) \o <<x>>
    BY <1>1, AppendIsConcat
  <1>3. Append(p, x) = p \o <<x>>
    BY AppendIsConcat
  <1>4. ((t \o q) \o p) \o <<x>> = (t \o q) \o (p \o <<x>>)
    BY <1>1, ConcatAssociative, SMTT(60)
  <1> QED BY <1>2, <1>3, <1>4

LEMMA OrderStep ==
  ASSUME LinkInv, LinkInv', [Next]_vars, WritesInOrder
  PROVE  WritesInOrder'
  <1> DEFINE t == Texts(sent)
  <1>1. sent \in Seq(Nat \X Writes) /\ t \in Seq(Writes)
    <2>1. sent \in Seq(Nat \X Writes)
      <3>1. (1..MaxEpochs) \X Writes \subseteq Nat \X Writes
        OBVIOUS
      <3>2. sent \in Seq((1..MaxEpochs) \X Writes)
        BY DEF LinkInv, TypeOK
      <3> QED BY <3>1, <3>2, SeqMonotonic
    <2> QED BY <2>1 DEF Texts
  <1>2. que \in Seq(Writes) /\ posted \in Seq(Writes)
    BY DEF LinkInv, TypeOK
  <1>3. CASE StrandWrite
    <2>1. /\ posted # <<>>
          /\ posted' = Tail(posted)
          /\ que' = Append(que, Head(posted))
          /\ UNCHANGED <<sent, accepted>>
      BY <1>3 DEF StrandWrite
    <2>2. t \o Append(que, Head(posted)) \o Tail(posted) = t \o que \o posted
      BY <1>1, <1>2, <2>1, MovePosted
    <2> QED BY <2>1, <2>2 DEF WritesInOrder
  <1>4. CASE OnWrite
    <2>1. UNCHANGED <<posted, accepted>>
      BY <1>4 DEF OnWrite
    <2>2. que # <<>>
      BY <1>4 DEF OnWrite, LinkInv, OneWrite
    <2>3. CASE UNCHANGED <<que, sent>>
      BY <2>1, <2>3 DEF WritesInOrder
    <2>4. CASE sent' = Append(sent, <<epoch, Head(que)>>) /\ que' = Tail(que)
      <3>0. que \in Seq(Writes) /\ epoch \in 0..MaxEpochs
        BY DEF LinkInv, TypeOK
      <3>1. Head(que) \in Writes /\ epoch \in Nat
        BY <2>2, <3>0
      <3>2. Texts(sent') = Append(t, Head(que))
        BY <1>1, <2>4, <3>1, TextsAppend
      <3>3. Append(t, Head(que)) \o Tail(que) \o posted = t \o que \o posted
        BY <1>1, <1>2, <2>2, MoveFront
      <3> QED BY <2>1, <2>4, <3>2, <3>3 DEF WritesInOrder
    <2> QED BY <1>4, <2>3, <2>4 DEF OnWrite
  <1>5. ASSUME NEW x \in Writes, Write(x), UNCHANGED <<que, sent>>
        PROVE  WritesInOrder'
    <2>1. Append(t \o que \o posted, x) = t \o que \o Append(posted, x)
      BY <1>1, <1>2, AppendPosted
    <2> QED BY <1>5, <2>1 DEF Write, WritesInOrder
  <1>6. CASE UNCHANGED <<posted, accepted>> /\ ~StrandWrite /\ ~OnWrite
    BY <1>6, OutputFrame DEF WritesInOrder
  <1>7. \/ StrandWrite \/ OnWrite
        \/ UNCHANGED <<posted, accepted>> /\ ~StrandWrite /\ ~OnWrite
        \/ (\E x \in Writes : Write(x)) /\ UNCHANGED <<que, sent>>
    <2>1. CASE OnResolve \/ OnConnect \/ OnHandshake \/ OnRead
      BY <2>1 DEF OnResolve, OnConnect, OnHandshake, OnRead, output
    <2>2. CASE Handshake \/ WriteData
      BY <2>2 DEF Handshake, WriteData, Writes
    <2>3. CASE DispatchRequest \/ DispatchClose \/ DispatchResponse
      BY <2>3 DEF DispatchRequest, DispatchClose, DispatchResponse, output
    <2>4. CASE ErrorGone \/ Reconnect \/ ErrorOther
      BY <2>4 DEF ErrorGone, Reconnect, ErrorOther, output
    <2>5. CASE Break
      BY <2>5 DEF Break, output
    <2>6. CASE Shutdown
      BY <2>6 DEF Shutdown, Writes
    <2>7. CASE \E x \in Data : Submit(x)
      BY <2>7 DEF Submit, output
    <2>8. CASE UNCHANGED vars
      BY <2>8 DEF vars
    <2> QED
      BY <2>1, <2>2, <2>3, <2>4, <2>5, <2>6, <2>7, <2>8
      DEF Next, IoStep, ServiceStep
  <1> QED BY <1>3, <1>4, <1>5, <1>6, <1>7

\* Whatever fails in between, what ws_session has been given to write is what
\* it has written, what is queued and what is posted, in the order it was
\* given: nothing is lost, doubled or reordered inside the session.
THEOREM WritesKeepOrder == Spec => []WritesInOrder
  <1>1. Init => WritesInOrder
    BY DEF Init, WritesInOrder, Texts
  <1>2. LinkInv /\ LinkInv' /\ [Next]_vars /\ WritesInOrder => WritesInOrder'
    BY OrderStep
  <1> QED BY <1>1, <1>2, LinkInvariant, PTL DEF Spec

-----------------------------------------------------------------------------
(* One chain of operations. *)

\* When the only operation completes, what it starts is all that is left.
LEMMA CompletesAll ==
  ASSUME TypeOK, Len(ops) <= 1, NEW o, NEW t \in Seq(Chain), Completes(o, t)
  PROVE  ops # <<>> /\ ops' = t
  <1>1. PICK i \in DOMAIN ops :
          ops' = SubSeq(ops, 1, i - 1) \o SubSeq(ops, i + 1, Len(ops)) \o t
    BY DEF Completes
  <1>2. i = 1 /\ Len(ops) = 1 /\ ops # <<>>
    <2>1. ops \in Seq(Chain) /\ i \in 1..Len(ops) /\ Len(ops) \in Nat
      BY <1>1 DEF TypeOK
    <2>2. \A n \in Nat : \A k \in 1..n : n <= 1 => k = 1 /\ n = 1
      OBVIOUS
    <2>3. i = 1 /\ Len(ops) = 1
      BY <2>1, <2>2, Zenon
    <2>4. Len(<<>>) # 1
      OBVIOUS
    <2> QED BY <2>3, <2>4, Zenon
  <1>3. SubSeq(ops, 1, 0) = <<>> /\ SubSeq(ops, 2, 1) = <<>>
    BY DEF TypeOK
  <1>4. ops' = <<>> \o <<>> \o t
    BY <1>1, <1>2, <1>3
  <1> QED BY <1>2, <1>4

\* A message that is no failure leaves the failures alone.
LEMMA TellOther ==
  ASSUME TypeOK, NEW e, e \notin {"gone", "failed"}, Tell(e)
  PROVE  Failures' = Failures
  BY DEF TypeOK, Tell, Failures

\* A failure that is told when there is none is the only one.
LEMMA TellFailure ==
  ASSUME TypeOK, NEW e \in {"gone", "failed"}, Tell(e), Failures = {}
  PROVE  \A i, j \in Failures' : i = j
  BY DEF TypeOK, Tell, Failures

\* A message that leaves the inbox moves the others one place to the front.
LEMMA TakesFailures ==
  ASSUME TypeOK, NEW e, Takes(e)
  PROVE  /\ \A i \in Failures' : i + 1 \in Failures
         /\ Failures' \subseteq Nat
         /\ e \in {"gone", "failed"} => 1 \in Failures
  <1>1. inbox \in Seq(Events \cup Data) /\ inbox # <<>> /\ inbox' = Tail(inbox)
    BY DEF TypeOK, Takes
  <1>2. ASSUME NEW i \in DOMAIN Tail(inbox)
        PROVE  i \in Nat /\ i + 1 \in DOMAIN inbox /\ Tail(inbox)[i] = inbox[i + 1]
    BY <1>1
  <1>3. 1 \in DOMAIN inbox /\ inbox[1] = Head(inbox)
    BY <1>1
  <1> QED BY <1>1, <1>2, <1>3 DEF Takes, Failures

\* What the service takes: at most one failure stays one, and the failure it
\* takes was the only one.
LEMMA TakesOne ==
  ASSUME TypeOK, OneChain, NEW e, Takes(e)
  PROVE  /\ \A i, j \in Failures' : i = j
         /\ Failures = {} => Failures' = {}
         /\ e \in {"gone", "failed"} => ops = <<>> /\ Failures' = {}
  <1>1. /\ \A i \in Failures' : i + 1 \in Failures
        /\ Failures' \subseteq Nat
        /\ e \in {"gone", "failed"} => 1 \in Failures
    BY TakesFailures
  <1>2. \A i, j \in Failures' : i = j
    <2> SUFFICES ASSUME NEW i \in Failures', NEW j \in Failures' PROVE i = j
      OBVIOUS
    <2>1. i + 1 = j + 1 /\ i \in Nat /\ j \in Nat
      BY <1>1 DEF OneChain
    <2> QED BY <2>1
  <1>3. ASSUME e \in {"gone", "failed"} PROVE Failures' = {}
    <2> SUFFICES ASSUME NEW i \in Failures' PROVE FALSE
      OBVIOUS
    <2>1. i + 1 = 1 /\ i \in Nat /\ 0 \notin Failures'
      <3>1. i + 1 = 1 /\ i \in Nat
        BY <1>1, <1>3 DEF OneChain
      <3>2. 0 \notin DOMAIN Tail(inbox)
        BY DEF TypeOK, Takes
      <3> QED BY <3>1, <3>2 DEF Takes, Failures
    <2> QED BY <2>1
  <1> QED BY <1>1, <1>2, <1>3 DEF OneChain

LEMMA ChainStep ==
  ASSUME TypeOK, OneChain, [Next]_vars
  PROVE  OneChain'
  <1>0. Len(ops) <= 1 /\ Len(<<>>) <= 1
    BY DEF OneChain
  <1>a. ASSUME NEW o, Completes(o, <<>>)
        PROVE  ops # <<>> /\ ops' = <<>> /\ Len(ops') <= 1
    <2>1. <<>> \in Seq(Chain)
      OBVIOUS
    <2>2. ops # <<>> /\ ops' = <<>>
      BY <1>0, <1>a, <2>1, CompletesAll
    <2> QED BY <2>2
  <1>b. ASSUME NEW o, NEW p \in Chain, Completes(o, <<p>>)
        PROVE  ops # <<>> /\ Len(ops') <= 1
    <2>1. <<p>> \in Seq(Chain) /\ Len(<<p>>) = 1
      OBVIOUS
    <2>2. ops # <<>> /\ ops' = <<p>>
      BY <1>0, <1>b, <2>1, CompletesAll
    <2> QED BY <2>1, <2>2
  <1>c. {"resolve", "connect", "handshake", "read"} \subseteq Chain
    BY DEF Chain
  <1>1. CASE OnResolve
    <2>1. ops # <<>> /\ Len(ops') <= 1
      BY <1>a, <1>b, <1>c, <1>1 DEF OnResolve
    <2>2. UNCHANGED <<inbox, asleep>>
      BY <1>1 DEF OnResolve, service
    <2> QED BY <2>1, <2>2 DEF OneChain, Failures
  <1>2. CASE OnConnect
    <2>1. ops # <<>> /\ UNCHANGED asleep
      BY <1>a, <1>b, <1>c, <1>2 DEF OnConnect
    <2>2. CASE Completes("connect", <<"handshake">>) /\ UNCHANGED inbox
      <3>1. Len(ops') <= 1 /\ Failures' = Failures
        BY <1>b, <1>c, <2>2 DEF Failures
      <3> QED BY <2>1, <3>1 DEF OneChain
    <2>3. CASE Completes("connect", <<>>) /\ \E e \in {"gone", "failed"} : Tell(e)
      <3>1. ops' = <<>>
        BY <1>a, <2>3
      <3>2. \A i, j \in Failures' : i = j
        BY <2>1, <2>3, TellFailure DEF OneChain
      <3> QED BY <1>0, <2>1, <3>1, <3>2 DEF OneChain
    <2> QED BY <1>2, <2>2, <2>3 DEF OnConnect
  <1>3. CASE OnHandshake
    <2>1. ops # <<>> /\ UNCHANGED asleep /\ Len(ops') <= 1
      BY <1>a, <1>b, <1>c, <1>3 DEF OnHandshake
    <2>2. Failures' = Failures
      <3>1. Tell("handshake") \/ UNCHANGED inbox
        BY <1>3 DEF OnHandshake
      <3> QED BY <3>1, TellOther DEF Failures
    <2> QED BY <2>1, <2>2 DEF OneChain
  <1>4. CASE OnRead
    <2>1. ops # <<>> /\ UNCHANGED asleep
      BY <1>a, <1>b, <1>c, <1>4 DEF OnRead
    <2>2. CASE /\ Completes("read", <<"read">>)
               /\ \E e \in {"request", "disconnect", "refusal", "response"} : Tell(e)
      <3>1. Len(ops') <= 1
        BY <1>b, <1>c, <2>2
      <3>2. Failures' = Failures
        BY <2>2, TellOther
      <3> QED BY <2>1, <3>1, <3>2 DEF OneChain
    <2>3. CASE Completes("read", <<>>) /\ \E e \in {"gone", "failed"} : Tell(e)
      <3>1. ops' = <<>>
        BY <1>a, <2>3
      <3>2. \A i, j \in Failures' : i = j
        BY <2>1, <2>3, TellFailure DEF OneChain
      <3> QED BY <1>0, <2>1, <3>1, <3>2 DEF OneChain
    <2> QED BY <1>4, <2>2, <2>3 DEF OnRead
  <1>5. CASE \E e : Takes(e) /\ UNCHANGED <<ops, asleep>>
    BY <1>5, TakesOne DEF OneChain
  <1>6. CASE ErrorGone
    <2>1. Takes("gone") /\ UNCHANGED ops
      BY <1>6 DEF ErrorGone, chain
    <2>2. ops = <<>> /\ Failures' = {}
      BY <2>1, TakesOne
    <2> QED BY <1>0, <2>1, <2>2 DEF OneChain
  <1>7. CASE Reconnect
    <2>1. ops = <<>> /\ Failures = {}
      BY <1>7 DEF Reconnect, OneChain
    <2>2. Len(ops') = 1 /\ ~asleep' /\ UNCHANGED inbox
      BY <1>7, <2>1 DEF Reconnect
    <2> QED BY <2>1, <2>2 DEF OneChain, Failures
  <1>8. CASE \E x \in Data : Submit(x)
    <2>1. UNCHANGED <<ops, asleep>>
      BY <1>8 DEF Submit, chain
    <2>2. Failures' = Failures
      BY <1>8, TellOther, LinkAssumption DEF Submit
    <2> QED BY <2>1, <2>2 DEF OneChain
  <1>9. CASE UNCHANGED <<ops, asleep, inbox>>
    BY <1>9 DEF OneChain, Failures
  <1>10. \/ OnResolve \/ OnConnect \/ OnHandshake \/ OnRead \/ ErrorGone \/ Reconnect
         \/ \E x \in Data : Submit(x)
         \/ UNCHANGED <<ops, asleep, inbox>>
         \/ \E e : Takes(e) /\ UNCHANGED <<ops, asleep>>
    <2>1. CASE StrandWrite \/ OnWrite
      BY <2>1 DEF StrandWrite, OnWrite, chain, service
    <2>2. CASE Handshake \/ DispatchRequest \/ DispatchClose \/ DispatchResponse
               \/ ErrorOther \/ WriteData
      BY <2>2, Zenon DEF Handshake, DispatchRequest, DispatchClose, DispatchResponse,
         ErrorOther, WriteData, chain
    <2>3. CASE Break \/ Shutdown
      BY <2>3 DEF Break, Shutdown, service
    <2>4. CASE UNCHANGED vars
      BY <2>4 DEF vars
    <2> QED BY <2>1, <2>2, <2>3, <2>4 DEF Next, IoStep, ServiceStep
  <1> QED BY <1>1, <1>2, <1>3, <1>4, <1>5, <1>6, <1>7, <1>8, <1>9, <1>10

\* Failures are reported by the read chain alone, and run is called again only
\* after one of them: through any number of reconnects there is one chain of
\* operations, or its failure, or the sleep before the next attempt.
THEOREM LinkHasOneChain == Spec => []OneChain
  <1>1. Init => OneChain
    BY DEF Init, OneChain, Failures
  <1>2. LinkInv /\ [Next]_vars /\ OneChain => OneChain'
    BY ChainStep DEF LinkInv
  <1> QED BY <1>1, <1>2, LinkInvariant, PTL DEF Spec
============================================================================
