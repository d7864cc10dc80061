------------------------ MODULE ActorRuntimeProofs ------------------------
(***************************************************************************)
(* Theorems about ActorRuntime, for every set of workers, senders, actors  *)
(* and messages and every throughput limit; and, with one worker thread,   *)
(* that no message is stranded and that the runtime implements             *)
(* ActorDelivery.                                                          *)
(***************************************************************************)
EXTENDS ActorRuntime, FiniteSetTheorems, SequenceTheorems, TLAPS

-----------------------------------------------------------------------------
(* Type correctness. *)

LEMMA LoopHeadType == \A n \in Nat : LoopHead(n) \in Locations \ {"dequeue", "waiting", "erase", "handler", "drain_push", "has_next_push"}
  BY RuntimeAssumption DEF LoopHead, Locations

\* enqueue(a) appends to the job queue and moves at most one worker, from the
\* wait to dequeue.
LEMMA EnqueueType ==
  ASSUME TypeOK, NEW a \in Actors, NEW p \in [Workers -> Locations],
         Enqueue(a, p)
  PROVE  /\ jobs' \in Seq(Actors)
         /\ pc' \in [Workers -> Locations]
         /\ \A w \in Workers : pc'[w] # p[w] => pc'[w] = "dequeue"
  <1>1. jobs' \in Seq(Actors)
    BY DEF Enqueue, TypeOK
  <1>2. CASE Waiting = {}
    BY <1>1, <1>2 DEF Enqueue
  <1>3. CASE Waiting # {}
    <2>1. PICK v \in Waiting : pc' = [p EXCEPT ![v] = "dequeue"]
      BY <1>3 DEF Enqueue
    <2> QED
      BY <1>1, <2>1 DEF Waiting, Locations
  <1> QED BY <1>2, <1>3

\* The message get() returns, and what it leaves, are messages of the actor.
LEMMA SyncedType ==
  ASSUME TypeOK, NEW a \in Actors
  PROVE  /\ Synced(a) \in Seq(Msgs)
         /\ Synced(a) # <<>> => Head(Synced(a)) \in Msgs
  BY DEF Synced, TypeOK

LEMMA TakeMailType ==
  ASSUME TypeOK, NEW a \in Actors, Synced(a) # <<>>, TakeMail(a)
  PROVE  mail' \in [Actors -> Seq(Msgs)] /\ local' \in [Actors -> Seq(Msgs)]
  BY SyncedType DEF TakeMail, TypeOK, Synced

\* Executing a reaction moves only the worker that executes it.
LEMMA ExecuteType ==
  ASSUME TypeOK, NEW w \in Workers, job[w] \in Actors, NEW m \in Msgs,
         Execute(w, m)
  PROVE  /\ handled' \in [Actors -> Seq(Msgs)]
         /\ msg' \in [Workers -> Msgs \cup {None}]
         /\ pc' \in [Workers -> Locations]
         /\ pc'[w] = "handler" /\ msg'[w] = m
         /\ \A v \in Workers \ {w} : pc'[v] = pc[v] /\ msg'[v] = msg[v]
  BY DEF Execute, TypeOK, Locations

LEMMA TypeStep == TypeOK /\ [Next]_vars => TypeOK'
  <1> SUFFICES ASSUME TypeOK, [Next]_vars PROVE TypeOK'
    OBVIOUS
  <1> USE RuntimeAssumption
  <1>1. ASSUME NEW w \in Workers, Dequeue(w) PROVE TypeOK'
    BY <1>1, LoopHeadType DEF TypeOK, Dequeue
  <1>2. ASSUME NEW w \in Workers, Wait(w) PROVE TypeOK'
    BY <1>2 DEF TypeOK, Wait, Locations
  <1>3. ASSUME NEW w \in Workers, SpuriousWakeup(w) PROVE TypeOK'
    BY <1>3 DEF TypeOK, SpuriousWakeup, Locations
  <1>4. ASSUME NEW w \in Workers, PopFront(w) PROVE TypeOK'
    <2>1. cache[job[w]] \in Seq(Msgs)
      BY <1>4 DEF PopFront, TypeOK
    <2>2. CASE cache[job[w]] = <<>>
      BY <1>4, <2>2 DEF TypeOK, PopFront, Locations
    <2>3. CASE cache[job[w]] # <<>>
      <3>1. Head(cache[job[w]]) \in Msgs
        BY <2>1, <2>3
      <3>2. /\ pc' = [pc EXCEPT ![w] = "erase"] /\ pc[w] = "pop"
            /\ msg' = [msg EXCEPT ![w] = Head(cache[job[w]])]
        BY <1>4, <2>3 DEF PopFront
      <3>3. /\ msg' \in [Workers -> Msgs \cup {None}] /\ msg'[w] \in Msgs
            /\ \A v \in Workers \ {w} : msg'[v] = msg[v]
        BY <3>1, <3>2 DEF TypeOK
      <3> QED
        BY <1>4, <3>2, <3>3 DEF TypeOK, PopFront, Locations
    <2> QED BY <2>2, <2>3
  <1>5. ASSUME NEW w \in Workers, EraseFront(w) PROVE TypeOK'
    <2>1. job[w] \in Actors /\ msg[w] \in Msgs
      BY <1>5 DEF EraseFront, TypeOK
    <2>2. cache' \in [Actors -> Seq(Msgs)] /\ handled' \in [Actors -> Seq(Msgs)]
      BY <1>5, <2>1 DEF EraseFront, Execute, TypeOK
    <2> QED
      BY <1>5, <2>1, <2>2 DEF TypeOK, EraseFront, Execute, Locations
  <1>6. ASSUME NEW w \in Workers, NextMessage(w) PROVE TypeOK'
    <2>1. job[w] \in Actors
      BY <1>6 DEF NextMessage, TypeOK
    <2>2. CASE Synced(job[w]) = <<>>
      BY <1>6, <2>2 DEF TypeOK, NextMessage, Locations
    <2>3. CASE Synced(job[w]) # <<>>
      <3>1. mail' \in [Actors -> Seq(Msgs)] /\ local' \in [Actors -> Seq(Msgs)]
        BY <1>6, <2>1, <2>3, TakeMailType DEF NextMessage
      <3>2. Head(Synced(job[w])) \in Msgs
        BY <2>1, <2>3, SyncedType
      <3>3. Execute(w, Head(Synced(job[w])))
        BY <1>6, <2>3 DEF NextMessage
      <3> HIDE DEF Execute, Synced
      <3> QED
        BY <1>6, <2>1, <3>1, <3>2, <3>3, ExecuteType, ZenonT(60) DEF TypeOK, NextMessage
    <2> QED BY <2>2, <2>3
  <1>7. ASSUME NEW w \in Workers, HandlerReturn(w) PROVE TypeOK'
    BY <1>7, LoopHeadType DEF TypeOK, HandlerReturn
  <1>8. ASSUME NEW w \in Workers, DrainGet(w) \/ HasNextGet(w) PROVE TypeOK'
    <2>1. job[w] \in Actors
      BY <1>8 DEF DrainGet, HasNextGet, TypeOK
    <2>2. CASE Synced(job[w]) = <<>>
      BY <1>8, <2>2 DEF TypeOK, DrainGet, HasNextGet, GetFor, Locations
    <2>3. CASE Synced(job[w]) # <<>>
      <3>1. mail' \in [Actors -> Seq(Msgs)] /\ local' \in [Actors -> Seq(Msgs)]
        BY <1>8, <2>1, <2>3, TakeMailType DEF DrainGet, HasNextGet, GetFor
      <3>2. Head(Synced(job[w])) \in Msgs
        BY <2>1, <2>3, SyncedType
      <3>0. msg' = [msg EXCEPT ![w] = Head(Synced(job[w]))]
        BY <1>8, <2>3 DEF DrainGet, HasNextGet, GetFor
      <3>3. /\ msg' \in [Workers -> Msgs \cup {None}] /\ msg'[w] \in Msgs
            /\ \A v \in Workers \ {w} : msg'[v] = msg[v]
        BY <3>0, <3>2 DEF TypeOK
      <3>4. CASE DrainGet(w)
        BY <2>1, <2>3, <3>1, <3>3, <3>4 DEF TypeOK, DrainGet, GetFor, Locations
      <3>5. CASE HasNextGet(w)
        BY <2>1, <2>3, <3>1, <3>3, <3>5 DEF TypeOK, HasNextGet, GetFor, Locations
      <3> QED BY <1>8, <3>4, <3>5
    <2> QED BY <2>2, <2>3
  <1>9. ASSUME NEW w \in Workers, DrainPush(w) \/ HasNextPush(w) PROVE TypeOK'
    <2>1. job[w] \in Actors /\ msg[w] \in Msgs
      BY <1>9 DEF DrainPush, HasNextPush, TypeOK
    <2>2. cache' \in [Actors -> Seq(Msgs)]
      <3>1. cache' = [cache EXCEPT ![job[w]] = Append(@, msg[w])]
        BY <1>9 DEF DrainPush, HasNextPush, PushToCache
      <3> QED BY <2>1, <3>1 DEF TypeOK
    <2>3. CASE DrainPush(w)
      BY <2>1, <2>2, <2>3 DEF TypeOK, DrainPush, PushToCache, Locations
    <2>4. CASE HasNextPush(w)
      BY <2>1, <2>2, <2>4 DEF TypeOK, HasNextPush, PushToCache, Locations
    <2> QED BY <1>9, <2>3, <2>4
  <1>10. ASSUME NEW w \in Workers, Resume(w) PROVE TypeOK'
    <2>1. job[w] \in Actors
      BY <1>10 DEF Resume, TypeOK
    <2>2. [pc EXCEPT ![w] = "dequeue"] \in [Workers -> Locations]
      BY DEF TypeOK, Locations
    <2>3. /\ jobs' \in Seq(Actors)
          /\ pc' \in [Workers -> Locations]
          /\ \A v \in Workers :
               pc'[v] # [pc EXCEPT ![w] = "dequeue"][v] => pc'[v] = "dequeue"
      BY <1>10, <2>1, <2>2, EnqueueType DEF Resume
    <2> QED
      BY <1>10, <2>3 DEF TypeOK, Resume
  <1>11. ASSUME NEW w \in Workers, Crash(w) PROVE TypeOK'
    BY <1>11 DEF TypeOK, Crash
  <1>12. ASSUME NEW t \in Threads, NEW a \in Actors, NEW m \in Msgs, Put(t, a, m)
         PROVE  TypeOK'
    BY <1>12 DEF TypeOK, Put
  <1>13. ASSUME NEW t \in Threads, Submit(t) PROVE TypeOK'
    <2>1. pending[t] \in Actors
      BY <1>13 DEF Submit, TypeOK
    <2>2. /\ jobs' \in Seq(Actors)
          /\ pc' \in [Workers -> Locations]
          /\ \A v \in Workers : pc'[v] # pc[v] => pc'[v] = "dequeue"
      BY <1>13, <2>1, EnqueueType DEF Submit, TypeOK
    <2> QED
      BY <1>13, <2>2 DEF TypeOK, Submit
  <1>14. CASE UNCHANGED vars
    BY <1>14 DEF TypeOK, vars
  <1>15. ASSUME NEW w \in Workers, WorkerStep(w) PROVE TypeOK'
    BY <1>1, <1>2, <1>4, <1>5, <1>6, <1>7, <1>8, <1>9, <1>10, <1>15
    DEF WorkerStep
  <1> QED
    BY <1>3, <1>11, <1>12, <1>13, <1>14, <1>15 DEF Next

LEMMA TypeInit == Init => TypeOK
  <1> SUFFICES ASSUME Init PROVE TypeOK
    OBVIOUS
  <1>1. <<>> \in Seq(Actors) /\ <<>> \in Seq(Msgs)
    OBVIOUS
  <1>2. /\ mail \in [Actors -> Seq(Msgs)] /\ local \in [Actors -> Seq(Msgs)]
        /\ cache \in [Actors -> Seq(Msgs)] /\ handled \in [Actors -> Seq(Msgs)]
    BY <1>1 DEF Init
  <1> QED
    BY <1>1, <1>2 DEF Init, TypeOK, Locations

\* Every reachable state of the runtime is well typed: a worker in a run has
\* an actor, and a worker at a push, an erase or a handler has a message.
THEOREM TypeCorrect == Spec => []TypeOK
  BY TypeInit, TypeStep, PTL DEF Spec

-----------------------------------------------------------------------------
(* No lost wakeup. *)

LEMMA ContentsAppend ==
  ASSUME NEW S, NEW q \in Seq(S), NEW e \in S
  PROVE  Contents(Append(q, e)) = Contents(q) \cup {e}
  BY AppendProperties, LenProperties DEF Contents

LEMMA ContentsTail ==
  ASSUME NEW S, NEW q \in Seq(S), q # <<>>
  PROVE  Contents(q) = {Head(q)} \cup Contents(Tail(q))
  <1>1. /\ DOMAIN q = 1..Len(q) /\ Len(q) \in Nat \ {0}
        /\ DOMAIN Tail(q) = 1..(Len(q) - 1)
        /\ \A i \in 1..(Len(q) - 1) : Tail(q)[i] = q[i + 1]
    BY HeadTailProperties, LenProperties, EmptySeq
  <1>2. Head(q) = q[1]
    OBVIOUS
  <1>3. \A i \in 1..Len(q) : i = 1 \/ (i - 1 \in 1..(Len(q) - 1) /\ q[i] = Tail(q)[i - 1])
    BY <1>1
  <1>4. \A i \in 1..(Len(q) - 1) : i + 1 \in 1..Len(q) /\ Tail(q)[i] = q[i + 1]
    BY <1>1
  <1>5. 1 \in 1..Len(q)
    BY <1>1
  <1>6. ASSUME NEW x \in Contents(q) PROVE x = Head(q) \/ x \in Contents(Tail(q))
    <2>1. PICK i \in 1..Len(q) : x = q[i]
      BY <1>1 DEF Contents
    <2> QED BY <1>1, <1>2, <1>3, <2>1 DEF Contents
  <1>7. ASSUME NEW x \in Contents(Tail(q)) PROVE x \in Contents(q)
    <2>1. PICK i \in 1..(Len(q) - 1) : x = Tail(q)[i]
      BY <1>1, <1>7 DEF Contents
    <2> QED BY <1>1, <1>4, <2>1 DEF Contents
  <1>8. Head(q) \in Contents(q)
    BY <1>1, <1>2, <1>5 DEF Contents
  <1> QED BY <1>6, <1>7, <1>8

\* enqueue schedules its actor, unschedules nobody and ends no run.
LEMMA EnqueueSchedules ==
  ASSUME TypeOK, NEW a \in Actors, NEW p \in [Workers -> Locations],
         Enqueue(a, p)
  PROVE  /\ Contents(jobs') = Contents(jobs) \cup {a}
         /\ \A w \in Workers : pc'[w] = p[w] \/ (pc[w] = "waiting" /\ pc'[w] = "dequeue")
  <1>1. Contents(jobs') = Contents(jobs) \cup {a}
    BY ContentsAppend DEF Enqueue, TypeOK
  <1>2. CASE Waiting = {}
    BY <1>1, <1>2 DEF Enqueue
  <1>3. CASE Waiting # {}
    <2>1. PICK v \in Waiting : pc' = [p EXCEPT ![v] = "dequeue"]
      BY <1>3 DEF Enqueue
    <2> QED BY <1>1, <2>1 DEF Waiting
  <1> QED BY <1>2, <1>3

\* An actor whose mailbox get() finds empty has an empty mailbox.
LEMMA SyncedEmpty ==
  ASSUME NEW a, Synced(a) = <<>>
  PROVE  mail[a] = <<>> /\ local[a] = <<>>
  BY DEF Synced

\* get() touches only the mailbox of its actor.
LEMMA TakeMailFrame ==
  ASSUME TypeOK, NEW a \in Actors, TakeMail(a)
  PROVE  \A b \in Actors \ {a} : mail'[b] = mail[b] /\ local'[b] = local[b]
  BY DEF TakeMail, TypeOK

\* A step of w after which w's run will call get() again, and which leaves
\* the job queue, the pending submissions, the other workers and the other
\* mailboxes alone.
LEMMA RunGoesOn ==
  ASSUME TypeOK, InboxHasRunner, NEW w \in Workers, job[w] \in Actors,
         jobs' = jobs, pending' = pending, job' = job,
         pc'[w] \in {"pop", "erase", "next", "handler", "drain", "drain_push"},
         \A v \in Workers \ {w} : pc'[v] = pc[v],
         \A b \in Actors \ {job[w]} : mail'[b] = mail[b] /\ local'[b] = local[b]
  PROVE  InboxHasRunner'
  <1> SUFFICES ASSUME NEW b \in Actors, mail'[b] # <<>> \/ local'[b] # <<>>
               PROVE  Scheduled(b)' \/ WillGet(b)'
    BY DEF InboxHasRunner
  <1>1. CASE b = job[w]
    BY <1>1 DEF WillGet
  <1>2. CASE b # job[w]
    <2>1. Scheduled(b) \/ WillGet(b)
      BY <1>2 DEF InboxHasRunner
    <2>2. Scheduled(b) => Scheduled(b)'
      BY DEF Scheduled
    <2>3. WillGet(b) => WillGet(b)'
      BY <1>2 DEF WillGet
    <2> QED BY <2>1, <2>2, <2>3
  <1> QED BY <1>1, <1>2

LEMMA InboxStep ==
  TypeOK /\ TypeOK' /\ InboxHasRunner /\ [Next]_vars => InboxHasRunner'
  <1> SUFFICES ASSUME TypeOK, TypeOK', InboxHasRunner, [Next]_vars
               PROVE  InboxHasRunner'
    OBVIOUS
  <1> USE RuntimeAssumption
  <1>1. ASSUME NEW w \in Workers, Dequeue(w) PROVE InboxHasRunner'
    <2>1. /\ Head(jobs) \in Actors
          /\ Contents(jobs) = {Head(jobs)} \cup Contents(jobs')
      BY <1>1, ContentsTail DEF Dequeue, TypeOK
    <2>2. /\ pc'[w] \in {"pop", "drain"} /\ job'[w] = Head(jobs)
          /\ \A v \in Workers \ {w} : pc'[v] = pc[v] /\ job'[v] = job[v]
      BY <1>1 DEF Dequeue, TypeOK, LoopHead
    <2> SUFFICES ASSUME NEW b \in Actors, mail[b] # <<>> \/ local[b] # <<>>
                 PROVE  Scheduled(b)' \/ WillGet(b)'
      BY <1>1 DEF InboxHasRunner, Dequeue
    <2>3. CASE b = Head(jobs)
      BY <2>2, <2>3 DEF WillGet
    <2>4. CASE b # Head(jobs)
      <3>1. Scheduled(b) => Scheduled(b)'
        BY <1>1, <2>1, <2>4 DEF Scheduled, Dequeue
      <3>2. WillGet(b) => WillGet(b)'
        BY <1>1, <2>2 DEF WillGet, Dequeue
      <3> QED BY <3>1, <3>2 DEF InboxHasRunner
    <2> QED BY <2>3, <2>4
  <1>2. ASSUME NEW w \in Workers, Wait(w) \/ SpuriousWakeup(w) PROVE InboxHasRunner'
    <2>1. /\ \A v \in Workers \ {w} : pc'[v] = pc[v]
          /\ pc[w] \in {"dequeue", "waiting"}
          /\ UNCHANGED <<jobs, pending, job, mail, local>>
      BY <1>2 DEF Wait, SpuriousWakeup, TypeOK
    <2> QED
      BY <2>1 DEF InboxHasRunner, WillGet, Scheduled
  <1>3. ASSUME NEW w \in Workers, PopFront(w) PROVE InboxHasRunner'
    <2>1. /\ pc'[w] \in {"next", "erase"} /\ job[w] \in Actors
          /\ \A v \in Workers \ {w} : pc'[v] = pc[v]
      BY <1>3 DEF PopFront, TypeOK
    <2> QED BY <1>3, <2>1, RunGoesOn DEF PopFront
  <1>4. ASSUME NEW w \in Workers, EraseFront(w) PROVE InboxHasRunner'
    <2>1. /\ pc'[w] = "handler" /\ job[w] \in Actors
          /\ \A v \in Workers \ {w} : pc'[v] = pc[v]
      BY <1>4 DEF EraseFront, Execute, TypeOK
    <2> QED BY <1>4, <2>1, RunGoesOn DEF EraseFront
  <1>5. ASSUME NEW w \in Workers, NextMessage(w) PROVE InboxHasRunner'
    <2>1. job[w] \in Actors
      BY <1>5 DEF NextMessage, TypeOK
    <2>2. CASE Synced(job[w]) = <<>>
      <3>1. /\ mail[job[w]] = <<>> /\ local[job[w]] = <<>>
            /\ \A v \in Workers \ {w} : pc'[v] = pc[v]
            /\ UNCHANGED <<jobs, pending, job, mail, local>>
        BY <1>5, <2>2, SyncedEmpty DEF NextMessage, TypeOK
      <3> QED BY <3>1 DEF InboxHasRunner, WillGet, Scheduled
    <2>3. CASE Synced(job[w]) # <<>>
      <3>1. /\ pc'[w] = "handler"
            /\ \A v \in Workers \ {w} : pc'[v] = pc[v]
        BY <1>5, <2>3 DEF NextMessage, Execute, TypeOK
      <3>2. \A b \in Actors \ {job[w]} : mail'[b] = mail[b] /\ local'[b] = local[b]
        BY <1>5, <2>1, <2>3, TakeMailFrame DEF NextMessage
      <3> QED BY <1>5, <2>1, <3>1, <3>2, RunGoesOn DEF NextMessage
    <2> QED BY <2>2, <2>3
  <1>6. ASSUME NEW w \in Workers, HandlerReturn(w) PROVE InboxHasRunner'
    <2>1. /\ pc'[w] \in {"pop", "drain"} /\ job[w] \in Actors
          /\ \A v \in Workers \ {w} : pc'[v] = pc[v]
      BY <1>6 DEF HandlerReturn, LoopHead, TypeOK
    <2> QED BY <1>6, <2>1, RunGoesOn DEF HandlerReturn
  <1>7. ASSUME NEW w \in Workers, DrainGet(w) PROVE InboxHasRunner'
    <2>1. job[w] \in Actors
      BY <1>7 DEF DrainGet, TypeOK
    <2>2. CASE Synced(job[w]) = <<>>
      <3>1. /\ mail[job[w]] = <<>> /\ local[job[w]] = <<>>
            /\ \A v \in Workers \ {w} : pc'[v] = pc[v]
            /\ UNCHANGED <<jobs, pending, job, mail, local>>
        BY <1>7, <2>2, SyncedEmpty DEF DrainGet, GetFor, TypeOK
      <3> QED BY <3>1 DEF InboxHasRunner, WillGet, Scheduled
    <2>3. CASE Synced(job[w]) # <<>>
      <3>1. /\ pc'[w] = "drain_push"
            /\ \A v \in Workers \ {w} : pc'[v] = pc[v]
        BY <1>7, <2>3 DEF DrainGet, GetFor, TypeOK
      <3>2. \A b \in Actors \ {job[w]} : mail'[b] = mail[b] /\ local'[b] = local[b]
        BY <1>7, <2>1, <2>3, TakeMailFrame DEF DrainGet, GetFor
      <3> QED BY <1>7, <2>1, <3>1, <3>2, RunGoesOn DEF DrainGet, GetFor
    <2> QED BY <2>2, <2>3
  <1>8. ASSUME NEW w \in Workers, DrainPush(w) PROVE InboxHasRunner'
    <2>1. /\ pc'[w] = "drain" /\ job[w] \in Actors
          /\ \A v \in Workers \ {w} : pc'[v] = pc[v]
      BY <1>8 DEF DrainPush, PushToCache, TypeOK
    <2> QED BY <1>8, <2>1, RunGoesOn DEF DrainPush, PushToCache
  <1>9. ASSUME NEW w \in Workers, HasNextGet(w) PROVE InboxHasRunner'
    <2>1. /\ job[w] \in Actors /\ pc[w] = "has_next"
          /\ \A v \in Workers \ {w} : pc'[v] = pc[v]
          /\ UNCHANGED <<jobs, pending, job>>
      BY <1>9 DEF HasNextGet, GetFor, TypeOK
    <2>2. \A b \in Actors : WillGet(b) => WillGet(b)'
      BY <2>1 DEF WillGet
    <2>3. \A b \in Actors : Scheduled(b) => Scheduled(b)'
      BY <2>1 DEF Scheduled
    <2>4. \A b \in Actors \ {job[w]} : mail'[b] = mail[b] /\ local'[b] = local[b]
      BY <1>9, <2>1, TakeMailFrame DEF HasNextGet, GetFor
    <2>5. Synced(job[w]) = <<>> => UNCHANGED <<mail, local>>
      BY <1>9 DEF HasNextGet, GetFor
    <2>6. Synced(job[w]) # <<>> => mail[job[w]] # <<>> \/ local[job[w]] # <<>>
      BY DEF Synced
    <2> QED BY <2>2, <2>3, <2>4, <2>5, <2>6 DEF InboxHasRunner
  <1>10. ASSUME NEW w \in Workers, HasNextPush(w) PROVE InboxHasRunner'
    <2>1. /\ pc[w] = "has_next_push"
          /\ \A v \in Workers \ {w} : pc'[v] = pc[v]
          /\ UNCHANGED <<jobs, pending, job, mail, local>>
      BY <1>10 DEF HasNextPush, PushToCache, TypeOK
    <2> QED BY <2>1 DEF InboxHasRunner, WillGet, Scheduled
  <1>11. ASSUME NEW w \in Workers, Resume(w) PROVE InboxHasRunner'
    <2>1. /\ job[w] \in Actors /\ pc[w] = "resume"
          /\ [pc EXCEPT ![w] = "dequeue"] \in [Workers -> Locations]
          /\ \A v \in Workers \ {w} : [pc EXCEPT ![w] = "dequeue"][v] = pc[v]
      BY <1>11 DEF Resume, TypeOK, Locations
    <2>2. /\ Contents(jobs') = Contents(jobs) \cup {job[w]}
          /\ \A v \in Workers \ {w} :
               pc'[v] = pc[v] \/ (pc[v] = "waiting" /\ pc'[v] = "dequeue")
      BY <1>11, <2>1, EnqueueSchedules DEF Resume
    <2> QED
      BY <1>11, <2>1, <2>2 DEF Resume, InboxHasRunner, WillGet, Scheduled
  <1>12. ASSUME NEW w \in Workers, Crash(w) PROVE InboxHasRunner'
    BY <1>12 DEF Crash, InboxHasRunner, WillGet, Scheduled
  <1>13. ASSUME NEW t \in Threads, NEW a \in Actors, NEW m \in Msgs, Put(t, a, m)
         PROVE  InboxHasRunner'
    <2>1. /\ pending[t] = None /\ pending'[t] = a
          /\ \A u \in Threads \ {t} : pending'[u] = pending[u]
          /\ \A b \in Actors \ {a} : mail'[b] = mail[b]
          /\ UNCHANGED <<jobs, local, pc, job>>
      BY <1>13 DEF Put, CanSend, TypeOK
    <2> QED BY <2>1 DEF InboxHasRunner, WillGet, Scheduled
  <1>14. ASSUME NEW t \in Threads, Submit(t) PROVE InboxHasRunner'
    <2>1. /\ pending[t] \in Actors
          /\ \A u \in Threads \ {t} : pending'[u] = pending[u]
          /\ UNCHANGED <<mail, local, job>>
      BY <1>14 DEF Submit, TypeOK
    <2>2. /\ Contents(jobs') = Contents(jobs) \cup {pending[t]}
          /\ \A v \in Workers :
               pc'[v] = pc[v] \/ (pc[v] = "waiting" /\ pc'[v] = "dequeue")
      <3>1. pc \in [Workers -> Locations]
        BY DEF TypeOK
      <3>2. Enqueue(pending[t], pc)
        BY <1>14 DEF Submit
      <3> QED BY <2>1, <3>1, <3>2, EnqueueSchedules
    <2> QED
      BY <2>1, <2>2 DEF InboxHasRunner, WillGet, Scheduled
  <1>15. CASE UNCHANGED vars
    BY <1>15 DEF vars, InboxHasRunner, WillGet, Scheduled
  <1>16. ASSUME NEW w \in Workers, WorkerStep(w) PROVE InboxHasRunner'
    BY <1>1, <1>2, <1>3, <1>4, <1>5, <1>6, <1>7, <1>8, <1>9, <1>10, <1>11, <1>16
    DEF WorkerStep
  <1> QED
    BY <1>2, <1>12, <1>13, <1>14, <1>15, <1>16 DEF Next

\* With any number of workers, no message that its mutex protects waits in a
\* mailbox without a submission, a queued job or a run that will find it.
THEOREM NoLostWakeup == Spec => []InboxHasRunner
  <1>1. Init => InboxHasRunner
    BY DEF Init, InboxHasRunner
  <1> QED
    BY <1>1, InboxStep, TypeCorrect, PTL DEF Spec

-----------------------------------------------------------------------------
(* Work conservation of the job queue. *)

AtDequeue == {w \in Workers : pc[w] = "dequeue"}

LEMMA AtDequeueFinite ==
  IsFiniteSet(AtDequeue) /\ Cardinality(AtDequeue) \in Nat
  BY RuntimeAssumption, FS_Subset, FS_CardinalityType DEF AtDequeue

\* A step that puts no worker to sleep, takes none away from dequeue and
\* leaves the job queue alone.
LEMMA DequeueFrame ==
  ASSUME TypeOK, WorkConserving, jobs' = jobs,
         AtDequeue \subseteq AtDequeue', Waiting' \subseteq Waiting
  PROVE  WorkConserving'
  <1>1. IsFiniteSet(AtDequeue') /\ Cardinality(AtDequeue') \in Nat
    BY AtDequeueFinite, RuntimeAssumption, FS_Subset, FS_CardinalityType DEF AtDequeue
  <1>2. Cardinality(AtDequeue) <= Cardinality(AtDequeue')
    BY <1>1, FS_Subset
  <1>3. Cardinality(AtDequeue) \in Nat /\ Len(jobs) \in Nat
    BY AtDequeueFinite DEF TypeOK
  <1> QED
    BY <1>1, <1>2, <1>3 DEF WorkConserving, AtDequeue

\* enqueue: the job it adds is matched by the worker it wakes.
LEMMA EnqueueConserves ==
  ASSUME TypeOK, WorkConserving, NEW a \in Actors,
         NEW p \in [Workers -> Locations], Enqueue(a, p),
         \A w \in Workers : p[w] = pc[w] \/ (p[w] = "dequeue" /\ pc[w] # "waiting")
  PROVE  WorkConserving'
  <1>1. CASE Waiting = {}
    <2>1. Waiting' = {}
      BY <1>1 DEF Enqueue, Waiting
    <2> QED BY <2>1 DEF WorkConserving
  <1>2. CASE Waiting # {}
    <2>1. PICK v \in Waiting : pc' = [p EXCEPT ![v] = "dequeue"]
      BY <1>2 DEF Enqueue
    <2>2. v \in Workers /\ v \notin AtDequeue /\ AtDequeue \cup {v} \subseteq AtDequeue'
      BY <2>1 DEF Waiting, AtDequeue
    <2>3. IsFiniteSet(AtDequeue') /\ Cardinality(AtDequeue') \in Nat
      BY RuntimeAssumption, FS_Subset, FS_CardinalityType DEF AtDequeue
    <2>4. Cardinality(AtDequeue \cup {v}) = Cardinality(AtDequeue) + 1
      BY <2>2, AtDequeueFinite, FS_AddElement
    <2>5. Cardinality(AtDequeue \cup {v}) <= Cardinality(AtDequeue')
      BY <2>2, <2>3, FS_Subset
    <2>6. Len(jobs') = Len(jobs) + 1 /\ Len(jobs) \in Nat
      BY DEF Enqueue, TypeOK
    <2>7. Len(jobs) <= Cardinality(AtDequeue)
      BY <1>2 DEF WorkConserving, AtDequeue
    <2>8. Len(jobs') <= Cardinality(AtDequeue')
      BY <2>3, <2>4, <2>5, <2>6, <2>7, AtDequeueFinite
    <2> QED BY <2>8 DEF WorkConserving, AtDequeue
  <1> QED BY <1>1, <1>2

LEMMA ConservingStep ==
  TypeOK /\ TypeOK' /\ WorkConserving /\ [Next]_vars => WorkConserving'
  <1> SUFFICES ASSUME TypeOK, TypeOK', WorkConserving, [Next]_vars
               PROVE  WorkConserving'
    OBVIOUS
  <1> USE RuntimeAssumption
  <1>1. ASSUME NEW w \in Workers, Dequeue(w) PROVE WorkConserving'
    <2>1. /\ AtDequeue' = AtDequeue \ {w} /\ w \in AtDequeue
          /\ Waiting' = Waiting
      BY <1>1 DEF Dequeue, TypeOK, LoopHead, AtDequeue, Waiting
    <2>2. Cardinality(AtDequeue') = Cardinality(AtDequeue) - 1
      BY <2>1, AtDequeueFinite, FS_RemoveElement
    <2>3. Len(jobs') = Len(jobs) - 1 /\ Len(jobs) \in Nat
      BY <1>1 DEF Dequeue, TypeOK
    <2> QED
      BY <2>1, <2>2, <2>3, AtDequeueFinite DEF WorkConserving, AtDequeue
  <1>2. ASSUME NEW w \in Workers, Wait(w) PROVE WorkConserving'
    <2>1. Len(jobs') = 0
      BY <1>2 DEF Wait
    <2>2. Cardinality(AtDequeue') \in Nat
      BY FS_Subset, FS_CardinalityType DEF AtDequeue
    <2> QED
      BY <2>1, <2>2 DEF WorkConserving, AtDequeue
  <1>3. ASSUME NEW w \in Workers, SpuriousWakeup(w) PROVE WorkConserving'
    <2>1. jobs' = jobs /\ AtDequeue \subseteq AtDequeue' /\ Waiting' \subseteq Waiting
      BY <1>3 DEF SpuriousWakeup, TypeOK, AtDequeue, Waiting
    <2> QED BY <2>1, DequeueFrame
  <1>4. ASSUME NEW w \in Workers,
               \/ PopFront(w) \/ EraseFront(w) \/ NextMessage(w)
               \/ HandlerReturn(w) \/ DrainGet(w) \/ DrainPush(w)
               \/ HasNextGet(w) \/ HasNextPush(w)
        PROVE  WorkConserving'
    <2>1. /\ jobs' = jobs
          /\ pc[w] \notin {"dequeue", "waiting"} /\ pc'[w] # "waiting"
          /\ \A v \in Workers \ {w} : pc'[v] = pc[v]
      <3>1. CASE PopFront(w)
        BY <3>1 DEF PopFront, TypeOK
      <3>2. CASE EraseFront(w)
        BY <3>2 DEF EraseFront, Execute, TypeOK
      <3>3. CASE NextMessage(w)
        BY <3>3 DEF NextMessage, Execute, TypeOK
      <3>4. CASE HandlerReturn(w)
        BY <3>4 DEF HandlerReturn, LoopHead, TypeOK
      <3>5. CASE DrainGet(w) \/ HasNextGet(w)
        BY <3>5 DEF DrainGet, HasNextGet, GetFor, TypeOK
      <3>6. CASE DrainPush(w) \/ HasNextPush(w)
        BY <3>6 DEF DrainPush, HasNextPush, PushToCache, TypeOK
      <3> QED BY <1>4, <3>1, <3>2, <3>3, <3>4, <3>5, <3>6
    <2>2. AtDequeue \subseteq AtDequeue' /\ Waiting' \subseteq Waiting
      BY <2>1 DEF AtDequeue, Waiting
    <2> QED BY <2>1, <2>2, DequeueFrame
  <1>5. ASSUME NEW w \in Workers, Resume(w) PROVE WorkConserving'
    <2>1. /\ job[w] \in Actors
          /\ [pc EXCEPT ![w] = "dequeue"] \in [Workers -> Locations]
          /\ \A v \in Workers :
               \/ [pc EXCEPT ![w] = "dequeue"][v] = pc[v]
               \/ [pc EXCEPT ![w] = "dequeue"][v] = "dequeue" /\ pc[v] # "waiting"
      BY <1>5 DEF Resume, TypeOK, Locations
    <2> QED BY <1>5, <2>1, EnqueueConserves DEF Resume
  <1>6. ASSUME NEW w \in Workers, Crash(w) PROVE WorkConserving'
    BY <1>6 DEF Crash, WorkConserving, Waiting
  <1>7. ASSUME NEW t \in Threads, NEW a \in Actors, NEW m \in Msgs, Put(t, a, m)
        PROVE  WorkConserving'
    BY <1>7 DEF Put, WorkConserving, Waiting
  <1>8. ASSUME NEW t \in Threads, Submit(t) PROVE WorkConserving'
    <2>1. pending[t] \in Actors
      BY <1>8 DEF Submit, TypeOK
    <2> QED BY <1>8, <2>1, EnqueueConserves DEF Submit, TypeOK
  <1>9. CASE UNCHANGED vars
    BY <1>9 DEF vars, WorkConserving, Waiting
  <1>10. ASSUME NEW w \in Workers, WorkerStep(w) PROVE WorkConserving'
    BY <1>1, <1>2, <1>4, <1>5, <1>10 DEF WorkerStep
  <1> QED
    BY <1>3, <1>6, <1>7, <1>8, <1>9, <1>10 DEF Next

\* With any number of workers, a worker sleeps in dequeue only while every
\* queued job has an awake worker about to dequeue.
THEOREM JobsHaveWorkers == Spec => []WorkConserving
  <1>1. Init => WorkConserving
    BY DEF Init, WorkConserving, Waiting
  <1> QED
    BY <1>1, ConservingStep, TypeCorrect, PTL DEF Spec

-----------------------------------------------------------------------------
(***************************************************************************)
(* One worker thread, which is what the shipped configurations start       *)
(* (num_worker_threads = 1).                                               *)
(***************************************************************************)

\* Worker w is inside async_actor::run.
Running(w) == pc[w] \notin {"dequeue", "waiting"}

\* The cache belongs to the run that uses it: the front that pop_to_cache
\* copied is still there when it is erased, and next_message is reached with
\* an empty cache only.
CacheOwned ==
  \A w \in Workers :
    /\ pc[w] = "erase" =>
         cache[job[w]] # <<>> /\ msg[w] = Head(cache[job[w]])
    /\ pc[w] = "next" => cache[job[w]] = <<>>

\* A cached message is scheduled or its actor runs; the message that
\* has_next_message found arrived after the drain, so its submission has not
\* been consumed by the run that is about to return awaiting.
CacheScheduled ==
  /\ \A w \in Workers : pc[w] = "has_next_push" => Scheduled(job[w])
  /\ \A a \in Actors :
       cache[a] # <<>> =>
         Scheduled(a) \/ \E w \in Workers : job[w] = a /\ Running(w)

SoleInv == ~crashed /\ CacheOwned /\ CacheScheduled

\* Nothing is unscheduled except by the dequeue of its job.
LEMMA ScheduledStep ==
  ASSUME TypeOK, TypeOK', [Next]_vars,
         \A w \in Workers : ~Dequeue(w),
         NEW a \in Actors, Scheduled(a)
  PROVE  Scheduled(a)'
  <1> USE RuntimeAssumption
  <1>1. ASSUME NEW w \in Workers,
               \/ Wait(w) \/ PopFront(w) \/ EraseFront(w) \/ NextMessage(w)
               \/ HandlerReturn(w) \/ DrainGet(w) \/ DrainPush(w)
               \/ HasNextGet(w) \/ HasNextPush(w) \/ SpuriousWakeup(w)
               \/ Crash(w)
        PROVE  Scheduled(a)'
    <2>1. jobs' = jobs /\ pending' = pending
      BY <1>1 DEF Wait, PopFront, EraseFront, NextMessage, HandlerReturn,
         DrainGet, HasNextGet, GetFor, DrainPush, HasNextPush, PushToCache,
         SpuriousWakeup, Crash
    <2> QED BY <2>1 DEF Scheduled
  <1>2. ASSUME NEW w \in Workers, Resume(w) PROVE Scheduled(a)'
    <2>1. job[w] \in Actors
      BY <1>2 DEF Resume, TypeOK
    <2>2. Contents(jobs') = Contents(jobs) \cup {job[w]}
      BY <1>2, <2>1, ContentsAppend DEF Resume, Enqueue, TypeOK
    <2> QED BY <1>2, <2>2 DEF Resume, Scheduled
  <1>3. ASSUME NEW t \in Threads, NEW b \in Actors, NEW m \in Msgs, Put(t, b, m)
        PROVE  Scheduled(a)'
    <2>1. /\ pending[t] = None /\ jobs' = jobs
          /\ \A u \in Threads \ {t} : pending'[u] = pending[u]
      BY <1>3 DEF Put, CanSend, TypeOK
    <2> QED BY <2>1 DEF Scheduled
  <1>4. ASSUME NEW t \in Threads, Submit(t) PROVE Scheduled(a)'
    <2>1. /\ pending[t] \in Actors
          /\ \A u \in Threads \ {t} : pending'[u] = pending[u]
      BY <1>4 DEF Submit, TypeOK
    <2>2. Contents(jobs') = Contents(jobs) \cup {pending[t]}
      BY <1>4, <2>1, ContentsAppend DEF Submit, Enqueue, TypeOK
    <2> QED BY <2>1, <2>2 DEF Scheduled
  <1>5. CASE UNCHANGED vars
    BY <1>5 DEF vars, Scheduled
  <1>6. ASSUME NEW w \in Workers, WorkerStep(w) PROVE Scheduled(a)'
    BY <1>1, <1>2, <1>6 DEF WorkerStep
  <1> QED BY <1>1, <1>3, <1>4, <1>5, <1>6 DEF Next

\* A step of the worker that neither moves it to one of the locations SoleInv
\* speaks of nor ends its run, and leaves the cache alone.
LEMMA PlainRunStep ==
  ASSUME TypeOK, TypeOK', [Next]_vars, SoleInv, SoleWorker, NEW w \in Workers,
         ~Dequeue(w), crashed' = crashed, cache' = cache, job' = job,
         Running(w) => Running(w)',
         pc'[w] \notin {"erase", "next", "has_next_push"}
  PROVE  SoleInv'
  <1>1. \A v \in Workers : v = w
    BY DEF SoleWorker
  <1>2. \A a \in Actors : Scheduled(a) => Scheduled(a)'
    BY <1>1, ScheduledStep
  <1>3. CacheOwned'
    BY <1>1 DEF CacheOwned
  <1>4. CacheScheduled'
    BY <1>1, <1>2 DEF CacheScheduled, SoleInv
  <1> QED BY <1>3, <1>4 DEF SoleInv

LEMMA SoleStep ==
  ASSUME SoleWorker
  PROVE  /\ TypeOK /\ TypeOK' /\ InboxHasRunner /\ SoleInv /\ [Next]_vars
         => SoleInv'
  <1> SUFFICES ASSUME TypeOK, TypeOK', InboxHasRunner, SoleInv, [Next]_vars
               PROVE  SoleInv'
    OBVIOUS
  <1> USE RuntimeAssumption
  <1>1. ASSUME NEW w \in Workers, Dequeue(w) PROVE SoleInv'
    <2>0. \A v \in Workers : v = w
      BY DEF SoleWorker
    <2>1. /\ Contents(jobs) = {Head(jobs)} \cup Contents(jobs')
          /\ pc'[w] \in {"pop", "drain"} /\ job'[w] = Head(jobs)
          /\ pc[w] = "dequeue" /\ crashed' = crashed
          /\ UNCHANGED <<cache, pending>>
      BY <1>1, ContentsTail DEF Dequeue, TypeOK, LoopHead
    <2>2. ASSUME NEW a \in Actors, cache'[a] # <<>>
          PROVE  Scheduled(a)' \/ \E v \in Workers : (job[v] = a /\ Running(v))'
      <3>1. Scheduled(a)
        BY <2>0, <2>1, <2>2 DEF SoleInv, CacheScheduled, Running
      <3> QED BY <2>1, <3>1 DEF Scheduled, Running
    <2>3. CacheOwned'
      BY <2>0, <2>1 DEF CacheOwned
    <2> QED BY <2>0, <2>1, <2>2, <2>3 DEF SoleInv, CacheScheduled
  <1>2. ASSUME NEW w \in Workers, Wait(w) \/ SpuriousWakeup(w) PROVE SoleInv'
    <2>1. /\ pc'[w] \in {"dequeue", "waiting"} /\ pc[w] \in {"dequeue", "waiting"}
          /\ ~Dequeue(w) /\ UNCHANGED <<crashed, cache, job>>
      BY <1>2 DEF Wait, SpuriousWakeup, TypeOK, Dequeue
    <2> QED BY <2>1, PlainRunStep DEF Running
  <1>3. ASSUME NEW w \in Workers, PopFront(w) PROVE SoleInv'
    <2>0. \A v \in Workers : v = w
      BY DEF SoleWorker
    <2>1. /\ pc[w] = "pop" /\ UNCHANGED <<crashed, cache, job>>
          /\ \/ pc'[w] = "next" /\ cache[job[w]] = <<>>
             \/ pc'[w] = "erase" /\ cache[job[w]] # <<>> /\ msg'[w] = Head(cache[job[w]])
      BY <1>3 DEF PopFront, TypeOK
    <2>2. \A a \in Actors : Scheduled(a) => Scheduled(a)'
      BY <2>0, <2>1, ScheduledStep DEF Dequeue
    <2>3. CacheOwned'
      BY <2>0, <2>1 DEF CacheOwned
    <2>4. CacheScheduled'
      BY <2>0, <2>1, <2>2 DEF SoleInv, CacheScheduled, Running
    <2> QED BY <2>1, <2>3, <2>4 DEF SoleInv
  <1>4. ASSUME NEW w \in Workers, EraseFront(w) \/ DrainPush(w) PROVE SoleInv'
    <2>0. \A v \in Workers : v = w
      BY DEF SoleWorker
    <2>1. /\ pc[w] \in {"erase", "drain_push"} /\ pc'[w] \in {"handler", "drain"}
          /\ \A a \in Actors \ {job[w]} : cache'[a] = cache[a]
          /\ UNCHANGED <<crashed, job>>
      BY <1>4 DEF EraseFront, Execute, DrainPush, PushToCache, TypeOK
    <2>2. \A a \in Actors : Scheduled(a) => Scheduled(a)'
      BY <2>0, <2>1, ScheduledStep DEF Dequeue
    <2>3. CacheOwned'
      BY <2>0, <2>1 DEF CacheOwned
    <2>4. CacheScheduled'
      BY <2>0, <2>1, <2>2 DEF SoleInv, CacheScheduled, Running
    <2> QED BY <2>1, <2>3, <2>4 DEF SoleInv
  <1>5. ASSUME NEW w \in Workers, NextMessage(w) PROVE SoleInv'
    <2>0. \A v \in Workers : v = w
      BY DEF SoleWorker
    <2>1. /\ pc[w] = "next" /\ pc'[w] \in {"handler", "dequeue"}
          /\ cache[job[w]] = <<>> /\ UNCHANGED <<crashed, cache, job>>
      BY <1>5 DEF NextMessage, Execute, TypeOK, SoleInv, CacheOwned
    <2>2. \A a \in Actors : Scheduled(a) => Scheduled(a)'
      BY <2>0, <2>1, ScheduledStep DEF Dequeue
    <2>3. CacheOwned'
      BY <2>0, <2>1 DEF CacheOwned
    <2>4. CacheScheduled'
      BY <2>0, <2>1, <2>2 DEF SoleInv, CacheScheduled, Running
    <2> QED BY <2>1, <2>3, <2>4 DEF SoleInv
  <1>6. ASSUME NEW w \in Workers, HandlerReturn(w) \/ DrainGet(w) PROVE SoleInv'
    <2>1. /\ pc[w] \in {"handler", "drain"}
          /\ pc'[w] \in {"pop", "drain", "drain_push", "has_next"}
          /\ UNCHANGED <<crashed, cache, job>>
      BY <1>6 DEF HandlerReturn, LoopHead, DrainGet, GetFor, TypeOK
    <2> QED BY <2>1, PlainRunStep DEF Running, Dequeue
  <1>7. ASSUME NEW w \in Workers, HasNextGet(w) PROVE SoleInv'
    <2>0. \A v \in Workers : v = w
      BY DEF SoleWorker
    <2>1. /\ pc[w] = "has_next" /\ job[w] \in Actors
          /\ UNCHANGED <<crashed, cache, job>>
          /\ \/ pc'[w] = "resume"
             \/ pc'[w] = "has_next_push" /\ Synced(job[w]) # <<>>
      BY <1>7 DEF HasNextGet, GetFor, TypeOK
    <2>2. \A a \in Actors : Scheduled(a) => Scheduled(a)'
      BY <2>0, <2>1, ScheduledStep DEF Dequeue
    <2>3. Synced(job[w]) # <<>> => Scheduled(job[w])
      BY <2>0, <2>1 DEF Synced, InboxHasRunner, WillGet
    <2>4. CacheOwned'
      BY <2>0, <2>1 DEF CacheOwned
    <2>5. CacheScheduled'
      BY <2>0, <2>1, <2>2, <2>3 DEF SoleInv, CacheScheduled, Running
    <2> QED BY <2>1, <2>4, <2>5 DEF SoleInv
  <1>8. ASSUME NEW w \in Workers, HasNextPush(w) PROVE SoleInv'
    <2>0. \A v \in Workers : v = w
      BY DEF SoleWorker
    <2>1. /\ pc[w] = "has_next_push" /\ pc'[w] = "dequeue" /\ job[w] \in Actors
          /\ \A a \in Actors \ {job[w]} : cache'[a] = cache[a]
          /\ UNCHANGED <<crashed, job>>
      BY <1>8 DEF HasNextPush, PushToCache, TypeOK
    <2>2. \A a \in Actors : Scheduled(a) => Scheduled(a)'
      BY <2>0, <2>1, ScheduledStep DEF Dequeue
    <2>3. Scheduled(job[w])
      BY <2>1 DEF SoleInv, CacheScheduled
    <2>4. CacheOwned'
      BY <2>0, <2>1 DEF CacheOwned
    <2>5. CacheScheduled'
      BY <2>0, <2>1, <2>2, <2>3 DEF SoleInv, CacheScheduled, Running
    <2> QED BY <2>1, <2>4, <2>5 DEF SoleInv
  <1>9. ASSUME NEW w \in Workers, Resume(w) PROVE SoleInv'
    <2>0. \A v \in Workers : v = w
      BY DEF SoleWorker
    <2>1. /\ job[w] \in Actors /\ pc[w] = "resume" /\ UNCHANGED <<crashed, cache, job>>
          /\ [pc EXCEPT ![w] = "dequeue"] \in [Workers -> Locations]
          /\ [pc EXCEPT ![w] = "dequeue"][w] = "dequeue"
      BY <1>9 DEF Resume, TypeOK, Locations
    <2>2. /\ Contents(jobs') = Contents(jobs) \cup {job[w]}
          /\ pc'[w] = "dequeue"
      BY <1>9, <2>1, EnqueueSchedules DEF Resume
    <2>3. \A a \in Actors : Scheduled(a) => Scheduled(a)'
      BY <2>0, <2>1, ScheduledStep DEF Dequeue
    <2>4. Scheduled(job[w])'
      BY <2>1, <2>2 DEF Scheduled
    <2>5. CacheOwned'
      BY <2>0, <2>2 DEF CacheOwned
    <2>6. CacheScheduled'
      BY <2>0, <2>1, <2>2, <2>3, <2>4 DEF SoleInv, CacheScheduled, Running
    <2> QED BY <2>1, <2>5, <2>6 DEF SoleInv
  <1>10. ASSUME NEW w \in Workers PROVE ~Crash(w)
    BY DEF Crash, CacheRace, SoleWorker, SoleInv, CacheOwned
  <1>11. ASSUME NEW t \in Threads, NEW a \in Actors, NEW m \in Msgs, Put(t, a, m)
         PROVE  SoleInv'
    <2>1. UNCHANGED <<crashed, cache, job, pc, msg, jobs>>
      BY <1>11 DEF Put
    <2>2. \A w \in Workers : ~Dequeue(w)
      BY <2>1 DEF Dequeue, TypeOK
    <2>3. \A b \in Actors : Scheduled(b) => Scheduled(b)'
      BY <2>2, ScheduledStep
    <2>4. CacheOwned'
      BY <2>1 DEF SoleInv, CacheOwned
    <2>5. CacheScheduled'
      BY <2>1, <2>3 DEF SoleInv, CacheScheduled, Running, TypeOK
    <2> QED BY <2>1, <2>4, <2>5 DEF SoleInv
  <1>12. ASSUME NEW t \in Threads, Submit(t) PROVE SoleInv'
    <2>1. pending[t] \in Actors /\ UNCHANGED <<crashed, cache, job, msg>>
      BY <1>12 DEF Submit, TypeOK
    <2>2. \A v \in Workers :
            pc'[v] = pc[v] \/ (pc[v] = "waiting" /\ pc'[v] = "dequeue")
      BY <1>12, <2>1, EnqueueSchedules DEF Submit, TypeOK
    <2>3. \A w \in Workers : ~Dequeue(w)
      BY <2>1, <2>2 DEF Dequeue, LoopHead, TypeOK
    <2>4. \A b \in Actors : Scheduled(b) => Scheduled(b)'
      BY <2>3, ScheduledStep
    <2>5. CacheOwned'
      BY <2>1, <2>2 DEF SoleInv, CacheOwned
    <2>6. CacheScheduled'
      BY <2>1, <2>2, <2>4 DEF SoleInv, CacheScheduled, Running, TypeOK
    <2> QED BY <2>1, <2>5, <2>6 DEF SoleInv
  <1>13. CASE UNCHANGED vars
    BY <1>13 DEF vars, SoleInv, CacheOwned, CacheScheduled, Scheduled, Running
  <1>14. ASSUME NEW w \in Workers, WorkerStep(w) PROVE SoleInv'
    BY <1>1, <1>2, <1>3, <1>4, <1>5, <1>6, <1>7, <1>8, <1>9, <1>14
    DEF WorkerStep
  <1> QED
    BY <1>2, <1>10, <1>11, <1>12, <1>13, <1>14 DEF Next

LEMMA SoleInvariant ==
  ASSUME SoleWorker
  PROVE  Spec => [](TypeOK /\ InboxHasRunner /\ SoleInv)
  <1>1. Init => SoleInv
    BY DEF Init, SoleInv, CacheOwned, CacheScheduled
  <1>2. TypeOK /\ TypeOK' /\ InboxHasRunner /\ SoleInv /\ [Next]_vars => SoleInv'
    BY SoleStep
  <1> QED
    BY <1>1, <1>2, TypeCorrect, NoLostWakeup, PTL DEF Spec

\* With one worker, no message is ever left in the mailbox or in the cache of
\* an actor that is neither scheduled nor running.
THEOREM NothingStranded ==
  ASSUME SoleWorker
  PROVE  Spec => []NoStrandedMessage
  <1>1. TypeOK /\ InboxHasRunner /\ SoleInv => NoStrandedMessage
    <2> SUFFICES ASSUME TypeOK, InboxHasRunner, SoleInv, NEW a \in Actors,
                        Unhandled(a) # <<>>
                 PROVE  \/ Scheduled(a)
                        \/ \E w \in Workers : job[w] = a /\ Running(w)
      BY DEF NoStrandedMessage, Running
    <2>1. CASE Carried(a) # <<>>
      BY <2>1 DEF Carried, Running
    <2>2. CASE mail[a] # <<>> \/ local[a] # <<>>
      BY <2>2 DEF InboxHasRunner, WillGet, Running
    <2>3. CASE cache[a] # <<>>
      BY <2>3 DEF SoleInv, CacheScheduled
    <2>4. CASE Carried(a) = <<>> /\ mail[a] = <<>> /\ local[a] = <<>> /\ cache[a] = <<>>
      <3>1. <<>> \o <<>> = <<>>
        OBVIOUS
      <3> QED BY <2>4, <3>1 DEF Unhandled, InOrder
    <2> QED BY <2>1, <2>2, <2>3, <2>4
  <1> QED BY <1>1, SoleInvariant, PTL

-----------------------------------------------------------------------------
(* The refinement of ActorDelivery. *)

\* With one worker, what is carried is that worker's message.
LEMMA SoleCarried ==
  ASSUME SoleWorker, NEW w \in Workers, NEW a
  PROVE  /\ Carried(a) =
              IF job[w] = a /\ pc[w] \in {"drain_push", "has_next_push"}
                THEN <<msg[w]>> ELSE <<>>
         /\ Carried(a)' =
              IF job'[w] = a /\ pc'[w] \in {"drain_push", "has_next_push"}
                THEN <<msg'[w]>> ELSE <<>>
  <1>1. Workers = {w}
    BY DEF SoleWorker
  <1> QED BY <1>1 DEF Carried

LEMMA CarriedType ==
  ASSUME TypeOK, NEW a \in Actors
  PROVE  Carried(a) \in Seq(Msgs)
  <1> DEFINE carriers ==
        {w \in Workers : job[w] = a /\ pc[w] \in {"drain_push", "has_next_push"}}
  <1>1. CASE carriers = {}
    BY <1>1 DEF Carried
  <1>2. CASE carriers # {}
    <2> DEFINE w == CHOOSE v \in carriers : TRUE
    <2>1. w \in carriers
      <3> HIDE DEF carriers
      <3> QED BY <1>2, Zenon
    <2>2. Carried(a) = <<msg[w]>>
      <3>1. Carried(a) = IF carriers = {} THEN <<>> ELSE <<msg[w]>>
        BY Zenon DEF Carried
      <3> HIDE DEF carriers, w
      <3> QED BY <1>2, <3>1
    <2> HIDE DEF w
    <2>3. msg[w] \in Msgs
      BY <2>1 DEF TypeOK
    <2> QED BY <2>2, <2>3
  <1> QED BY <1>1, <1>2

\* What the moves of a message do to the parts of a queue.
LEMMA InOrderErase ==
  ASSUME NEW c \in Seq(Msgs), NEW l \in Seq(Msgs), NEW q \in Seq(Msgs), c # <<>>
  PROVE  /\ InOrder(c, <<>>, l, q) # <<>>
         /\ Head(InOrder(c, <<>>, l, q)) = Head(c)
         /\ Tail(InOrder(c, <<>>, l, q)) = InOrder(Tail(c), <<>>, l, q)
  BY DEF InOrder

LEMMA InOrderNextMail ==
  ASSUME NEW q \in Seq(Msgs), q # <<>>
  PROVE  /\ InOrder(<<>>, <<>>, <<>>, q) # <<>>
         /\ Head(InOrder(<<>>, <<>>, <<>>, q)) = Head(q)
         /\ Tail(InOrder(<<>>, <<>>, <<>>, q)) = InOrder(<<>>, <<>>, Tail(q), <<>>)
  BY DEF InOrder

LEMMA InOrderNextLocal ==
  ASSUME NEW l \in Seq(Msgs), NEW q \in Seq(Msgs), l # <<>>
  PROVE  /\ InOrder(<<>>, <<>>, l, q) # <<>>
         /\ Head(InOrder(<<>>, <<>>, l, q)) = Head(l)
         /\ Tail(InOrder(<<>>, <<>>, l, q)) = InOrder(<<>>, <<>>, Tail(l), q)
  BY DEF InOrder

LEMMA InOrderGetMail ==
  ASSUME NEW c \in Seq(Msgs), NEW q \in Seq(Msgs), q # <<>>
  PROVE  InOrder(c, <<Head(q)>>, Tail(q), <<>>) = InOrder(c, <<>>, <<>>, q)
  BY DEF InOrder

LEMMA InOrderGetLocal ==
  ASSUME NEW c \in Seq(Msgs), NEW l \in Seq(Msgs), NEW q \in Seq(Msgs), l # <<>>
  PROVE  InOrder(c, <<Head(l)>>, Tail(l), q) = InOrder(c, <<>>, l, q)
  BY DEF InOrder

LEMMA InOrderPush ==
  ASSUME NEW c \in Seq(Msgs), NEW l \in Seq(Msgs), NEW q \in Seq(Msgs), NEW m \in Msgs
  PROVE  InOrder(Append(c, m), <<>>, l, q) = InOrder(c, <<m>>, l, q)
  BY DEF InOrder

LEMMA UnhandledNext ==
  ASSUME NEW CONSTANT a
  PROVE  Unhandled(a)' = InOrder(cache'[a], Carried(a)', local'[a], mail'[a])
  BY DEF Unhandled, InOrder

LEMMA QueueTypes ==
  ASSUME TypeOK, NEW a \in Actors
  PROVE  /\ cache[a] \in Seq(Msgs) /\ Carried(a) \in Seq(Msgs)
         /\ local[a] \in Seq(Msgs) /\ mail[a] \in Seq(Msgs)
  BY CarriedType DEF TypeOK

\* get() takes the front of local_queue, or of mail_queue when that is the
\* only one with messages.
LEMMA TakeMailParts ==
  ASSUME TypeOK, NEW a \in Actors, Synced(a) # <<>>, TakeMail(a)
  PROVE  \/ /\ local[a] = <<>> /\ mail[a] # <<>>
            /\ Head(Synced(a)) = Head(mail[a])
            /\ local'[a] = Tail(mail[a]) /\ mail'[a] = <<>>
         \/ /\ local[a] # <<>>
            /\ Head(Synced(a)) = Head(local[a])
            /\ local'[a] = Tail(local[a]) /\ mail'[a] = mail[a]
  BY DEF TakeMail, Synced, TypeOK

\* The mapped queues change in one place, or in none.
LEMMA HandleMapped ==
  ASSUME TypeOK, NEW a \in Actors, NEW m \in Msgs,
         Unhandled(a) # <<>>, Head(Unhandled(a)) = m,
         Unhandled(a)' = Tail(Unhandled(a)),
         \A b \in Actors \ {a} : Unhandled(b)' = Unhandled(b),
         handled' = [handled EXCEPT ![a] = Append(@, m)],
         sent' = sent
  PROVE  Delivery!Handle(a)
  <1> DEFINE queue == [b \in Actors |-> Unhandled(b)]
  <1> DEFINE queueNext == [b \in Actors |-> Unhandled(b)']
  <1>1. queue[a] = Unhandled(a)
    OBVIOUS
  <1>2. queueNext = [queue EXCEPT ![a] = Tail(Unhandled(a))]
    OBVIOUS
  <1>3. queueNext = [queue EXCEPT ![a] = Tail(@)]
    BY <1>1, <1>2
  <1> QED
    BY <1>1, <1>3 DEF Delivery!Handle

LEMMA StutterMapped ==
  ASSUME NEW a, \A b \in Actors \ {a} : Unhandled(b)' = Unhandled(b),
         Unhandled(a)' = Unhandled(a), UNCHANGED <<handled, sent>>
  PROVE  UNCHANGED Delivery!vars
  <1>1. \A b \in Actors : Unhandled(b)' = Unhandled(b)
    OBVIOUS
  <1> QED BY <1>1 DEF Delivery!vars

\* Every step of the runtime, seen through the mapping, is a step of
\* ActorDelivery or changes nothing there.
LEMMA DeliveryStep ==
  ASSUME SoleWorker
  PROVE  TypeOK /\ TypeOK' /\ SoleInv /\ [Next]_vars
           => [Delivery!Next]_Delivery!vars
  <1> SUFFICES ASSUME TypeOK, TypeOK', SoleInv, [Next]_vars
               PROVE  Delivery!Next \/ UNCHANGED Delivery!vars
    BY DEF Delivery!vars
  <1> USE RuntimeAssumption
  \* Steps that move no message.
  <1>1. ASSUME UNCHANGED <<mail, local, cache, handled, sent>>,
               \A a \in Actors : Carried(a)' = Carried(a)
        PROVE  UNCHANGED Delivery!vars
    <2>1. \A a \in Actors : Unhandled(a)' = Unhandled(a)
      BY <1>1 DEF Unhandled
    <2> QED BY <1>1, <2>1 DEF Delivery!vars
  <1>2. ASSUME NEW w \in Workers,
               Dequeue(w) \/ Wait(w) \/ SpuriousWakeup(w) \/ PopFront(w)
                 \/ HandlerReturn(w) \/ Resume(w)
        PROVE  UNCHANGED Delivery!vars
    <2>1. /\ pc[w] \notin {"drain_push", "has_next_push"}
          /\ UNCHANGED <<mail, local, cache, handled, sent>>
      BY <1>2 DEF Dequeue, Wait, SpuriousWakeup, PopFront, HandlerReturn, Resume
    <2>2. pc'[w] \notin {"drain_push", "has_next_push"}
      <3>1. CASE Resume(w)
        <4>1. /\ job[w] \in Actors
              /\ [pc EXCEPT ![w] = "dequeue"] \in [Workers -> Locations]
              /\ [pc EXCEPT ![w] = "dequeue"][w] = "dequeue"
          BY <3>1 DEF Resume, TypeOK, Locations
        <4> QED BY <3>1, <4>1, EnqueueSchedules DEF Resume
      <3>2. CASE ~Resume(w)
        BY <1>2, <3>2 DEF Dequeue, Wait, SpuriousWakeup, PopFront,
           HandlerReturn, LoopHead, TypeOK
      <3> QED BY <3>1, <3>2
    <2>3. \A a \in Actors : Carried(a)' = Carried(a)
      BY <2>1, <2>2, SoleCarried
    <2> QED BY <1>1, <2>1, <2>3
  <1>3. ASSUME NEW t \in Threads, Submit(t) PROVE UNCHANGED Delivery!vars
    <2>1. pending[t] \in Actors /\ UNCHANGED <<mail, local, cache, handled, sent, job, msg>>
      BY <1>3 DEF Submit, TypeOK
    <2>2. \A v \in Workers :
            pc'[v] = pc[v] \/ (pc[v] = "waiting" /\ pc'[v] = "dequeue")
      BY <1>3, <2>1, EnqueueSchedules DEF Submit, TypeOK
    <2>3. ASSUME NEW a \in Actors PROVE Carried(a)' = Carried(a)
      <3>1. CASE Workers = {}
        BY <3>1 DEF Carried
      <3>2. ASSUME NEW w \in Workers PROVE Carried(a)' = Carried(a)
        BY <2>1, <2>2, SoleCarried
      <3> QED BY <3>1, <3>2
    <2> QED BY <1>1, <2>1, <2>3
  \* put: the message is the newest of its actor.
  <1>4. ASSUME NEW t \in Threads, NEW a \in Actors, NEW m \in Msgs, Put(t, a, m)
        PROVE  Delivery!Next
    <2>1. /\ m \notin sent /\ sent' = sent \cup {m}
          /\ mail'[a] = Append(mail[a], m)
          /\ \A b \in Actors \ {a} : mail'[b] = mail[b]
          /\ UNCHANGED <<local, cache, pc, job, msg, handled>>
      BY <1>4 DEF Put, TypeOK
    <2>2. \A b \in Actors : Carried(b)' = Carried(b)
      BY <2>1 DEF Carried
    <2>3. \A b \in Actors \ {a} : Unhandled(b)' = Unhandled(b)
      BY <2>1, <2>2, UnhandledNext DEF Unhandled
    <2>4. Unhandled(a)' = Append(Unhandled(a), m)
      <3>1. /\ cache[a] \in Seq(Msgs) /\ Carried(a) \in Seq(Msgs)
            /\ local[a] \in Seq(Msgs) /\ mail[a] \in Seq(Msgs)
        BY QueueTypes
      <3>2. Unhandled(a)' = InOrder(cache[a], Carried(a), local[a], Append(mail[a], m))
        BY <2>1, <2>2, UnhandledNext
      <3>3. InOrder(cache[a], Carried(a), local[a], Append(mail[a], m))
              = Append(InOrder(cache[a], Carried(a), local[a], mail[a]), m)
        <4>1. PICK c \in Seq(Msgs), k \in Seq(Msgs), l \in Seq(Msgs), q \in Seq(Msgs) :
                c = cache[a] /\ k = Carried(a) /\ l = local[a] /\ q = mail[a]
          BY <3>1
        <4>2. InOrder(c, k, l, Append(q, m)) = Append(InOrder(c, k, l, q), m)
          BY DEF InOrder
        <4> QED BY <4>1, <4>2
      <3> QED BY <3>2, <3>3 DEF Unhandled
    <2>5. Delivery!Accept(a, m)
      BY <2>1, <2>3, <2>4 DEF Delivery!Accept
    <2> QED BY <2>5 DEF Delivery!Next
  \* The cache is not empty: its front is the oldest message of the actor.
  <1>5. ASSUME NEW w \in Workers, EraseFront(w) PROVE Delivery!Next
    <2>0. PICK a : a = job[w]
      OBVIOUS
    <2>1. /\ a \in Actors /\ cache[a] # <<>>
          /\ msg[w] = Head(cache[a]) /\ msg[w] \in Msgs
      BY <1>5, <2>0 DEF EraseFront, TypeOK, SoleInv, CacheOwned
    <2>2. /\ cache'[a] = Tail(cache[a])
          /\ \A b \in Actors \ {a} : cache'[b] = cache[b]
          /\ handled' = [handled EXCEPT ![a] = Append(@, Head(cache[a]))]
          /\ pc[w] = "erase" /\ pc'[w] = "handler"
          /\ UNCHANGED <<local, mail, job, sent>>
      BY <1>5, <2>0, <2>1 DEF EraseFront, Execute, TypeOK
    <2>3. \A b \in Actors : Carried(b) = <<>> /\ Carried(b)' = <<>>
      BY <2>0, <2>2, SoleCarried
    <2>4. \A b \in Actors \ {a} : Unhandled(b)' = Unhandled(b)
      BY <2>2, <2>3, UnhandledNext DEF Unhandled
    <2>5. /\ Unhandled(a) # <<>> /\ Head(Unhandled(a)) = Head(cache[a])
          /\ Unhandled(a)' = Tail(Unhandled(a))
      <3>1. cache[a] \in Seq(Msgs) /\ local[a] \in Seq(Msgs) /\ mail[a] \in Seq(Msgs)
        BY <2>1, QueueTypes
      <3>2. Unhandled(a) = InOrder(cache[a], <<>>, local[a], mail[a])
        BY <2>1, <2>3 DEF Unhandled
      <3>3. Unhandled(a)' = InOrder(Tail(cache[a]), <<>>, local[a], mail[a])
        BY <2>1, <2>2, <2>3, UnhandledNext
      <3>4. /\ InOrder(cache[a], <<>>, local[a], mail[a]) # <<>>
            /\ Head(InOrder(cache[a], <<>>, local[a], mail[a])) = Head(cache[a])
            /\ Tail(InOrder(cache[a], <<>>, local[a], mail[a])) =
                 InOrder(Tail(cache[a]), <<>>, local[a], mail[a])
        BY <2>1, <3>1, InOrderErase, SMTT(60)
      <3> HIDE DEF InOrder, Unhandled
      <3> QED BY <3>2, <3>3, <3>4
    <2>6. Delivery!Handle(a)
      BY <2>1, <2>2, <2>4, <2>5, HandleMapped
    <2> QED BY <2>1, <2>6 DEF Delivery!Next
  \* The cache is empty: get() returns the oldest message of the actor.
  <1>6. ASSUME NEW w \in Workers, NextMessage(w), Synced(job[w]) # <<>>
        PROVE  Delivery!Next
    <2>0. PICK a : a = job[w]
      OBVIOUS
    <2>1. a \in Actors /\ cache[a] = <<>>
      BY <1>6, <2>0 DEF NextMessage, TypeOK, SoleInv, CacheOwned
    <2>2. /\ TakeMail(a)
          /\ handled' = [handled EXCEPT ![a] = Append(@, Head(Synced(a)))]
          /\ pc[w] = "next" /\ pc'[w] = "handler"
          /\ UNCHANGED <<cache, job, sent>>
      BY <1>6, <2>0, <2>1 DEF NextMessage, Execute, TypeOK
    <2>3. \A b \in Actors : Carried(b) = <<>> /\ Carried(b)' = <<>>
      BY <2>0, <2>2, SoleCarried
    <2>4. Synced(a) # <<>>
      BY <1>6, <2>0
    <2>5. \A b \in Actors \ {a} : Unhandled(b)' = Unhandled(b)
      BY <2>1, <2>2, <2>3, TakeMailFrame, UnhandledNext DEF Unhandled
    <2>6. /\ Unhandled(a) # <<>> /\ Head(Unhandled(a)) = Head(Synced(a))
          /\ Unhandled(a)' = Tail(Unhandled(a))
      <3>1. CASE local[a] = <<>>
        BY <2>1, <2>2, <2>3, <2>4, <3>1, QueueTypes, TakeMailParts,
           UnhandledNext, InOrderNextMail DEF Unhandled
      <3>2. CASE local[a] # <<>>
        <4>1. local[a] \in Seq(Msgs) /\ mail[a] \in Seq(Msgs)
          BY <2>1, QueueTypes
        <4>2. Unhandled(a) = InOrder(<<>>, <<>>, local[a], mail[a])
          BY <2>1, <2>3 DEF Unhandled
        <4>3. /\ Head(Synced(a)) = Head(local[a])
              /\ local'[a] = Tail(local[a]) /\ mail'[a] = mail[a]
          BY <2>1, <2>2, <2>4, <3>2, TakeMailParts
        <4>4. cache'[a] = <<>> /\ Carried(a)' = <<>>
          BY <2>1, <2>2, <2>3
        <4>5. Unhandled(a)' = InOrder(<<>>, <<>>, Tail(local[a]), mail[a])
          BY <4>3, <4>4, UnhandledNext
        <4> QED BY <3>2, <4>1, <4>2, <4>3, <4>5, InOrderNextLocal
      <3> QED BY <3>1, <3>2
    <2>7. Delivery!Handle(a)
      <3>1. Head(Synced(a)) \in Msgs
        BY <2>1, <2>4, SyncedType
      <3> QED BY <2>1, <2>2, <2>5, <2>6, <3>1, HandleMapped
    <2> QED BY <2>1, <2>7 DEF Delivery!Next
  \* get() in the drain and in has_next_message: from mailbox to worker.
  <1>7. ASSUME NEW w \in Workers, DrainGet(w) \/ HasNextGet(w),
               Synced(job[w]) # <<>>
        PROVE  UNCHANGED Delivery!vars
    <2>0. PICK a : a = job[w]
      OBVIOUS
    <2>1. a \in Actors
      BY <1>7, <2>0 DEF DrainGet, HasNextGet, TypeOK
    <2>2. /\ TakeMail(a) /\ msg'[w] = Head(Synced(a))
          /\ pc[w] \in {"drain", "has_next"}
          /\ pc'[w] \in {"drain_push", "has_next_push"}
          /\ UNCHANGED <<cache, job, sent, handled>>
      BY <1>7, <2>0, <2>1 DEF DrainGet, HasNextGet, GetFor, TypeOK
    <2>3. /\ \A b \in Actors : Carried(b) = <<>>
          /\ \A b \in Actors \ {a} : Carried(b)' = <<>>
          /\ Carried(a)' = <<Head(Synced(a))>>
      BY <2>0, <2>2, SoleCarried
    <2>4. Synced(a) # <<>>
      BY <1>7, <2>0
    <2>5. \A b \in Actors \ {a} : Unhandled(b)' = Unhandled(b)
      BY <2>1, <2>2, <2>3, TakeMailFrame, UnhandledNext DEF Unhandled
    <2>6. Unhandled(a)' = Unhandled(a)
      <3>1. CASE local[a] = <<>>
        BY <2>1, <2>2, <2>3, <2>4, <3>1, QueueTypes, TakeMailParts,
           UnhandledNext, InOrderGetMail DEF Unhandled
      <3>2. CASE local[a] # <<>>
        BY <2>1, <2>2, <2>3, <2>4, <3>2, QueueTypes, TakeMailParts,
           UnhandledNext, InOrderGetLocal DEF Unhandled
      <3> QED BY <3>1, <3>2
    <2> QED BY <2>2, <2>5, <2>6, StutterMapped
  \* push_to_cache: from worker to cache.
  <1>8. ASSUME NEW w \in Workers, DrainPush(w) \/ HasNextPush(w)
        PROVE  UNCHANGED Delivery!vars
    <2>0. PICK a : a = job[w]
      OBVIOUS
    <2>1. a \in Actors /\ msg[w] \in Msgs
      BY <1>8, <2>0 DEF DrainPush, HasNextPush, TypeOK
    <2>2. /\ cache'[a] = Append(cache[a], msg[w])
          /\ \A b \in Actors \ {a} : cache'[b] = cache[b]
          /\ pc[w] \in {"drain_push", "has_next_push"}
          /\ pc'[w] \in {"drain", "dequeue"}
          /\ UNCHANGED <<local, mail, job, sent, handled>>
      BY <1>8, <2>0, <2>1 DEF DrainPush, HasNextPush, PushToCache, TypeOK
    <2>3. /\ \A b \in Actors : Carried(b)' = <<>>
          /\ \A b \in Actors \ {a} : Carried(b) = <<>>
          /\ Carried(a) = <<msg[w]>>
      BY <2>0, <2>2, SoleCarried
    <2>4. \A b \in Actors \ {a} : Unhandled(b)' = Unhandled(b)
      BY <2>2, <2>3, UnhandledNext DEF Unhandled
    <2>5. Unhandled(a)' = Unhandled(a)
      BY <2>1, <2>2, <2>3, QueueTypes, UnhandledNext, InOrderPush DEF Unhandled
    <2> QED BY <2>2, <2>4, <2>5, StutterMapped
  \* get() returns null.
  <1>9. ASSUME NEW w \in Workers, NextMessage(w) \/ DrainGet(w) \/ HasNextGet(w),
               Synced(job[w]) = <<>>
        PROVE  UNCHANGED Delivery!vars
    <2>1. /\ UNCHANGED <<mail, local, cache, handled, sent>>
          /\ pc[w] \in {"next", "drain", "has_next"}
          /\ pc'[w] \in {"dequeue", "has_next", "resume"}
      BY <1>9 DEF NextMessage, DrainGet, HasNextGet, GetFor, TypeOK
    <2>2. \A a \in Actors : Carried(a)' = Carried(a)
      BY <2>1, SoleCarried
    <2> QED BY <1>1, <2>1, <2>2
  <1>10. ASSUME NEW w \in Workers PROVE ~Crash(w)
    BY DEF Crash, CacheRace, SoleWorker, SoleInv, CacheOwned
  <1>11. CASE UNCHANGED vars
    <2>1. UNCHANGED <<mail, local, cache, handled, sent, pc, job, msg>>
      BY <1>11 DEF vars
    <2>2. \A a \in Actors : Carried(a)' = Carried(a)
      BY <2>1 DEF Carried
    <2> QED BY <1>1, <2>1, <2>2
  <1>12. ASSUME NEW w \in Workers, WorkerStep(w)
         PROVE  Delivery!Next \/ UNCHANGED Delivery!vars
    BY <1>2, <1>5, <1>6, <1>7, <1>8, <1>9, <1>12 DEF WorkerStep
  <1> QED
    BY <1>2, <1>3, <1>4, <1>10, <1>11, <1>12 DEF Next

\* With one worker, the runtime implements ActorDelivery: every message is
\* handled at most once, by the actor it was sent to, in the order of put.
THEOREM Refinement ==
  ASSUME SoleWorker
  PROVE  Spec => ImplementsDelivery
  <1>1. Init => Delivery!Init
    <2> SUFFICES ASSUME Init PROVE Delivery!Init
      OBVIOUS
    <2>1. ASSUME NEW a \in Actors PROVE Unhandled(a) = <<>>
      <3>1. Carried(a) = <<>>
        BY DEF Init, Carried
      <3>2. <<>> \o <<>> = <<>>
        OBVIOUS
      <3> QED BY <3>1, <3>2 DEF Init, Unhandled, InOrder
    <2> QED BY <2>1 DEF Init, Delivery!Init
  <1>2. TypeOK /\ TypeOK' /\ SoleInv /\ [Next]_vars => [Delivery!Next]_Delivery!vars
    BY DeliveryStep
  <1> QED
    BY <1>1, <1>2, SoleInvariant, PTL DEF Spec, ImplementsDelivery, Delivery!Spec
=============================================================================
