---------------------------- MODULE ActorRuntime ----------------------------
(***************************************************************************)
(* The actor runtime of stream-core: asynchronous actors with a mailbox    *)
(* each (blocking_mail_queue), executed by a pool of worker threads that   *)
(* share one job queue (the work_sharing policy).                          *)
(*                                                                         *)
(* Every send puts the message into the mailbox and THEN submits the actor *)
(* to the job queue, as two critical sections of two different mutexes.    *)
(* Nothing prevents an actor from being in the job queue several times, or *)
(* from being run by several workers at once.                              *)
(***************************************************************************)
EXTENDS Naturals, Sequences, FiniteSets

CONSTANTS
  Workers,        \* the worker threads of the coordinator
  Senders,        \* the other threads that send: the io thread, main
  Actors,         \* the actors of the environment
  Msgs,           \* message identities; each is sent at most once
  MaxThroughput,  \* messages an actor handles before it yields its worker
  None            \* no actor, or no message

ASSUME RuntimeAssumption ==
  /\ IsFiniteSet(Workers)
  /\ Workers \cap Senders = {}
  /\ MaxThroughput \in Nat
  /\ None \notin Actors
  /\ None \notin Msgs

Threads == Workers \cup Senders

VARIABLES
  jobs,     \* coordinator_data::queue, the actors waiting for a worker
  mail,     \* mail[a]: mail_queue of a's mailbox, written by put
  local,    \* local[a]: local_queue of a's mailbox, refilled by sync
  cache,    \* cache[a]: cache_ of a's mailbox, not protected by its mutex
  pc,       \* pc[w]: where worker w is in worker::run and async_actor::run
  job,      \* job[w]: the actor w runs
  msg,      \* msg[w]: the message w took out of a queue
  count,    \* count[w]: handled_msgs of the run w is in
  pending,  \* pending[t]: the actor t has put a message for, not submitted yet
  sent,     \* the messages that have been sent
  handled,  \* handled[a]: the messages a's reactions were executed with
  crashed   \* an operation on a corrupted std::list ended the process

vars == <<jobs, mail, local, cache, pc, job, msg, count, pending, sent,
          handled, crashed>>

\* Worker locations: around dequeue(), in the loop of run (front and erase of
\* pop_to_cache, next_message, the handler), in the drain after the loop, in
\* has_next_message, and before resume_job_later.
Locations == {"dequeue", "waiting", "pop", "erase", "next", "handler",
              "drain", "drain_push", "has_next", "has_next_push", "resume"}

TypeOK ==
  /\ jobs \in Seq(Actors)
  /\ mail \in [Actors -> Seq(Msgs)]
  /\ local \in [Actors -> Seq(Msgs)]
  /\ cache \in [Actors -> Seq(Msgs)]
  /\ handled \in [Actors -> Seq(Msgs)]
  /\ pc \in [Workers -> Locations]
  /\ job \in [Workers -> Actors \cup {None}]
  /\ msg \in [Workers -> Msgs \cup {None}]
  /\ count \in [Workers -> Nat]
  /\ pending \in [Threads -> Actors \cup {None}]
  /\ sent \subseteq Msgs
  /\ crashed \in BOOLEAN
  /\ \A w \in Workers :
       /\ pc[w] \notin {"dequeue", "waiting"} => job[w] \in Actors
       /\ pc[w] \in {"erase", "handler", "drain_push", "has_next_push"} =>
            msg[w] \in Msgs

Init ==
  /\ jobs = <<>>
  /\ mail = [a \in Actors |-> <<>>]
  /\ local = [a \in Actors |-> <<>>]
  /\ cache = [a \in Actors |-> <<>>]
  /\ handled = [a \in Actors |-> <<>>]
  /\ pc = [w \in Workers |-> "dequeue"]
  /\ job = [w \in Workers |-> None]
  /\ msg = [w \in Workers |-> None]
  /\ count = [w \in Workers |-> 0]
  /\ pending = [t \in Threads |-> None]
  /\ sent = {}
  /\ crashed = FALSE

-----------------------------------------------------------------------------
(* The job queue and its condition variable. *)

Waiting == {w \in Workers : pc[w] = "waiting"}

\* Mutant: enqueue() without cv.notify_one().
EnqueueSilent(a, p) ==
  /\ jobs' = Append(jobs, a)
  /\ pc' = p

\* enqueue(): append under the lock and wake one waiter, if there is one.
\* p is the pc function of the caller's own step.
Enqueue(a, p) ==
  /\ jobs' = Append(jobs, a)
  /\ IF Waiting = {}
       THEN pc' = p
       ELSE \E v \in Waiting : pc' = [p EXCEPT ![v] = "dequeue"]

\* Mutant: run asks the mailbox before the cache.
LoopMailFirst(n) == IF n < MaxThroughput THEN "next" ELSE "drain"

\* The loop condition of async_actor::run: next iteration, or the drain.
LoopHead(n) == IF n < MaxThroughput THEN "pop" ELSE "drain"

\* dequeue() finds a job: take it and enter async_actor::run.
Dequeue(w) ==
  /\ pc[w] = "dequeue"
  /\ jobs # <<>>
  /\ job' = [job EXCEPT ![w] = Head(jobs)]
  /\ jobs' = Tail(jobs)
  /\ count' = [count EXCEPT ![w] = 0]
  /\ pc' = [pc EXCEPT ![w] = LoopHead(0)]
  /\ UNCHANGED <<mail, local, cache, msg, pending, sent, handled, crashed>>

\* dequeue() finds the queue empty: the predicate is false, cv.wait blocks.
Wait(w) ==
  /\ pc[w] = "dequeue"
  /\ jobs = <<>>
  /\ pc' = [pc EXCEPT ![w] = "waiting"]
  /\ UNCHANGED <<jobs, mail, local, cache, job, msg, count, pending, sent,
                 handled, crashed>>

\* cv.wait may return without a notification; it then tests its predicate.
SpuriousWakeup(w) ==
  /\ pc[w] = "waiting"
  /\ pc' = [pc EXCEPT ![w] = "dequeue"]
  /\ UNCHANGED <<jobs, mail, local, cache, job, msg, count, pending, sent,
                 handled, crashed>>

-----------------------------------------------------------------------------
(* send: from a thread outside the pool, or from the handler a worker runs. *)

CanSend(t) ==
  /\ pending[t] = None
  /\ t \in Workers => pc[t] = "handler"

\* mailbox().put(mep)
Put(t, a, m) ==
  /\ CanSend(t)
  /\ m \notin sent
  /\ sent' = sent \cup {m}
  /\ mail' = [mail EXCEPT ![a] = Append(@, m)]
  /\ pending' = [pending EXCEPT ![t] = a]
  /\ UNCHANGED <<jobs, local, cache, pc, job, msg, count, handled, crashed>>

\* Mutant: submit skips an actor that some worker is running.
SubmitUnlessRunning(t) ==
  /\ pending[t] # None
  /\ IF \E w \in Workers : job[w] = pending[t] /\ pc[w] \notin {"dequeue", "waiting"}
       THEN UNCHANGED <<jobs, pc>>
       ELSE Enqueue(pending[t], pc)
  /\ pending' = [pending EXCEPT ![t] = None]
  /\ UNCHANGED <<mail, local, cache, job, msg, count, sent, handled, crashed>>

\* manager_execution_device().submit(this)
Submit(t) ==
  /\ pending[t] # None
  /\ Enqueue(pending[t], pc)
  /\ pending' = [pending EXCEPT ![t] = None]
  /\ UNCHANGED <<mail, local, cache, job, msg, count, sent, handled, crashed>>

-----------------------------------------------------------------------------
(* blocking_mail_queue::get, one critical section of the mailbox mutex. *)

\* What local_queue holds after the sync() of an empty one.
Synced(a) == IF local[a] = <<>> THEN mail[a] ELSE local[a]

TakeMail(a) ==
  /\ mail' = [mail EXCEPT ![a] = IF local[a] = <<>> THEN <<>> ELSE @]
  /\ local' = [local EXCEPT ![a] = Tail(Synced(a))]

-----------------------------------------------------------------------------
(* async_actor::run on worker w. *)

\* pop_to_cache(): test empty() and copy front(), without a lock.
PopFront(w) ==
  /\ pc[w] = "pop"
  /\ LET c == cache[job[w]] IN
       \/ /\ c = <<>>
          /\ pc' = [pc EXCEPT ![w] = "next"]
          /\ UNCHANGED msg
       \/ /\ c # <<>>
          /\ msg' = [msg EXCEPT ![w] = Head(c)]
          /\ pc' = [pc EXCEPT ![w] = "erase"]
  /\ UNCHANGED <<jobs, mail, local, cache, job, count, pending, sent, handled,
                 crashed>>

\* Mutant: the context of the reaction is made without the message.
ExecuteNoMessage(w, m) ==
  /\ handled' = [handled EXCEPT ![job[w]] = Append(@, m)]
  /\ pc' = [pc EXCEPT ![w] = "handler"]
  /\ UNCHANGED msg

\* Invoke the actor's reaction to m.
Execute(w, m) ==
  /\ msg' = [msg EXCEPT ![w] = m]
  /\ handled' = [handled EXCEPT ![job[w]] = Append(@, m)]
  /\ pc' = [pc EXCEPT ![w] = "handler"]

\* pop_to_cache(): pop_front(), then the handler.
EraseFront(w) ==
  /\ pc[w] = "erase"
  /\ cache[job[w]] # <<>>
  /\ cache' = [cache EXCEPT ![job[w]] = Tail(@)]
  /\ Execute(w, msg[w])
  /\ UNCHANGED <<jobs, mail, local, job, count, pending, sent, crashed>>

\* next_message() in the loop: a message for the handler, or awaiting.
NextMessage(w) ==
  /\ pc[w] = "next"
  /\ \/ /\ Synced(job[w]) # <<>>
        /\ Execute(w, Head(Synced(job[w])))
        /\ TakeMail(job[w])
     \/ /\ Synced(job[w]) = <<>>
        /\ pc' = [pc EXCEPT ![w] = "dequeue"]
        /\ UNCHANGED <<mail, local, msg, handled>>
  /\ UNCHANGED <<jobs, cache, job, count, pending, sent, crashed>>

\* The handler returns: ++handled_msgs and the loop condition.
HandlerReturn(w) ==
  /\ pc[w] = "handler"
  /\ pending[w] = None
  /\ count' = [count EXCEPT ![w] = @ + 1]
  /\ pc' = [pc EXCEPT ![w] = LoopHead(count[w] + 1)]
  /\ UNCHANGED <<jobs, mail, local, cache, job, msg, pending, sent, handled,
                 crashed>>

\* get() outside the loop: the message is pushed to the cache next, or there
\* is none and w goes to location none.
GetFor(w, push, none) ==
  /\ \/ /\ Synced(job[w]) # <<>>
        /\ msg' = [msg EXCEPT ![w] = Head(Synced(job[w]))]
        /\ TakeMail(job[w])
        /\ pc' = [pc EXCEPT ![w] = push]
     \/ /\ Synced(job[w]) = <<>>
        /\ pc' = [pc EXCEPT ![w] = none]
        /\ UNCHANGED <<mail, local, msg>>
  /\ UNCHANGED <<jobs, cache, job, count, pending, sent, handled, crashed>>

\* Mutant: the message taken from the mailbox is not cached.
PushNothing(w, next) ==
  /\ pc' = [pc EXCEPT ![w] = next]
  /\ UNCHANGED <<jobs, mail, local, cache, job, msg, count, pending, sent,
                 handled, crashed>>

\* push_to_cache(msg[w]), without a lock; w goes on to location next.
PushToCache(w, next) ==
  /\ cache' = [cache EXCEPT ![job[w]] = Append(@, msg[w])]
  /\ pc' = [pc EXCEPT ![w] = next]
  /\ UNCHANGED <<jobs, mail, local, job, msg, count, pending, sent, handled,
                 crashed>>

\* The drain: everything in the mailbox moves to the cache.
DrainGet(w) == pc[w] = "drain" /\ GetFor(w, "drain_push", "has_next")

DrainPush(w) == pc[w] = "drain_push" /\ PushToCache(w, "drain")

\* has_next_message(): a message is cached and run returns awaiting, which
\* drops the job; otherwise run returns resume.
HasNextGet(w) == pc[w] = "has_next" /\ GetFor(w, "has_next_push", "resume")

HasNextPush(w) == pc[w] = "has_next_push" /\ PushToCache(w, "dequeue")

\* worker::run on resume: resume_job_later, back to dequeue.
Resume(w) ==
  /\ pc[w] = "resume"
  /\ Enqueue(job[w], [pc EXCEPT ![w] = "dequeue"])
  /\ UNCHANGED <<mail, local, cache, job, msg, count, pending, sent, handled,
                 crashed>>

-----------------------------------------------------------------------------
(* The undefined behaviour of two unsynchronised operations on one cache. *)

AtCache == {"pop", "erase", "drain_push", "has_next_push"}

CacheRace(u, v) ==
  /\ u # v
  /\ job[u] = job[v]
  /\ pc[u] \in AtCache
  /\ pc[v] \in AtCache

\* pop_front() of a list another worker emptied, or two operations that
\* corrupt the list's links: the process ends.
Crash(w) ==
  /\ \/ pc[w] = "erase" /\ cache[job[w]] = <<>>
     \/ \E v \in Workers : CacheRace(w, v)
  /\ crashed' = TRUE
  /\ UNCHANGED <<jobs, mail, local, cache, pc, job, msg, count, pending, sent,
                 handled>>

-----------------------------------------------------------------------------

\* The steps a worker thread takes when it is scheduled.
WorkerStep(w) ==
  \/ Dequeue(w) \/ Wait(w)
  \/ PopFront(w) \/ EraseFront(w) \/ NextMessage(w) \/ HandlerReturn(w)
  \/ DrainGet(w) \/ DrainPush(w) \/ HasNextGet(w) \/ HasNextPush(w)
  \/ Resume(w)

Next ==
  /\ ~crashed
  /\ \/ \E w \in Workers : WorkerStep(w) \/ SpuriousWakeup(w) \/ Crash(w)
     \/ \E t \in Threads, a \in Actors, m \in Msgs : Put(t, a, m)
     \/ \E t \in Threads : Submit(t)

Spec == Init /\ [][Next]_vars

\* The operating system schedules every worker, and a thread inside send goes
\* on to submit.  No thread is obliged to send.
Fairness ==
  /\ \A w \in Workers : WF_vars(~crashed /\ WorkerStep(w))
  /\ \A t \in Threads : WF_vars(~crashed /\ Submit(t))

FairSpec == Spec /\ Fairness

-----------------------------------------------------------------------------
(* Properties of any number of workers. *)

Contents(q) == {q[i] : i \in DOMAIN q}

\* Work conservation of enqueue/dequeue: while some worker sleeps on the
\* condition variable, every queued job has an awake worker on its way to
\* dequeue.  No notification is lost between the test of the predicate and
\* the wait, and no job waits for a busy worker while another one sleeps.
WorkConserving ==
  Waiting # {} => Len(jobs) <= Cardinality({w \in Workers : pc[w] = "dequeue"})

\* A run of a on some worker that will call get() again before it ends.
WillGet(a) ==
  \E w \in Workers :
    /\ job[w] = a
    /\ pc[w] \in {"pop", "erase", "next", "handler", "drain", "drain_push"}

\* A send that has not reached the job queue yet, or a place in that queue.
Scheduled(a) ==
  \/ \E t \in Threads : pending[t] = a
  \/ a \in Contents(jobs)

\* No lost wakeup: a message in the part of a mailbox that its mutex protects
\* has a submission, a queued job or a run that will look for it, although
\* put and submit are two steps, and although a run that saw the mailbox
\* empty returns awaiting after a message may have arrived.
InboxHasRunner ==
  \A a \in Actors :
    mail[a] # <<>> \/ local[a] # <<>> => Scheduled(a) \/ WillGet(a)

\* mail_box.hpp declares push_to_cache and pop_to_cache "non thread safe": no
\* two workers may be at such a call for the same mailbox.
CacheNotShared == \A u, v \in Workers : ~CacheRace(u, v)

-----------------------------------------------------------------------------
(* Properties of a pool with one worker, the shipped configuration. *)

SoleWorker == \A u, v \in Workers : u = v

\* The messages a worker carries from a's mailbox to a's cache.
Carried(a) ==
  LET carriers == {w \in Workers :
                     job[w] = a /\ pc[w] \in {"drain_push", "has_next_push"}}
  IN  IF carriers = {} THEN <<>> ELSE <<msg[CHOOSE w \in carriers : TRUE]>>

\* The parts of an actor's queue, oldest first.
InOrder(c, k, l, q) == c \o k \o l \o q

\* Everything sent to a that its reactions have not been executed with: the
\* cache is older than the mailbox, and local_queue older than mail_queue.
Unhandled(a) == InOrder(cache[a], Carried(a), local[a], mail[a])

\* No message is stranded, in the mailbox or in the cache, when run returns
\* awaiting: its actor is scheduled again or is still being run.
NoStrandedMessage ==
  \A a \in Actors :
    Unhandled(a) # <<>> =>
      \/ Scheduled(a)
      \/ \E w \in Workers : job[w] = a /\ pc[w] \notin {"dequeue", "waiting"}

\* The runtime implements ActorDelivery: exactly once, in the order of put,
\* through the three queues of the mailbox and the yields of run.
Delivery == INSTANCE ActorDelivery
  WITH queue <- [a \in Actors |-> Unhandled(a)]

ImplementsDelivery == Delivery!Spec

\* Every message put into a mailbox is eventually handled.
Delivered ==
  \A a \in Actors, m \in Msgs :
    m \in Contents(mail[a]) ~> m \in Contents(handled[a])
=============================================================================
