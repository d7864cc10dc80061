----------------------- MODULE ManagerServicesProofs -----------------------
(***************************************************************************)
(* Theorems about the services of the manager, for any clients, requests,  *)
(* devices, groups and databases: the types, that no request is lost or    *)
(* doubled, who may command and listen to a device, the cache of           *)
(* authenticated keys, and that unsubscribing ends listening.              *)
(***************************************************************************)
EXTENDS ManagerServices, InboxTheorems

-----------------------------------------------------------------------------
(* The messages: what every one that waits in an inbox satisfies. *)

\* The handlers of messages that belong to no request (but see Misplaced).
Plain == {"error", "notify", "emit"}

\* The requests that may end as a command; only the first is for users.
ForDevice(q) ==
  \/ Names(q, "devices", "control") \/ Names(q, "devices", "request")
  \/ Names(q, "connections", "devices") \/ Names(q, "subscriptions", "groups")

\* What must have been established when a command is written.
Allowed(q) ==
  /\ ForDevice(q) /\ Authenticated(q.key)
  /\ Admin(q) \/ (Names(q, "devices", "control") /\ Shared(q))

\* A message for handler m.h of service s has a request, unless it is Plain; a
\* task at a handler that takes none was misnamed; past users.auth only guests'
\* methods come without a key that it accepted; the hops of a control request,
\* the groups that it takes along, and what is known of the last hop.
Fit(s, m) ==
  /\ m.h = "error" => m.r = 0
  /\ m.h \notin Plain => m.r \in DOMAIN request
  /\ m.r # 0 => m.r \in DOMAIN request
  /\ m.h \in {"notify", "emit"} => m.from = None
  /\ m.h = "emit" /\ m.r = 0 => m.device \in Devices
  /\ Misplaced(m) => Misnames(request[m.r])
  /\ m.r # 0 /\ m.h \notin {"dispatcher", "login", "info", "auth"} =>
       Authenticated(request[m.r].key)
  /\ m.h = "auth" => request[m.r].key # None
  /\ m.h \in {"auth", "service"} => Len(request[m.r].method) > 1
  /\ \/ s = "devices" /\ m.h = "control"
     \/ s = "connections" /\ m.h = "devices"
     \/ s = "subscriptions" /\ m.h = "groups"
     => /\ ForDevice(request[m.r])
        /\ Admin(request[m.r]) \/ Names(request[m.r], "devices", "control")
  /\ s = "subscriptions" /\ m.h \in {"groups", "on"} =>
       \/ Admin(request[m.r])
       \/ \A g \in Groups : InJoined(g, m.groups) => <<g, request[m.r].device>> \in attached
  /\ \/ s = "devices" /\ m.h = "request"
     \/ m.h = "response" /\ m.from # None
     => Allowed(request[m.r])

MailInv == \A s \in Services : \A m : Waits(inbox, s, m) => Fit(s, m)

-----------------------------------------------------------------------------
(* What a step does to the messages, whatever else it does. *)

\* From a handler of a service to a handler of another one; the router passes
\* a request on to what its method names.
Edges ==
  {<<"router", "dispatcher", "users", "auth">>,
   <<"users", "auth", "router", "service">>,
   <<"devices", "subscribe", "connections", "subscribe">>,
   <<"connections", "subscribe", "subscriptions", "on">>,
   <<"devices", "unsubscribe", "connections", "unsubscribe">>,
   <<"connections", "unsubscribe", "subscriptions", "off">>,
   <<"devices", "control", "connections", "devices">>,
   <<"connections", "devices", "subscriptions", "groups">>,
   <<"subscriptions", "groups", "devices", "request">>,
   <<"subscriptions", "devices", "connections", "groups">>,
   <<"router", "response", "devices", "response">>,
   <<"router", "notify", "devices", "notify">>,
   <<"devices", "notify", "subscriptions", "emit">>}

\* Where s passes a message on to, and what it has checked then.
Passes(s, to, m) ==
  LET h == Head(inbox[s]).h
      q == request[m.r]
  IN  /\ \/ <<s, h, to, m.h>> \in Edges
         \/ /\ s = "router" /\ Names(q, to, m.h)
            /\ h = "service" \/ (h = "dispatcher" /\ q.method \in GuestMethods)
      /\ h = "auth" => q.key \in AuthKeys' \cup {ProfileKey}
      /\ s = "devices" /\ h = "subscribe" => Registered(q.device)
      /\ s = "connections" /\ h = "subscribe" => Filled(q.device)

\* The handlers of requests to start or to stop listening.
Guarded == {"dispatcher", "service", "auth", "subscribe", "unsubscribe", "off"}

\* Why they end a request instead of passing it on, and what the last does.
Ends(s, what) ==
  LET h == Head(inbox[s]).h
      q == request[Head(inbox[s]).r]
  IN  /\ h \in Guarded \ {"off"} => what = "error"
      /\ h = "dispatcher" /\ Len(q.method) > 1 => q.key = None
      /\ h = "auth" => q.key \notin AuthKeys \cup {ProfileKey}
      /\ h = "service" => q.method # <<"devices", "unsubscribe">>
      /\ s = "devices" /\ h \in {"subscribe", "unsubscribe"} => ~Registered(q.device)
      /\ s = "connections" /\ h = "unsubscribe" => ~Filled(q.device)
      /\ h = "off" /\ q.device \in Devices =>
           subscribers'[q.device] = None \/ q.from \notin subscribers'[q.device]

\* Service s passes the request of its message on.
Hop(s, to, m) ==
  /\ inbox[s] # <<>> /\ s # to
  /\ inbox' = Put(Take(inbox, s), to, m)
  /\ m.r = Head(inbox[s]).r
  /\ Fit(to, m) /\ Passes(s, to, m)
  /\ UNCHANGED <<request, outcome, commands>>

\* What a command, an answer and the loss of a task say about the request.
Right(q, what) ==
  /\ what \in {"command", "answering", "answered"} => Allowed(q)
  /\ what = "command" => q.device \in Devices
  /\ what = "lost" => Misnames(q)

\* The inbox of s without its head, and what skip reports to the router.
Ended(s) == {Take(inbox, s), Put(Take(inbox, s), "router", Task("error", 0))}

\* Service s ends the request of its message, or writes it to a device.
Finish(s, o) ==
  LET r == Head(inbox[s]).r IN
  /\ inbox[s] # <<>> /\ r \in DOMAIN request
  /\ inbox' \in Ended(s)
  /\ outcome' = [outcome EXCEPT ![r] = o]
  /\ o.what \notin Busy /\ Ends(s, o.what)
  /\ Right(request[r], o.what)
  /\ \/ UNCHANGED commands
     \/ o.what = "command" /\ \E t \in Transports : commands' = commands \cup {<<r, t>>}
  /\ UNCHANGED request

\* Service s handles a message without a request.
Drop(s) ==
  /\ inbox[s] # <<>> /\ Head(inbox[s]).r = 0
  /\ inbox' = Take(inbox, s)
  /\ UNCHANGED <<request, outcome, commands>>

\* A session sends the router a message without a request.
Post(m) ==
  /\ inbox' = Put(inbox, "router", m)
  /\ m.r = 0 /\ Fit("router", m)
  /\ UNCHANGED <<request, outcome, commands>>

Shape ==
  \/ \E s, to \in Services, m \in Message : Hop(s, to, m)
  \/ \E s \in Services, o \in Outcome : Finish(s, o)
  \/ \E s \in Services : Drop(s)
  \/ \E c \in Calls : Arrive(c)
  \/ \E t \in Transports : \E r \in DOMAIN request : DeviceAnswer(r, t)
  \/ \E m \in Message : Post(m)
  \/ UNCHANGED <<inbox, request, outcome, commands>>

LEMMA HeadFit ==
  ASSUME TypeOK, MailInv, NEW s \in Services, inbox[s] # <<>>
  PROVE  Head(inbox[s]) \in Message /\ Fit(s, Head(inbox[s]))
  <1>1. inbox \in [Services -> Seq(Message)]
    BY DEF TypeOK
  <1>2. Head(inbox[s]) \in Message
    BY <1>1, TakeShape
  <1>3. Waits(inbox, s, Head(inbox[s]))
    BY <1>1, TakeWaits
  <1> QED BY <1>2, <1>3 DEF MailInv

\* A handler that is not Plain, and is not misplaced, has a task.
LEMMA ReceivedFit ==
  ASSUME TypeOK, MailInv, NEW s \in Services, NEW h, Received(s, h)
  PROVE  /\ inbox[s] # <<>> /\ Head(inbox[s]).h = h
         /\ Head(inbox[s]) \in Message /\ Fit(s, Head(inbox[s]))
         /\ h \notin Plain => Head(inbox[s]).r \in DOMAIN request
         /\ h \in Plain => Head(inbox[s]).r = 0
         /\ h = "response" => Head(inbox[s]).from # None
  <1>1. /\ inbox[s] # <<>> /\ Head(inbox[s]).h = h /\ ~Misplaced(Head(inbox[s]))
    BY DEF Received
  <1>2. Head(inbox[s]) \in Message /\ Fit(s, Head(inbox[s]))
    BY <1>1, HeadFit
  <1>3. h \notin Plain => Head(inbox[s]).r \in DOMAIN request /\ Head(inbox[s]).r # 0
    <2>1. 0 \notin DOMAIN request
      BY DEF TypeOK
    <2> QED BY <1>1, <1>2, <2>1 DEF Fit
  <1>4. h \in Plain => Head(inbox[s]).r = 0
    BY <1>1, <1>2 DEF Fit, Misplaced, TakesNoTask, Plain
  <1>5. h = "response" => Head(inbox[s]).from # None
    BY <1>1, <1>3 DEF Misplaced, TakesNoTask, Plain
  <1> QED BY <1>1, <1>2, <1>3, <1>4, <1>5

LEMMA HandlersAreTypes ==
  ASSUME NEW s \in Services, NEW h \in Handlers(s)
  PROVE  h \in MessageTypes
  BY DEF MessageTypes

\* The handlers that the services name, apart from those of the router.
LEMMA TypesOfHandlers ==
  /\ {"add", "delete", "list", "login", "auth"} \subseteq MessageTypes
  /\ {"groups", "on", "off", "emit", "devices", "subscribe", "unsubscribe"} \subseteq MessageTypes
  /\ {"request", "response", "notify"} \subseteq MessageTypes
  /\ {"dispatcher", "service", "error", "info"} \subseteq MessageTypes
  <1>1. /\ {"add", "delete", "list", "login", "auth"} \subseteq Handlers("users")
        /\ {"add", "delete", "list", "devices", "groups",
            "on", "off", "emit"} \subseteq Handlers("subscriptions")
        /\ {"add", "delete", "list", "groups", "devices",
            "subscribe", "unsubscribe"} \subseteq Handlers("connections")
        /\ {"add", "delete", "list", "detail", "control",
            "connect", "disconnect", "request", "response",
            "notify", "subscribe", "unsubscribe"} \subseteq Handlers("devices")
    BY DEF Handlers
  <1>2. {"users", "subscriptions", "connections", "devices"} \subseteq Services
    BY DEF Services
  <1> QED BY <1>1, <1>2, HandlersAreTypes DEF MessageTypes

LEMMA TaskType ==
  ASSUME NEW h \in MessageTypes, NEW r \in Nat
  PROVE  /\ Task(h, r) \in Message /\ Task(h, r).h = h /\ Task(h, r).r = r
         /\ Task(h, r).from = None
  BY DEF Task, Message, NoGroups

LEMMA TaskGroups ==
  ASSUME NEW h \in MessageTypes, NEW r \in Nat, NEW gs \in [Groups -> Nat] \cup {None}
  PROVE  /\ [Task(h, r) EXCEPT !.groups = gs] \in Message
         /\ [Task(h, r) EXCEPT !.groups = gs].h = h
         /\ [Task(h, r) EXCEPT !.groups = gs].r = r
         /\ [Task(h, r) EXCEPT !.groups = gs].from = None
         /\ [Task(h, r) EXCEPT !.groups = gs].groups = gs
  BY DEF Task, Message, NoGroups

LEMMA TaskFrom ==
  ASSUME NEW h \in MessageTypes, NEW t \in Transports
  PROVE  /\ [Task(h, 0) EXCEPT !.from = t] \in Message
         /\ [Task(h, 0) EXCEPT !.from = t].h = h
         /\ [Task(h, 0) EXCEPT !.from = t].r = 0
  BY DEF Task, Message, NoGroups

LEMMA TaskDevice ==
  ASSUME NEW h \in MessageTypes, NEW d \in Devices \cup {None}
  PROVE  /\ [Task(h, 0) EXCEPT !.device = d] \in Message
         /\ [Task(h, 0) EXCEPT !.device = d].h = h
         /\ [Task(h, 0) EXCEPT !.device = d].r = 0
         /\ [Task(h, 0) EXCEPT !.device = d].from = None
  BY DEF Task, Message, NoGroups

\* The request of a message is a Call.
LEMMA RequestType ==
  ASSUME TypeOK, NEW r \in DOMAIN request
  PROVE  request[r] \in Calls /\ request[r] \in Call /\ r \in Nat \ {0}
  BY ManagerAssumption DEF TypeOK

\* The task that the router makes of an authenticated request.
LEMMA RoutedFit ==
  ASSUME NEW s, NEW h, NEW r \in DOMAIN request, r \in Nat \ {0}, NEW m,
         m.h = h, m.r = r, m.from = None, h \notin {"error", "service", "dispatcher"},
         Names(request[r], s, h), Authenticated(request[r].key),
         Admin(request[r]) \/ request[r].method \in UserMethods
  PROVE  Fit(s, m)
  <1> DEFINE q == request[r]
  <1>1. q.key # None
    BY ManagerAssumption DEF Authenticated, Bad
  <1>2. Len(q.method) > 1 /\ q.method[1] = s /\ q.method[2] = h
    BY DEF Names
  <1>3. CASE Admin(q)
    <2>1. Misplaced(m) => Misnames(q)
      BY <1>2, <1>3 DEF Misplaced, Misnames
    <2>2. s = "devices" /\ h = "request" => Allowed(q)
      BY <1>3 DEF Allowed, ForDevice
    <2>3. \/ s = "devices" /\ h = "control"
          \/ s = "connections" /\ h = "devices"
          \/ s = "subscriptions" /\ h = "groups"
          => ForDevice(q)
      BY DEF ForDevice
    <2> QED BY <1>1, <1>2, <1>3, <2>1, <2>2, <2>3 DEF Fit
  <1>4. CASE q.method \in UserMethods
    <2>1. /\ s \in {"devices", "subscriptions", "connections"}
          /\ h \in {"list", "control", "detail", "subscribe", "devices", "unsubscribe"}
          /\ h = "devices" => s = "subscriptions"
      <3> HIDE DEF q
      <3> QED BY <1>2, <1>4 DEF UserMethods
    <2>2. s = "devices" /\ h = "control" => ForDevice(q)
      BY DEF ForDevice
    <2>3. ~Misplaced(m)
      BY <2>1 DEF Misplaced, TakesNoTask, Standard
    <2> QED BY <1>1, <1>2, <2>1, <2>2, <2>3 DEF Fit
  <1> QED BY <1>3, <1>4

LEMMA ReplyEnds ==
  ASSUME TypeOK, MailInv, NEW s \in Services, NEW h, Received(s, h), h \notin Plain,
         NEW what \in {"ok", "error", "denied", "mixed"}, Ends(s, what),
         Reply(s, what), UNCHANGED <<request, commands>>
  PROVE  Shape
  <1>1. inbox[s] # <<>> /\ Head(inbox[s]).r \in DOMAIN request
    BY ReceivedFit
  <1> DEFINE o == [what |-> what, via |-> Via(Params(s).from)]
  <1>2. Via(Params(s).from) \in {"session", "lost", "platform"}
    BY DEF Via
  <1>3. o \in Outcome /\ o.what \notin Busy /\ Right(request[Head(inbox[s]).r], o.what)
    BY <1>2 DEF Outcome, Busy, Right
  <1>4. Finish(s, o)
    BY <1>1, <1>3 DEF Finish, Reply, Done, Take, Ended
  <1> QED BY <1>3, <1>4 DEF Shape

LEMMA ReplyFinish ==
  ASSUME TypeOK, MailInv, NEW s \in Services, NEW h, Received(s, h),
         h \notin Plain \cup Guarded,
         NEW what \in {"ok", "error", "denied", "mixed"},
         Reply(s, what), UNCHANGED <<request, commands>>
  PROVE  Shape
  <1>1. Ends(s, what)
    BY DEF Received, Ends, Guarded
  <1> QED BY <1>1, ReplyEnds

LEMMA ForwardHop ==
  ASSUME TypeOK, MailInv, NEW s \in Services, NEW to \in Services, s # to,
         inbox[s] # <<>>, NEW m \in Message, m.r = Head(inbox[s]).r, Fit(to, m),
         Passes(s, to, m), Forward(s, to, m), UNCHANGED <<request, commands>>
  PROVE  Shape
  <1>1. inbox' = Put(Take(inbox, s), to, m)
    BY DEF Forward, Put, Take
  <1>2. Hop(s, to, m)
    BY <1>1 DEF Hop, Forward
  <1> QED BY <1>2 DEF Shape

LEMMA QueryShape ==
  ASSUME TypeOK, MailInv, NEW s \in Services, NEW h, h \notin Plain \cup Guarded, NEW possible,
         Query(s, h, possible)
  PROVE  Shape
  BY ReplyFinish DEF Query, net

LEMMA LoseShape ==
  ASSUME TypeOK, MailInv, NEW s \in Services, s # "router", LoseTask(s)
  PROVE  Shape
  <1> DEFINE m == Head(inbox[s])
             o == [what |-> "lost", via |-> None]
  <1>1. inbox[s] # <<>> /\ Misplaced(m)
    BY DEF LoseTask
  <1>2. m.r \in DOMAIN request /\ Misnames(request[m.r]) /\ m.h \in TakesNoTask
    BY <1>1, HeadFit DEF Fit, Misplaced
  <1>3. o \in Outcome /\ o.what \notin Busy /\ Right(request[m.r], o.what)
    BY <1>2 DEF Outcome, Busy, Right
  <1>4. Ends(s, o.what)
    BY <1>2 DEF Ends, Guarded, TakesNoTask, Standard
  <1>5. inbox' \in Ended(s)
    <2>1. CASE Done(s)
      BY <2>1 DEF Done, Ended, Take
    <2>2. CASE inbox' = [inbox EXCEPT ![s] = Tail(@), !["router"] = Append(@, Task("error", 0))]
      <3>1. inbox' = Put(Take(inbox, s), "router", Task("error", 0))
        <4> PICK n : n = Task("error", 0)
          OBVIOUS
        <4>1. inbox' = [inbox EXCEPT ![s] = Tail(@), !["router"] = Append(@, n)]
          BY <2>2
        <4>2. inbox' = Put(Take(inbox, s), "router", n)
          BY <4>1 DEF Put, Take
        <4> QED BY <4>2
      <3> QED BY <3>1 DEF Ended
    <2> QED BY <2>1, <2>2 DEF LoseTask
  <1>6. outcome' = [outcome EXCEPT ![m.r] = o] /\ UNCHANGED <<request, commands>>
    BY DEF LoseTask, net
  <1>7. Finish(s, o)
    BY <1>1, <1>2, <1>3, <1>4, <1>5, <1>6 DEF Finish
  <1> QED BY <1>3, <1>7 DEF Shape

LEMMA RouterShape ==
  ASSUME TypeOK, MailInv, RouterStep
  PROVE  Shape
  <1> DEFINE m == Head(inbox["router"])
             r == m.r
             q == request[r]
  <1>1. CASE RouterRequest
    <2>1. inbox["router"] # <<>> /\ Received("router", "dispatcher") /\ m.h = "dispatcher"
      BY <1>1 DEF RouterRequest, Received
    <2>2. r \in DOMAIN request /\ r \in Nat
      BY <2>1, HeadFit, RequestType DEF Fit, Plain, Services
    <2>3. UNCHANGED <<request, commands>>
      BY <1>1 DEF RouterRequest, net
    <2>4. CASE /\ Len(q.method) > 1 /\ q.key # None
               /\ Forward("router", "users", Task("auth", r))
      <3>1. Fit("users", Task("auth", r))
        <4> PICK n : n = Task("auth", r)
          OBVIOUS
        <4>1. n.h = "auth" /\ n.r = r
          BY <2>2, TaskType, TypesOfHandlers
        <4> QED BY <2>2, <2>4, <4>1 DEF Fit, Plain, Misplaced, TakesNoTask, Standard
      <3>2. Passes("router", "users", Task("auth", r))
        BY <2>1, <2>2, TaskType, TypesOfHandlers DEF Passes, Edges
      <3> QED BY <2>1, <2>2, <2>3, <2>4, <3>1, <3>2, TaskType, TypesOfHandlers, ForwardHop DEF Services
    <2>5. CASE q.method \in GuestMethods /\ Forward("router", q.method[1], Task(q.method[2], r))
      <3>1. /\ q.method[1] \in {"users", "manager"}
            /\ q.method[2] \in {"login", "info"}
        <4> HIDE DEF q
        <4> QED BY <2>5 DEF GuestMethods
      <3>2. q.method[2] \in MessageTypes
        BY <3>1, TypesOfHandlers
      <3>3. Fit(q.method[1], Task(q.method[2], r))
        <4> PICK n : n = Task(q.method[2], r)
          OBVIOUS
        <4>1. n.h \in {"login", "info"} /\ n.r = r
          BY <2>2, <3>1, <3>2, TaskType
        <4> QED BY <2>2, <4>1 DEF Fit, Plain, Misplaced, TakesNoTask, Standard
      <3>4. Passes("router", q.method[1], Task(q.method[2], r))
        <4>1. Names(q, q.method[1], q.method[2])
          BY <2>5 DEF GuestMethods, Names
        <4>2. Task(q.method[2], r).h = q.method[2] /\ Task(q.method[2], r).r = r
          BY <2>2, <3>2, TaskType
        <4> QED BY <2>1, <2>5, <4>1, <4>2 DEF Passes
      <3>5. Task(q.method[2], r) \in Message /\ Task(q.method[2], r).r = r
        BY <2>2, <3>2, TaskType
      <3>6. q.method[1] \in Services /\ q.method[1] # "router" /\ "router" \in Services
        BY <3>1 DEF Services
      <3> QED BY <2>1, <2>3, <2>5, <3>3, <3>4, <3>5, <3>6, ForwardHop
    <2>6. CASE /\ Len(q.method) > 1 => q.key = None
               /\ Reply("router", "error")
      <3>1. Ends("router", "error")
        BY <2>1, <2>6 DEF Ends, Guarded
      <3> QED BY <2>1, <2>3, <2>6, <3>1, ReplyEnds DEF Services, Plain
    <2> QED BY <1>1, <2>4, <2>5, <2>6 DEF RouterRequest, Params
  <1>2. CASE RouterFromDevice
    <2>1. /\ inbox["router"] # <<>> /\ m.h \in {"response", "notify"}
          /\ m \in Message /\ Fit("router", m)
      BY <1>2, ReceivedFit DEF RouterFromDevice, Services
    <2>2. m.h = "response" /\ m.from # None => Allowed(request[m.r])
      BY <2>1 DEF Fit
    <2>3. Fit("devices", m)
      BY <2>1, <2>2 DEF Fit
    <2>4. Passes("router", "devices", m)
      BY <2>1 DEF Passes, Edges
    <2> QED BY <1>2, <2>1, <2>3, <2>4, ForwardHop DEF RouterFromDevice, Services, net
  <1>3. CASE RouterService
    <2>1. inbox["router"] # <<>> /\ Received("router", "service") /\ m.h = "service"
      BY <1>3 DEF RouterService, Received
    <2>2. /\ r \in DOMAIN request /\ r \in Nat \ {0} /\ q \in Call
          /\ Authenticated(q.key) /\ Len(q.method) > 1
      <3>1. Fit("router", m)
        BY <2>1, HeadFit DEF Services
      <3>2. r \in DOMAIN request
        BY <2>1, <3>1 DEF Fit, Plain
      <3>3. r \in Nat \ {0} /\ q \in Call
        BY <3>2, RequestType
      <3> QED BY <2>1, <3>1, <3>2, <3>3 DEF Fit
    <2>3. UNCHANGED <<request, commands>>
      BY <1>3 DEF RouterService, net
    <2>4. CASE /\ q.method[1] \in Services \ {"router", "manager"}
               /\ q.method[2] \in Handlers(q.method[1])
               /\ Admin(q) \/ q.method \in UserMethods
               /\ Forward("router", q.method[1], [Task(q.method[2], r) EXCEPT !.groups = q.groups])
      <3> DEFINE s == q.method[1]
                 h == q.method[2]
                 n == [Task(h, r) EXCEPT !.groups = q.groups]
      <3>1. /\ s \in {"users", "groups", "subscriptions", "connections", "devices"}
            /\ s \in Services
        BY <2>4 DEF Services
      <3>2. h \in MessageTypes /\ h \notin {"info", "service", "dispatcher", "error"}
        <4>1. h \in MessageTypes
          BY <2>4, <3>1, HandlersAreTypes
        <4>2. h \notin {"info", "service", "dispatcher", "error"}
          BY <2>4, <3>1 DEF Handlers, Standard
        <4> QED BY <4>1, <4>2
      <3>3. Names(q, s, h)
        BY <2>2 DEF Names
      <3>4. /\ n \in Message /\ n.h = h /\ n.r = r /\ n.from = None
        <4>1. q.groups \in [Groups -> Nat] \cup {None}
          BY <2>2 DEF Call
        <4>2. r \in Nat /\ h \in MessageTypes
          BY <2>2, <3>2
        <4> HIDE DEF s, h, q, m, r
        <4> QED BY <4>1, <4>2, TaskGroups
      <3> HIDE DEF n
      <3>5. Fit(s, n)
        <4>1. Admin(q) \/ q.method \in UserMethods
          BY <2>4
        <4>2. r \in DOMAIN request /\ r \in Nat \ {0} /\ Authenticated(q.key)
          BY <2>2
        <4>3. h \notin {"error", "service", "dispatcher"}
          BY <3>2
        <4> HIDE DEF s, h, r
        <4> QED BY <3>3, <3>4, <4>1, <4>2, <4>3, RoutedFit
      <3>6. Passes("router", s, n)
        <4>1. m.h = "service" /\ request[n.r] = q
          BY <2>1, <3>4
        <4> HIDE DEF s, h, q, m, r
        <4> QED BY <3>3, <3>4, <4>1 DEF Passes, m
      <3> QED BY <2>1, <2>3, <2>4, <3>1, <3>4, <3>5, <3>6, ForwardHop DEF Services, n
    <2>5. CASE /\ ~(/\ q.method[1] \in Services \ {"router", "manager"}
                    /\ q.method[2] \in Handlers(q.method[1])
                    /\ Admin(q) \/ q.method \in UserMethods)
               /\ Reply("router", "error")
      <3>1. q.method # <<"devices", "unsubscribe">>
        <4>1. "devices" \in Services \ {"router", "manager"}
          BY DEF Services
        <4>2. "unsubscribe" \in Handlers("devices")
          BY DEF Handlers
        <4>3. <<"devices", "unsubscribe">> \in UserMethods
          BY DEF UserMethods
        <4> HIDE DEF q
        <4> QED BY <2>5, <4>1, <4>2, <4>3
      <3>2. Ends("router", "error")
        BY <2>1, <3>1 DEF Ends, Guarded
      <3> QED BY <2>1, <2>3, <2>5, <3>2, ReplyEnds DEF Services, Plain
    <2> QED BY <1>3, <2>4, <2>5 DEF RouterService, Params
  <1>4. CASE RouterError
    <2>1. inbox["router"] # <<>> /\ m.h = "error"
      BY <1>4 DEF RouterError, Received
    <2>2. m.r = 0
      BY <2>1, HeadFit DEF Fit, Services
    <2>3. Drop("router")
      BY <1>4, <2>1, <2>2 DEF Drop, RouterError, Done, Take
    <2> QED BY <2>3 DEF Shape, Services
  <1> QED BY <1>1, <1>2, <1>3, <1>4 DEF RouterStep

\* granted, attached and enrolled are the histories of subs, conns and users;
\* the cache holds keys that users.auth has accepted.
HistoryInv ==
  /\ Rows(subs) \subseteq granted /\ Rows(conns) \subseteq attached
  /\ users \subseteq enrolled
  /\ \A e \in auth : Authenticated(e[1]) /\ e[2] \in {e[1][1], Empty}

LEMMA MatchesAuthenticated ==
  ASSUME users \subseteq enrolled, NEW k \in Keys, Matches(k)
  PROVE  Authenticated(k)
  BY DEF Matches, Authenticated

LEMMA UsersShape ==
  ASSUME TypeOK, MailInv, HistoryInv, UsersStep
  PROVE  Shape
  <1>1. CASE UsersAdd
    BY <1>1, ReplyFinish DEF UsersAdd, Services, Plain, Guarded, net
  <1>2. CASE UsersDelete
    BY <1>2, ReplyFinish DEF UsersDelete, Services, Plain, Guarded, net
  <1>3. CASE UsersList \/ UsersLogin
    BY <1>3, QueryShape DEF UsersList, UsersLogin, Services, Plain, Guarded
  <1>4. CASE UsersAuth
    <2> DEFINE r == Head(inbox["users"]).r
    <2>1. /\ inbox["users"] # <<>> /\ Received("users", "auth")
          /\ Head(inbox["users"]).h = "auth"
          /\ UNCHANGED <<request, commands>>
      BY <1>4 DEF UsersAuth, Received, net
    <2>2. Fit("users", Head(inbox["users"]))
      BY <2>1, HeadFit DEF Services
    <2> DEFINE k == request[r].key
    <2>3. /\ r \in DOMAIN request /\ r \in Nat /\ k \in Keys
          /\ Len(request[r].method) > 1
      <3>1. r \in DOMAIN request /\ k # None /\ Len(request[r].method) > 1
        BY <2>1, <2>2 DEF Fit, Plain
      <3>2. r \in Nat \ {0} /\ k \in Keys \cup Bad
        BY <3>1, RequestType DEF Call
      <3>3. ~Throws("users")
        BY <1>4 DEF UsersAuth, Received
      <3>4. k # Wrong
        BY <2>1, <3>2, <3>3 DEF Throws, Params
      <3> QED BY <3>1, <3>2, <3>4 DEF Bad
    <2>4. CASE /\ k \in AuthKeys' \cup {ProfileKey} /\ Authenticated(k)
               /\ Forward("users", "router", Task("service", r))
      <3>1. Fit("router", Task("service", r))
        <4> PICK n : n = Task("service", r)
          OBVIOUS
        <4>1. n.h = "service" /\ n.r = r
          BY <2>3, TaskType, TypesOfHandlers
        <4> QED BY <2>3, <2>4, <4>1 DEF Fit, Plain, Misplaced, TakesNoTask, Standard
      <3>2. Passes("users", "router", Task("service", r))
        BY <2>1, <2>3, <2>4, TaskType, TypesOfHandlers DEF Passes, Edges
      <3> QED BY <2>1, <2>3, <2>4, <3>1, <3>2, TaskType, TypesOfHandlers, ForwardHop DEF Services
    <2>5. CASE k \notin AuthKeys \cup {ProfileKey} /\ Reply("users", "error")
      <3>1. Ends("users", "error")
        BY <2>1, <2>5 DEF Ends, Guarded
      <3> QED BY <2>1, <2>5, <3>1, ReplyEnds DEF Services, Plain
    <2>6. k \in AuthKeys \cup {ProfileKey} => Authenticated(k)
      BY ManagerAssumption DEF HistoryInv, AuthKeys, Authenticated
    <2>7. Matches(k) => Authenticated(k)
      BY <2>3, MatchesAuthenticated DEF HistoryInv
    <2>8. /\ UNCHANGED auth => AuthKeys' = AuthKeys
          /\ auth' = auth \cup {<<k, LoginOf(k)>>} => k \in AuthKeys'
      BY DEF AuthKeys
    <2> QED BY <1>4, <2>4, <2>5, <2>6, <2>7, <2>8 DEF UsersAuth, Params
  <1>5. CASE LoseTask("users")
    BY <1>5, LoseShape DEF Services
  <1> QED BY <1>1, <1>2, <1>3, <1>4, <1>5 DEF UsersStep

LEMMA GroupsShape ==
  ASSUME TypeOK, MailInv, GroupsStep
  PROVE  Shape
  <1>1. CASE GroupsAdd
    BY <1>1, ReplyFinish DEF GroupsAdd, Services, Plain, Guarded, net
  <1>2. CASE GroupsDelete
    BY <1>2, ReplyFinish DEF GroupsDelete, Services, Plain, Guarded, net
  <1>3. CASE GroupsList
    BY <1>3, QueryShape DEF GroupsList, Services, Plain, Guarded
  <1>4. CASE LoseTask("groups")
    BY <1>4, LoseShape DEF Services
  <1> QED BY <1>1, <1>2, <1>3, <1>4 DEF GroupsStep

LEMMA SelectType ==
  ASSUME NEW S, NEW table \in [Groups \X S -> Nat], NEW x \in S
  PROVE  /\ Select(table, x) \in [Groups -> Nat]
         /\ \A g \in Groups : InJoined(g, Select(table, x)) => <<g, x>> \in Rows(table)
  <1>1. Select(table, x) \in [Groups -> Nat]
    BY DEF Select
  <1>2. ASSUME NEW g \in Groups, InJoined(g, Select(table, x))
        PROVE  <<g, x>> \in Rows(table)
    <2>1. Select(table, x)[g] = 1
      BY <1>2 DEF InJoined, NoGroups
    <2>2. table[<<g, x>>] = 1
      BY <2>1 DEF Select
    <2> QED BY <2>2 DEF Rows
  <1> QED BY <1>1, <1>2

LEMMA ConnectionsShape ==
  ASSUME TypeOK, MailInv, HistoryInv, ConnectionsStep
  PROVE  Shape
  <1> DEFINE m == Head(inbox["connections"])
             r == m.r
             q == request[r]
  <1>1. CASE ConnectionsAdd
    BY <1>1, ReplyFinish DEF ConnectionsAdd, Services, Plain, Guarded, net
  <1>2. CASE ConnectionsDelete
    BY <1>2, ReplyFinish DEF ConnectionsDelete, Services, Plain, Guarded, net
  <1>3. CASE ConnectionsList \/ ConnectionsGroups
    BY <1>3, QueryShape DEF ConnectionsList, ConnectionsGroups, Services, Plain, Guarded
  <1>4. ASSUME NEW h, NEW next, WithDeviceGroups(h, next),
               \/ h = "devices" /\ next = "groups"
               \/ h = "subscribe" /\ next = "on"
        PROVE  Shape
    <2>1. inbox["connections"] # <<>> /\ Received("connections", h) /\ m.h = h
      BY <1>4 DEF WithDeviceGroups, Received
    <2>2. Fit("connections", m)
      BY <2>1, HeadFit DEF Services
    <2>3. r \in DOMAIN request /\ r \in Nat \ {0} /\ q \in Call /\ Authenticated(q.key)
      <3>1. r \in DOMAIN request
        BY <1>4, <2>1, <2>2 DEF Fit, Plain
      <3>2. r \in Nat \ {0} /\ q \in Call
        BY <3>1, RequestType
      <3> QED BY <1>4, <2>1, <2>2, <3>1, <3>2 DEF Fit
    <2>4. UNCHANGED <<request, commands>>
      BY <1>4 DEF WithDeviceGroups, net
    <2> DEFINE gs == Select(conns, q.device)
               n == [Task(next, r) EXCEPT !.groups = gs]
    <2>5. CASE Filled(q.device) /\ Forward("connections", "subscriptions", n)
      <3>1. q.device \in Devices
        BY <2>3, <2>5 DEF Call, Filled
      <3>2. /\ gs \in [Groups -> Nat]
            /\ \A g \in Groups : InJoined(g, gs) => <<g, q.device>> \in attached
        BY <3>1, SelectType DEF TypeOK, HistoryInv
      <3>3. next \in MessageTypes
        BY <1>4, TypesOfHandlers
      <3>4. n \in Message /\ n.h = next /\ n.r = r /\ n.groups = gs /\ n.from = None
        BY <2>3, <3>2, <3>3, TaskGroups
      <3> HIDE DEF n, gs
      <3>5. Fit("subscriptions", n)
        <4>1. h = "devices" => /\ ForDevice(q)
                               /\ Admin(q) \/ Names(q, "devices", "control")
          BY <2>1, <2>2 DEF Fit
        <4> QED BY <1>4, <2>3, <3>2, <3>4, <4>1 DEF Fit, Plain, Misplaced, TakesNoTask, Standard
      <3>6. Passes("connections", "subscriptions", n)
        BY <1>4, <2>1, <2>5, <3>4 DEF Passes, Edges
      <3> QED BY <2>1, <2>4, <2>5, <3>4, <3>5, <3>6, ForwardHop DEF Services
    <2>6. CASE Reply("connections", "error")
      <3>1. Ends("connections", "error")
        BY <1>4, <2>1 DEF Ends, Guarded
      <3> QED BY <1>4, <2>1, <2>4, <2>6, <3>1, ReplyEnds DEF Services, Plain
    <2> QED BY <1>4, <2>5, <2>6 DEF WithDeviceGroups, Params
  <1>5. CASE ConnectionsDevices \/ ConnectionsSubscribe
    BY <1>4, <1>5 DEF ConnectionsDevices, ConnectionsSubscribe
  <1>6. CASE ConnectionsUnsubscribe
    <2>1. /\ inbox["connections"] # <<>> /\ Received("connections", "unsubscribe")
          /\ m.h = "unsubscribe"
          /\ UNCHANGED <<request, commands>>
      BY <1>6 DEF ConnectionsUnsubscribe, Received, net
    <2>2. Fit("connections", m)
      BY <2>1, HeadFit DEF Services
    <2>3. r \in DOMAIN request /\ r \in Nat \ {0} /\ Authenticated(q.key)
      <3>1. r \in DOMAIN request
        BY <2>1, <2>2 DEF Fit, Plain
      <3>2. r \in Nat \ {0}
        BY <3>1, RequestType
      <3> QED BY <2>1, <2>2, <3>1, <3>2 DEF Fit
    <2>4. CASE Forward("connections", "subscriptions", Task("off", r))
      <3>1. Fit("subscriptions", Task("off", r))
        <4> PICK n : n = Task("off", r)
          OBVIOUS
        <4>1. n.h = "off" /\ n.r = r
          BY <2>3, TaskType, TypesOfHandlers
        <4> QED BY <2>3, <4>1 DEF Fit, Plain, Misplaced, TakesNoTask, Standard
      <3>2. Passes("connections", "subscriptions", Task("off", r))
        BY <2>1, <2>3, TaskType, TypesOfHandlers DEF Passes, Edges
      <3> QED BY <2>1, <2>3, <2>4, <3>1, <3>2, TaskType, TypesOfHandlers, ForwardHop DEF Services
    <2>5. CASE ~Filled(q.device) /\ Reply("connections", "error")
      <3>1. Ends("connections", "error")
        BY <2>1, <2>5 DEF Ends, Guarded
      <3> QED BY <2>1, <2>5, <3>1, ReplyEnds DEF Services, Plain
    <2> QED BY <1>6, <2>4, <2>5 DEF ConnectionsUnsubscribe, Params
  <1>7. CASE LoseTask("connections")
    BY <1>7, LoseShape DEF Services
  <1> QED BY <1>1, <1>2, <1>3, <1>5, <1>6, <1>7 DEF ConnectionsStep

\* The check of access finds a common group, or the administrator.
LEMMA AccessIsShared ==
  ASSUME TypeOK, HistoryInv, NEW q, Authenticated(q.key), NEW gs, HasAccess(q, gs),
         \/ Admin(q)
         \/ \A g \in Groups : InJoined(g, gs) => <<g, q.device>> \in attached
  PROVE  Admin(q) \/ Shared(q)
  <1> SUFFICES ASSUME ~Admin(q) PROVE Shared(q)
    OBVIOUS
  <1>1. PICK g \in Groups : InJoined(g, gs) /\ subs[<<g, q.key[1]>>] > 0
    BY DEF HasAccess
  <1>2. q.key[1] \in Logins
    BY DEF Authenticated, Keys
  <1>3. <<g, q.key[1]>> \in granted
    BY <1>1, <1>2 DEF TypeOK, HistoryInv, Rows
  <1> QED BY <1>1, <1>3 DEF Shared

LEMMA SubscriptionsShape ==
  ASSUME TypeOK, MailInv, HistoryInv, SubscriptionsStep
  PROVE  Shape
  <1> DEFINE m == Head(inbox["subscriptions"])
             r == m.r
             q == request[r]
  <1>1. CASE SubscriptionsAdd
    BY <1>1, ReplyFinish DEF SubscriptionsAdd, Services, Plain, Guarded, net
  <1>2. CASE SubscriptionsDelete
    BY <1>2, ReplyFinish DEF SubscriptionsDelete, Services, Plain, Guarded, net
  <1>3. CASE SubscriptionsList
    BY <1>3, QueryShape DEF SubscriptionsList, Services, Plain, Guarded
  <1>4. CASE SubscriptionsDevices
    <2>1. /\ inbox["subscriptions"] # <<>> /\ Received("subscriptions", "devices")
          /\ m.h = "devices"
          /\ UNCHANGED <<request, commands>>
      BY <1>4 DEF SubscriptionsDevices, Received, net
    <2>2. Fit("subscriptions", m)
      BY <2>1, HeadFit DEF Services
    <2>3. r \in DOMAIN request /\ r \in Nat \ {0} /\ Authenticated(q.key)
      <3>1. r \in DOMAIN request
        BY <2>1, <2>2 DEF Fit, Plain
      <3>2. r \in Nat \ {0}
        BY <3>1, RequestType
      <3> QED BY <2>1, <2>2, <3>1, <3>2 DEF Fit
    <2> DEFINE gs == Select(subs, q.key[1])
               n == [Task("groups", r) EXCEPT !.groups = gs]
    <2>4. CASE Forward("subscriptions", "connections", n)
      <3>1. q.key[1] \in Logins
        BY <2>3 DEF Authenticated, Keys
      <3>2. gs \in [Groups -> Nat]
        BY <3>1, SelectType DEF TypeOK
      <3>3. n \in Message /\ n.h = "groups" /\ n.r = r
        BY <2>3, <3>2, TaskGroups, TypesOfHandlers
      <3> HIDE DEF n
      <3>4. Fit("connections", n)
        BY <2>3, <3>3 DEF Fit, Plain, Misplaced, TakesNoTask, Standard
      <3>5. Passes("subscriptions", "connections", n)
        BY <2>1, <3>3 DEF Passes, Edges
      <3> QED BY <2>1, <2>4, <3>3, <3>4, <3>5, ForwardHop DEF Services
    <2>5. CASE Reply("subscriptions", "error")
      BY <2>1, <2>5, ReplyFinish DEF Services, Plain, Guarded
    <2> QED BY <1>4, <2>4, <2>5 DEF SubscriptionsDevices, Params
  <1>5. CASE SubscriptionsGroups
    <2>1. /\ inbox["subscriptions"] # <<>> /\ Received("subscriptions", "groups")
          /\ m.h = "groups"
          /\ UNCHANGED <<request, commands>>
      BY <1>5 DEF SubscriptionsGroups, Received, net
    <2>2. Fit("subscriptions", m)
      BY <2>1, HeadFit DEF Services
    <2>3. r \in DOMAIN request /\ r \in Nat \ {0} /\ Authenticated(q.key)
      <3>1. r \in DOMAIN request
        BY <2>1, <2>2 DEF Fit, Plain
      <3>2. r \in Nat \ {0}
        BY <3>1, RequestType
      <3> QED BY <2>1, <2>2, <3>1, <3>2 DEF Fit
    <2>4. CASE /\ HasAccess(q, m.groups)
               /\ Forward("subscriptions", "devices", Task("request", r))
      <3>1. /\ ForDevice(q)
            /\ Admin(q) \/ Names(q, "devices", "control")
            /\ \/ Admin(q)
               \/ \A g \in Groups : InJoined(g, m.groups) => <<g, q.device>> \in attached
        BY <2>1, <2>2 DEF Fit
      <3>2. Admin(q) \/ Shared(q)
        <4> HIDE DEF q, m
        <4> QED BY <2>3, <2>4, <3>1, AccessIsShared
      <3>3. Allowed(q)
        BY <2>3, <3>1, <3>2 DEF Allowed
      <3>4. Fit("devices", Task("request", r))
        <4> PICK n : n = Task("request", r)
          OBVIOUS
        <4>1. n.h = "request" /\ n.r = r
          BY <2>3, TaskType, TypesOfHandlers
        <4> QED BY <2>3, <3>3, <4>1 DEF Fit, Plain, Misplaced, TakesNoTask, Standard
      <3>5. Passes("subscriptions", "devices", Task("request", r))
        BY <2>1, <2>3, TaskType, TypesOfHandlers DEF Passes, Edges
      <3> QED BY <2>1, <2>3, <2>4, <3>4, <3>5, TaskType, TypesOfHandlers, ForwardHop DEF Services
    <2>5. CASE Reply("subscriptions", "denied") \/ Reply("subscriptions", "error")
      BY <2>1, <2>5, ReplyFinish DEF Services, Plain, Guarded
    <2> QED BY <1>5, <2>4, <2>5 DEF SubscriptionsGroups, Params
  <1>6. CASE SubscriptionsOn
    <2>1. Received("subscriptions", "on") /\ UNCHANGED <<request, commands>>
      BY <1>6 DEF SubscriptionsOn, net
    <2>2. \E what \in {"ok", "error", "denied"} : Reply("subscriptions", what)
      BY <1>6 DEF SubscriptionsOn
    <2> QED BY <2>1, <2>2, ReplyFinish DEF Services, Plain, Guarded
  <1>7. CASE SubscriptionsOff
    <2>1. /\ Received("subscriptions", "off") /\ m.h = "off"
          /\ UNCHANGED <<request, commands>>
      BY <1>7 DEF SubscriptionsOff, Received, net
    <2>2. q.device \in Devices =>
            subscribers'[q.device] = None \/ q.from \notin subscribers'[q.device]
      BY <1>7 DEF SubscriptionsOff, Listeners, Params, TypeOK
    <2>3. \A what : Ends("subscriptions", what)
      BY <2>1, <2>2 DEF Ends, Guarded
    <2>4. \E what \in {"ok", "error", "mixed"} : Reply("subscriptions", what)
      BY <1>7 DEF SubscriptionsOff
    <2> QED BY <2>1, <2>3, <2>4, ReplyEnds DEF Services, Plain
  <1>8. CASE SubscriptionsEmit
    <2>1. inbox["subscriptions"] # <<>> /\ Received("subscriptions", "emit")
      BY <1>8 DEF SubscriptionsEmit, Received
    <2>2. m.r = 0
      BY <2>1, ReceivedFit DEF Plain, Services
    <2>3. Drop("subscriptions")
      BY <1>8, <2>1, <2>2 DEF Drop, SubscriptionsEmit, Done, Take
    <2> QED BY <2>3 DEF Shape, Services
  <1>9. CASE LoseTask("subscriptions")
    BY <1>9, LoseShape DEF Services
  <1> QED
    BY <1>1, <1>2, <1>3, <1>4, <1>5, <1>6, <1>7, <1>8, <1>9 DEF SubscriptionsStep

LEMMA DevicesShape ==
  ASSUME TypeOK, MailInv, DevicesStep
  PROVE  Shape
  <1> DEFINE m == Head(inbox["devices"])
             r == m.r
             q == request[r]
  <1>1. CASE DevicesAdd
    BY <1>1, ReplyFinish DEF DevicesAdd, Services, Plain, Guarded, net
  <1>2. CASE DevicesDelete
    BY <1>2, ReplyFinish DEF DevicesDelete, Services, Plain, Guarded, net
  <1>3. CASE DevicesList \/ DevicesDetail
    BY <1>3, QueryShape DEF DevicesList, DevicesDetail, Services, Plain, Guarded
  <1>4. ASSUME NEW h, NEW next, IfRegistered(h, next),
               \/ h = "control" /\ next = "devices"
               \/ h \in {"subscribe", "unsubscribe"} /\ next = h
        PROVE  Shape
    <2>1. inbox["devices"] # <<>> /\ Received("devices", h) /\ m.h = h
      BY <1>4 DEF IfRegistered, Received
    <2>2. Fit("devices", m)
      BY <2>1, HeadFit DEF Services
    <2>3. r \in DOMAIN request /\ r \in Nat \ {0} /\ Authenticated(q.key)
      <3>1. r \in DOMAIN request
        BY <1>4, <2>1, <2>2 DEF Fit, Plain
      <3>2. r \in Nat \ {0}
        BY <3>1, RequestType
      <3> QED BY <1>4, <2>1, <2>2, <3>1, <3>2 DEF Fit
    <2>4. UNCHANGED <<request, commands>>
      BY <1>4 DEF IfRegistered, net
    <2>5. CASE /\ Registered(q.device)
               /\ Forward("devices", "connections", Task(next, r))
      <3>1. next \in MessageTypes
        BY <1>4, TypesOfHandlers
      <3>2. Task(next, r) \in Message /\ Task(next, r).h = next /\ Task(next, r).r = r
        BY <2>3, <3>1, TaskType
      <3>3. Fit("connections", Task(next, r))
        <4>1. h = "control" => /\ ForDevice(q)
                               /\ Admin(q) \/ Names(q, "devices", "control")
          BY <2>1, <2>2 DEF Fit
        <4> PICK n : n = Task(next, r)
          OBVIOUS
        <4>2. n.h = next /\ n.r = r
          BY <3>2
        <4>3. Fit("connections", n)
          BY <1>4, <2>3, <4>1, <4>2 DEF Fit, Plain, Misplaced, TakesNoTask, Standard
        <4> QED BY <4>3
      <3>4. Passes("devices", "connections", Task(next, r))
        BY <1>4, <2>1, <2>5, <3>2 DEF Passes, Edges
      <3> QED BY <2>1, <2>4, <2>5, <3>2, <3>3, <3>4, ForwardHop DEF Services
    <2>6. CASE ~Registered(q.device) /\ Reply("devices", "error")
      <3>1. Ends("devices", "error")
        BY <1>4, <2>1, <2>6 DEF Ends, Guarded
      <3> QED BY <1>4, <2>1, <2>4, <2>6, <3>1, ReplyEnds DEF Services, Plain
    <2> QED BY <1>4, <2>5, <2>6 DEF IfRegistered, Params
  <1>5. CASE DevicesControl \/ DevicesSubscribe \/ DevicesUnsubscribe
    BY <1>4, <1>5 DEF DevicesControl, DevicesSubscribe, DevicesUnsubscribe
  <1>6. CASE DevicesConnect
    BY <1>6, ReplyFinish DEF DevicesConnect, Services, Plain, Guarded, net
  <1> DEFINE silent == [what |-> "silent", via |-> None]
  <1>7. silent \in Outcome /\ silent.what \notin Busy /\ Right(q, silent.what)
    BY DEF Outcome, Busy, Right
  <1>8. CASE DevicesDisconnect
    <2>1. inbox["devices"] # <<>> /\ m.h = "disconnect"
      BY <1>8 DEF DevicesDisconnect, Received
    <2>2. r \in DOMAIN request
      BY <2>1, HeadFit DEF Fit, Plain, Services
    <2>3. Finish("devices", silent)
      BY <1>7, <1>8, <2>1, <2>2 DEF Finish, Ends, Guarded, DevicesDisconnect, Done, Take, Ended, net
    <2> QED BY <1>7, <2>3 DEF Shape, Services
  <1>9. CASE DevicesRequest
    <2>1. inbox["devices"] # <<>> /\ Received("devices", "request") /\ m.h = "request"
      BY <1>9 DEF DevicesRequest, Received
    <2>2. /\ r \in DOMAIN request /\ Allowed(q) /\ q \in Call
          /\ UNCHANGED request
      <3>1. Fit("devices", m)
        BY <2>1, HeadFit DEF Services
      <3>2. r \in DOMAIN request /\ Allowed(q)
        BY <2>1, <3>1 DEF Fit, Plain
      <3> QED BY <1>9, <3>2, RequestType DEF DevicesRequest
    <2>3. CASE Registered(q.device)
      <3> DEFINE t == reg[q.device]
                 o == [what |-> "command", via |-> Via(t)]
      <3>1. t \in Transports /\ q.device \in Devices
        BY <2>2, <2>3, ManagerAssumption DEF Registered, TypeOK, Call, Bad
      <3>2. Via(t) \in {"session", "lost", "platform"}
        BY DEF Via
      <3>3. o \in Outcome /\ o.what = "command"
        BY <3>2 DEF Outcome
      <3>4. /\ Done("devices")
            /\ outcome' = [outcome EXCEPT ![r] = o]
            /\ commands' = commands \/ commands' = commands \cup {<<r, t>>}
        BY <1>9, <2>3 DEF DevicesRequest, Params
      <3> HIDE DEF t, o
      <3>5. Finish("devices", o)
        BY <2>1, <2>2, <3>1, <3>3, <3>4 DEF Finish, Ends, Guarded, Done, Take, Ended, Busy, Right
      <3> QED BY <3>3, <3>5 DEF Shape, Services
    <2>4. CASE ~Registered(q.device)
      <3>1. Reply("devices", "error") /\ UNCHANGED <<request, commands>>
        BY <1>9, <2>4 DEF DevicesRequest, Params
      <3> QED BY <2>1, <3>1, ReplyFinish DEF Services, Plain, Guarded
    <2> QED BY <2>3, <2>4
  <1>10. CASE DevicesResponse
    <2>1. inbox["devices"] # <<>> /\ m.h = "response" /\ Received("devices", "response")
      BY <1>10 DEF DevicesResponse, Received
    <2>2. r \in DOMAIN request /\ Allowed(q)
      <3>1. r \in DOMAIN request /\ m.from # None /\ Fit("devices", m)
        BY <2>1, ReceivedFit DEF Plain, Services
      <3> QED BY <2>1, <3>1 DEF Fit
    <2>3. UNCHANGED <<request, commands>> /\ Done("devices")
      BY <1>10 DEF DevicesResponse, net, Reply
    <2>4. CASE outcome' = [outcome EXCEPT ![r] = silent]
      <3>1. Finish("devices", silent)
        BY <1>7, <2>1, <2>2, <2>3, <2>4 DEF Finish, Ends, Guarded, Done, Take, Ended
      <3> QED BY <1>7, <3>1 DEF Shape, Services
    <2>5. CASE Reply("devices", "answered")
      <3> DEFINE o == [what |-> "answered", via |-> Via(q.from)]
      <3>1. Via(q.from) \in {"session", "lost", "platform"}
        BY DEF Via
      <3>2. o \in Outcome /\ o.what = "answered"
        BY <3>1 DEF Outcome
      <3>3. outcome' = [outcome EXCEPT ![r] = o]
        BY <2>5 DEF Reply, Params
      <3> HIDE DEF o
      <3>4. Finish("devices", o)
        BY <2>1, <2>2, <2>3, <3>2, <3>3 DEF Finish, Ends, Guarded, Done, Take, Ended, Busy, Right
      <3> QED BY <3>2, <3>4 DEF Shape, Services
    <2> QED BY <1>10, <2>4, <2>5 DEF DevicesResponse
  <1>11. CASE DevicesNotify
    <2>1. inbox["devices"] # <<>> /\ m.h = "notify" /\ Received("devices", "notify")
      BY <1>11 DEF DevicesNotify, Received
    <2>2. m.r = 0 /\ m.device \in Devices /\ m \in Message /\ m.from = None
      <3>1. m.r = 0 /\ m \in Message /\ m.from = None
        BY <2>1, ReceivedFit DEF Plain, Services, Fit
      <3>2. m.device # None
        BY <2>1, <3>1 DEF Received, Throws
      <3> QED BY <3>1, <3>2 DEF Message
    <2>3. UNCHANGED <<request, commands>>
      BY <1>11 DEF DevicesNotify, net
    <2> DEFINE n == [m EXCEPT !.h = "emit"]
    <2>4. CASE Forward("devices", "subscriptions", n)
      <3>1. /\ n \in Message /\ n.h = "emit" /\ n.r = 0 /\ n.device = m.device
            /\ n.from = None
        BY <2>2, TypesOfHandlers DEF Message
      <3> HIDE DEF n
      <3>2. Fit("subscriptions", n)
        BY <2>2, <3>1 DEF Fit, Plain, Misplaced
      <3>3. Passes("devices", "subscriptions", n)
        BY <2>1, <3>1 DEF Passes, Edges
      <3> QED BY <2>1, <2>2, <2>3, <2>4, <3>1, <3>2, <3>3, ForwardHop DEF Services
    <2>5. CASE Done("devices") /\ UNCHANGED outcome
      <3>1. Drop("devices")
        BY <2>1, <2>2, <2>3, <2>5 DEF Drop, Done, Take
      <3> QED BY <3>1 DEF Shape, Services
    <2> QED BY <1>11, <2>4, <2>5 DEF DevicesNotify
  <1>12. CASE LoseTask("devices")
    BY <1>12, LoseShape DEF Services
  <1> QED
    BY <1>1, <1>2, <1>3, <1>5, <1>6, <1>8, <1>9, <1>10, <1>11, <1>12 DEF DevicesStep

LEMMA StepShape ==
  ASSUME TypeOK, MailInv, HistoryInv, [Next]_vars
  PROVE  Shape
  <1>1. CASE ManagerInfo
    BY <1>1, ReplyFinish DEF ManagerInfo, Services, Plain, Guarded, net
  <1>2. CASE Environment
    <2>1. CASE \E c \in Calls : Arrive(c)
      BY <2>1 DEF Shape
    <2>2. ASSUME NEW t \in Transports, Accept(t) \/ CloseHandshake(t)
          PROVE  Shape
      BY <2>2 DEF Accept, CloseHandshake, Shape
    <2>3. ASSUME NEW t \in Transports, ReadError(t)
          PROVE  Shape
      <3> DEFINE m == [Task("error", 0) EXCEPT !.from = t]
      <3>1. m \in Message /\ m.h = "error" /\ m.r = 0
        BY TaskFrom, TypesOfHandlers
      <3>2. inbox' = Put(inbox, "router", m) /\ UNCHANGED <<request, outcome, commands>>
        BY <2>3 DEF ReadError, ToRouter, Put
      <3> HIDE DEF m
      <3>3. Post(m)
        BY <3>1, <3>2 DEF Post, Fit, Plain, Misplaced
      <3> QED BY <3>1, <3>3 DEF Shape
    <2>4. ASSUME NEW t \in Transports, NEW d \in Devices \cup {None}, DeviceNotify(t, d)
          PROVE  Shape
      <3> DEFINE m == [Task("notify", 0) EXCEPT !.device = d]
      <3>1. m \in Message /\ m.h = "notify" /\ m.r = 0 /\ m.from = None
        BY TaskDevice, TypesOfHandlers
      <3>2. inbox' = Put(inbox, "router", m) /\ UNCHANGED <<request, outcome, commands>>
        BY <2>4 DEF DeviceNotify, ToRouter, Put
      <3> HIDE DEF m
      <3>3. Post(m)
        BY <3>1, <3>2 DEF Post, Fit, Plain, Misplaced
      <3> QED BY <3>1, <3>3 DEF Shape
    <2>5. CASE \E t \in Transports : \E r \in DOMAIN request : DeviceAnswer(r, t)
      BY <2>5 DEF Shape
    <2> QED BY <1>2, <2>1, <2>2, <2>3, <2>4, <2>5 DEF Environment, Calls
  <1>3. CASE Terminate \/ UNCHANGED vars
    BY <1>3 DEF Terminate, vars, net, Shape
  <1> QED
    BY <1>1, <1>2, <1>3, RouterShape, UsersShape, GroupsShape, ConnectionsShape,
       SubscriptionsShape, DevicesShape DEF Next

-----------------------------------------------------------------------------
(* The tables, the caches and the sessions. *)

StoreType ==
  /\ process \in {"running", "terminated"}
  /\ session \in [Transports -> {"new", "open", "dead", "gone", "remote"}]
  /\ notified \subseteq Transports \X Devices
  /\ notifies \in 0..MaxNotify
  /\ users \subseteq Logins \X Passwords /\ enrolled \subseteq Logins \X Passwords
  /\ groups \subseteq Groups
  /\ subs \in [Groups \X Logins -> Nat] /\ granted \subseteq Groups \X Logins
  /\ conns \in [Groups \X Devices -> Nat] /\ attached \subseteq Groups \X Devices
  /\ devices \subseteq Devices
  /\ auth \subseteq Keys \X (Logins \cup {Empty})
  /\ reg \in [Devices -> Transports \cup {None}]
  /\ subscribers \in [Devices -> (SUBSET Transports) \cup {None}]

\* What the step of a service does to them; the histories only grow.
StoreStep ==
  /\ StoreType' /\ HistoryInv'
  /\ granted \subseteq granted' /\ attached \subseteq attached'
  /\ enrolled \subseteq enrolled'

store == <<process, session, notified, notifies, tables, caches>>

LEMMA StoreUnchanged ==
  ASSUME StoreType, HistoryInv, UNCHANGED store
  PROVE  StoreStep
  BY DEF StoreType, HistoryInv, Authenticated, StoreStep, store, tables, caches, Rows

\* The request that service s handles, when it is not Plain.
LEMMA ParamsType ==
  ASSUME TypeOK, MailInv, NEW s \in Services, NEW h, Received(s, h), h \notin Plain
  PROVE  Params(s) \in Call
  <1>1. Head(inbox[s]).r \in DOMAIN request
    BY ReceivedFit
  <1> QED BY <1>1, RequestType DEF Params

\* The key that users.auth looks at.
LEMMA AuthKeyType ==
  ASSUME TypeOK, MailInv, UsersAuth
  PROVE  /\ Params("users").key \in Keys
         /\ \E i \in DOMAIN request : request[i].key = Params("users").key
  <1> DEFINE m == Head(inbox["users"])
  <1>1. Received("users", "auth")
    BY DEF UsersAuth
  <1>2. m.r \in DOMAIN request /\ m.h = "auth" /\ Fit("users", m)
    BY <1>1, ReceivedFit DEF Services, Plain
  <1>3. request[m.r].key # None
    BY <1>2 DEF Fit
  <1>4. request[m.r].key # Wrong
    <2>1. m.r # 0
      BY <1>2, RequestType
    <2> QED BY <1>1, <1>2, <2>1 DEF Received, Throws, Params
  <1>5. Params("users").key \in Keys
    BY <1>1, <1>3, <1>4, ParamsType DEF Services, Plain, Call, Bad, Params
  <1> QED BY <1>2, <1>5 DEF Params

LEMMA RouterStore ==
  ASSUME TypeOK, HistoryInv, RouterStep
  PROVE  StoreStep
  <1> USE DEF net, store
  <1>1. StoreType
    BY DEF TypeOK, StoreType
  <1>2. CASE RouterRequest \/ RouterFromDevice \/ RouterService
    <2>1. UNCHANGED store
      BY <1>2 DEF RouterRequest, RouterFromDevice, RouterService
    <2> QED BY <1>1, <2>1, StoreUnchanged
  <1>3. CASE RouterError
    <2>1. UNCHANGED <<process, notified, notifies, tables, caches>>
      BY <1>3 DEF RouterError
    <2>2. session' \in [Transports -> {"new", "open", "dead", "gone", "remote"}]
      BY <1>1, <1>3 DEF RouterError, StoreType
    <2> QED
      BY <1>1, <2>1, <2>2 DEF StoreType, HistoryInv, Authenticated, StoreStep, tables, caches, Rows
  <1> QED BY <1>2, <1>3 DEF RouterStep

LEMMA UsersStore ==
  ASSUME TypeOK, MailInv, HistoryInv, UsersStep
  PROVE  StoreStep
  <1> USE DEF net, store
  <1>1. StoreType
    BY DEF TypeOK, StoreType
  <1>2. CASE UsersList \/ UsersLogin
    <2>1. UNCHANGED store
      BY <1>2 DEF UsersList, UsersLogin, Query
    <2> QED BY <1>1, <2>1, StoreUnchanged
  <1>3. CASE UsersAdd
    <2>1. Params("users") \in Call
      BY <1>3, ParamsType DEF UsersAdd, Services, Plain
    <2>2. /\ enrolled \subseteq enrolled' /\ enrolled' \subseteq Logins \X Passwords
          /\ users' \subseteq enrolled'
      BY <1>1, <1>3, <2>1 DEF UsersAdd, Call, Filled, StoreType, HistoryInv
    <2>3. UNCHANGED <<process, session, notified, notifies, groups, subs, conns,
                      devices, granted, attached, caches>>
      BY <1>3 DEF UsersAdd
    <2> QED
      BY <1>1, <2>2, <2>3 DEF StoreType, HistoryInv, Authenticated, StoreStep, Rows, caches
  <1>4. CASE UsersDelete
    <2>1. users' \subseteq users /\ auth' \subseteq auth
      BY <1>4 DEF UsersDelete, RemoveAuthLogin
    <2>2. UNCHANGED <<process, session, notified, notifies, groups, subs, conns,
                      devices, enrolled, granted, attached, reg, subscribers>>
      BY <1>4 DEF UsersDelete
    <2> QED
      BY <1>1, <2>1, <2>2 DEF StoreType, HistoryInv, Authenticated, StoreStep, Rows
  <1>5. CASE UsersAuth
    <2> DEFINE k == Params("users").key
               e == <<k, LoginOf(k)>>
    <2>1. UNCHANGED <<process, session, notified, notifies, tables, reg, subscribers>>
      BY <1>5 DEF UsersAuth
    <2>2. auth' = auth \/ (Matches(k) /\ auth' = auth \cup {e})
      BY <1>5 DEF UsersAuth
    <2>3. k \in Keys
      BY <1>5, AuthKeyType
    <2>4. e \in Keys \X (Logins \cup {Empty}) /\ e[1] = k /\ e[2] \in {k[1], Empty}
      BY <2>3 DEF LoginOf, Keys
    <2>5. auth' \subseteq Keys \X (Logins \cup {Empty})
      BY <1>1, <2>2, <2>4 DEF StoreType
    <2>6. \A x \in auth' : Authenticated(x[1]) /\ x[2] \in {x[1][1], Empty}
      <3>1. Matches(k) => Authenticated(k)
        BY <2>3, MatchesAuthenticated DEF HistoryInv
      <3> HIDE DEF e, k
      <3> QED BY <2>2, <2>4, <3>1 DEF HistoryInv
    <2> HIDE DEF e, k
    <2> QED
      BY <1>1, <2>1, <2>5, <2>6 DEF StoreType, HistoryInv, Authenticated, StoreStep, Rows, tables
  <1>6. CASE LoseTask("users")
    BY <1>1, <1>6, StoreUnchanged DEF LoseTask
  <1> QED BY <1>2, <1>3, <1>4, <1>5, <1>6 DEF UsersStep

LEMMA GroupsStore ==
  ASSUME TypeOK, MailInv, HistoryInv, GroupsStep
  PROVE  StoreStep
  <1> USE DEF net, store
  <1>1. StoreType
    BY DEF TypeOK, StoreType
  <1>2. CASE GroupsList
    <2>1. UNCHANGED store
      BY <1>2 DEF GroupsList, Query
    <2> QED BY <1>1, <2>1, StoreUnchanged
  <1>3. CASE GroupsAdd \/ GroupsDelete
    <2>1. Params("groups") \in Call
      BY <1>3, ParamsType DEF GroupsAdd, GroupsDelete, Services, Plain
    <2>2. groups' \subseteq Groups
      BY <1>1, <1>3, <2>1 DEF GroupsAdd, GroupsDelete, Call, Filled, StoreType
    <2>3. UNCHANGED <<process, session, notified, notifies, users, enrolled, subs, conns, devices,
                      granted, attached, caches>>
      BY <1>3 DEF GroupsAdd, GroupsDelete
    <2> QED BY <1>1, <2>2, <2>3 DEF StoreType, HistoryInv, Authenticated, StoreStep, Rows, caches
  <1>4. CASE LoseTask("groups")
    BY <1>1, <1>4, StoreUnchanged DEF LoseTask
  <1> QED BY <1>2, <1>3, <1>4 DEF GroupsStep

\* Inserting and deleting rows of a table without a key.
LEMMA InsertRow ==
  ASSUME NEW S, NEW table \in [S -> Nat], NEW row \in S
  PROVE  /\ [table EXCEPT ![row] = @ + 1] \in [S -> Nat]
         /\ Rows([table EXCEPT ![row] = @ + 1]) \subseteq Rows(table) \cup {row}
  BY DEF Rows

LEMMA DeleteRow ==
  ASSUME NEW S, NEW table \in [S -> Nat], NEW row
  PROVE  /\ [table EXCEPT ![row] = 0] \in [S -> Nat]
         /\ Rows([table EXCEPT ![row] = 0]) \subseteq Rows(table)
  <1> DEFINE new == [table EXCEPT ![row] = 0]
  <1>1. /\ DOMAIN new = S /\ DOMAIN table = S
        /\ \A x \in S : new[x] = IF x = row THEN 0 ELSE table[x]
    OBVIOUS
  <1>2. new \in [S -> Nat]
    OBVIOUS
  <1> HIDE DEF new
  <1>3. Rows(new) \subseteq Rows(table)
    BY <1>1 DEF Rows
  <1> QED BY <1>2, <1>3 DEF new

LEMMA ConnectionsStore ==
  ASSUME TypeOK, MailInv, HistoryInv, ConnectionsStep
  PROVE  StoreStep
  <1> USE DEF net, store
  <1> DEFINE q == Params("connections")
             row == <<q.group, q.device>>
  <1>1. StoreType
    BY DEF TypeOK, StoreType
  <1>2. CASE \/ ConnectionsList \/ ConnectionsGroups \/ ConnectionsDevices
             \/ ConnectionsSubscribe \/ ConnectionsUnsubscribe
    <2>1. UNCHANGED store
      BY <1>2 DEF ConnectionsList, ConnectionsGroups, ConnectionsDevices,
         ConnectionsSubscribe, ConnectionsUnsubscribe, WithDeviceGroups, Query
    <2> QED BY <1>1, <2>1, StoreUnchanged
  <1>3. CASE ConnectionsAdd
    <2>1. UNCHANGED <<process, session, notified, notifies, users, enrolled, groups, subs, devices,
                      granted, caches>>
      BY <1>3 DEF ConnectionsAdd
    <2>2. CASE UNCHANGED <<conns, attached>>
      BY <1>1, <2>1, <2>2 DEF StoreType, HistoryInv, Authenticated, StoreStep, Rows, caches
    <2>3. CASE /\ Filled(q.group) /\ Filled(q.device)
               /\ conns' = [conns EXCEPT ![row] = @ + 1]
               /\ attached' = attached \cup {row}
      <3>1. row \in Groups \X Devices
        BY <1>3, <2>3, ParamsType DEF ConnectionsAdd, Services, Plain, Call, Filled
      <3>2. conns \in [Groups \X Devices -> Nat] /\ Rows(conns) \subseteq attached
        BY <1>1 DEF StoreType, HistoryInv
      <3> HIDE DEF row
      <3>3. conns' \in [Groups \X Devices -> Nat] /\ Rows(conns') \subseteq Rows(conns) \cup {row}
        BY <2>3, <3>1, <3>2, InsertRow
      <3>4. Rows(conns') \subseteq attached'
        BY <2>3, <3>2, <3>3
      <3> QED
        BY <1>1, <2>1, <2>3, <3>1, <3>3, <3>4 DEF StoreType, HistoryInv, Authenticated, StoreStep, Rows, caches
    <2> QED BY <1>3, <2>2, <2>3 DEF ConnectionsAdd
  <1>4. CASE ConnectionsDelete
    <2>1. UNCHANGED <<process, session, notified, notifies, users, enrolled, groups, subs, devices,
                      granted, attached, caches>>
      BY <1>4 DEF ConnectionsDelete
    <2>2. conns' = conns \/ \E x : conns' = [conns EXCEPT ![x] = 0]
      BY <1>4 DEF ConnectionsDelete
    <2>3. conns' \in [Groups \X Devices -> Nat] /\ Rows(conns') \subseteq attached
      <3>1. conns \in [Groups \X Devices -> Nat] /\ Rows(conns) \subseteq attached
        BY <1>1 DEF StoreType, HistoryInv
      <3>2. ASSUME NEW x, conns' = [conns EXCEPT ![x] = 0]
            PROVE  conns' \in [Groups \X Devices -> Nat] /\ Rows(conns') \subseteq Rows(conns)
        BY <3>1, <3>2, DeleteRow
      <3> QED BY <2>2, <3>1, <3>2
    <2> QED BY <1>1, <2>1, <2>3 DEF StoreType, HistoryInv, Authenticated, StoreStep, Rows, caches
  <1>5. CASE LoseTask("connections")
    BY <1>1, <1>5, StoreUnchanged DEF LoseTask
  <1> QED BY <1>2, <1>3, <1>4, <1>5 DEF ConnectionsStep

LEMMA SubscriptionsStore ==
  ASSUME TypeOK, MailInv, HistoryInv, SubscriptionsStep
  PROVE  StoreStep
  <1> USE DEF net, store
  <1> DEFINE q == Params("subscriptions")
             row == <<q.group, q.login>>
  <1>1. StoreType
    BY DEF TypeOK, StoreType
  <1>2. CASE SubscriptionsList \/ SubscriptionsDevices \/ SubscriptionsGroups
    <2>1. UNCHANGED store
      BY <1>2 DEF SubscriptionsList, SubscriptionsDevices, SubscriptionsGroups, Query
    <2> QED BY <1>1, <2>1, StoreUnchanged
  <1>3. CASE SubscriptionsAdd
    <2>1. UNCHANGED <<process, session, notified, notifies, users, enrolled, groups, conns, devices,
                      attached, caches>>
      BY <1>3 DEF SubscriptionsAdd
    <2>2. CASE UNCHANGED <<subs, granted>>
      BY <1>1, <2>1, <2>2 DEF StoreType, HistoryInv, Authenticated, StoreStep, Rows, caches
    <2>3. CASE /\ Filled(q.group) /\ Filled(q.login)
               /\ subs' = [subs EXCEPT ![row] = @ + 1]
               /\ granted' = granted \cup {row}
      <3>1. row \in Groups \X Logins
        BY <1>3, <2>3, ParamsType DEF SubscriptionsAdd, Services, Plain, Call, Filled
      <3>2. subs \in [Groups \X Logins -> Nat] /\ Rows(subs) \subseteq granted
        BY <1>1 DEF StoreType, HistoryInv
      <3> HIDE DEF row
      <3>3. subs' \in [Groups \X Logins -> Nat] /\ Rows(subs') \subseteq Rows(subs) \cup {row}
        BY <2>3, <3>1, <3>2, InsertRow
      <3>4. Rows(subs') \subseteq granted'
        BY <2>3, <3>2, <3>3
      <3> QED
        BY <1>1, <2>1, <2>3, <3>1, <3>3, <3>4 DEF StoreType, HistoryInv, Authenticated, StoreStep, Rows, caches
    <2> QED BY <1>3, <2>2, <2>3 DEF SubscriptionsAdd
  <1>4. CASE SubscriptionsDelete
    <2>1. UNCHANGED <<process, session, notified, notifies, users, enrolled, groups, conns, devices,
                      granted, attached, caches>>
      BY <1>4 DEF SubscriptionsDelete
    <2>2. subs' = subs \/ \E x : subs' = [subs EXCEPT ![x] = 0]
      BY <1>4 DEF SubscriptionsDelete
    <2>3. subs' \in [Groups \X Logins -> Nat] /\ Rows(subs') \subseteq granted
      <3>1. subs \in [Groups \X Logins -> Nat] /\ Rows(subs) \subseteq granted
        BY <1>1 DEF StoreType, HistoryInv
      <3>2. ASSUME NEW x, subs' = [subs EXCEPT ![x] = 0]
            PROVE  subs' \in [Groups \X Logins -> Nat] /\ Rows(subs') \subseteq Rows(subs)
        BY <3>1, <3>2, DeleteRow
      <3> QED BY <2>2, <3>1, <3>2
    <2> QED BY <1>1, <2>1, <2>3 DEF StoreType, HistoryInv, Authenticated, StoreStep, Rows, caches
  <1>5. CASE SubscriptionsOn \/ SubscriptionsOff
    <2>1. UNCHANGED <<process, session, notified, notifies, tables, auth, reg>>
      BY <1>5 DEF SubscriptionsOn, SubscriptionsOff
    <2>2. q \in Call
      BY <1>5, ParamsType DEF SubscriptionsOn, SubscriptionsOff, Services, Plain
    <2>3. subscribers' \in [Devices -> (SUBSET Transports) \cup {None}]
      <3>1. CASE UNCHANGED subscribers
        BY <1>1, <3>1 DEF StoreType
      <3>2. CASE subscribers' = [subscribers EXCEPT ![q.device] = Listeners(q.device) \cup {q.from}]
        <4>1. q.device \in Devices => Listeners(q.device) \cup {q.from} \in SUBSET Transports
          BY <1>1, <2>2 DEF StoreType, Listeners, Call
        <4> QED BY <1>1, <3>2, <4>1 DEF StoreType
      <3>3. CASE /\ q.from \in Listeners(q.device)
                 /\ subscribers' = [subscribers EXCEPT ![q.device] = @ \ {q.from}]
        <4>1. q.device \in Devices => subscribers[q.device] \ {q.from} \in SUBSET Transports
          BY <1>1, <3>3 DEF StoreType, Listeners
        <4> QED BY <1>1, <3>3, <4>1 DEF StoreType
      <3> QED BY <1>5, <3>1, <3>2, <3>3 DEF SubscriptionsOn, SubscriptionsOff
    <2> QED BY <1>1, <2>1, <2>3 DEF StoreType, HistoryInv, Authenticated, StoreStep, Rows, tables
  <1>6. CASE SubscriptionsEmit
    <2> DEFINE d == Head(inbox["subscriptions"]).device
    <2>1. UNCHANGED <<process, session, notifies, tables, caches>>
      BY <1>6 DEF SubscriptionsEmit
    <2>2. d \in Devices
      <3>1. Received("subscriptions", "emit")
        BY <1>6 DEF SubscriptionsEmit
      <3> QED BY <3>1, ReceivedFit DEF Fit, Services, Plain
    <2>3. Listeners(d) \subseteq Transports
      BY <1>1, <2>2 DEF StoreType, Listeners
    <2>4. notified' \subseteq Transports \X Devices
      BY <1>1, <1>6, <2>2, <2>3 DEF SubscriptionsEmit, StoreType
    <2> QED BY <1>1, <2>1, <2>4 DEF StoreType, HistoryInv, Authenticated, StoreStep, Rows, tables, caches
  <1>7. CASE LoseTask("subscriptions")
    BY <1>1, <1>7, StoreUnchanged DEF LoseTask
  <1> QED BY <1>2, <1>3, <1>4, <1>5, <1>6, <1>7 DEF SubscriptionsStep

LEMMA DevicesStore ==
  ASSUME TypeOK, MailInv, HistoryInv, DevicesStep
  PROVE  StoreStep
  <1> USE DEF net, store
  <1>1. StoreType
    BY DEF TypeOK, StoreType
  <1>2. CASE \/ DevicesList \/ DevicesDetail \/ DevicesControl \/ DevicesSubscribe
             \/ DevicesUnsubscribe \/ DevicesRequest \/ DevicesResponse \/ DevicesNotify
    <2>1. UNCHANGED store
      BY <1>2 DEF DevicesList, DevicesDetail, DevicesControl, DevicesSubscribe,
         DevicesUnsubscribe, DevicesRequest, DevicesResponse, DevicesNotify,
         IfRegistered, Query
    <2> QED BY <1>1, <2>1, StoreUnchanged
  <1>3. CASE DevicesAdd \/ DevicesDelete
    <2>1. Params("devices") \in Call
      BY <1>3, ParamsType DEF DevicesAdd, DevicesDelete, Services, Plain
    <2>2. devices' \subseteq Devices
      BY <1>1, <1>3, <2>1 DEF DevicesAdd, DevicesDelete, Call, Filled, StoreType
    <2>3. UNCHANGED <<process, session, notified, notifies, users, enrolled, groups, subs, conns,
                      granted, attached, caches>>
      BY <1>3 DEF DevicesAdd, DevicesDelete
    <2> QED BY <1>1, <2>2, <2>3 DEF StoreType, HistoryInv, Authenticated, StoreStep, Rows, caches
  <1>4. CASE DevicesConnect \/ DevicesDisconnect
    <2>1. UNCHANGED <<process, session, notified, notifies, tables, auth, subscribers>>
      BY <1>4 DEF DevicesConnect, DevicesDisconnect
    <2>2. Params("devices") \in Call
      BY <1>4, ParamsType DEF DevicesConnect, DevicesDisconnect, Services, Plain
    <2>3. reg' \in [Devices -> Transports \cup {None}]
      BY <1>1, <1>4, <2>2 DEF DevicesConnect, DevicesDisconnect, AddReg, RemoveReg,
         Call, StoreType
    <2> QED BY <1>1, <2>1, <2>3 DEF StoreType, HistoryInv, Authenticated, StoreStep, Rows, tables
  <1>5. CASE LoseTask("devices")
    BY <1>1, <1>5, StoreUnchanged DEF LoseTask
  <1> QED BY <1>2, <1>3, <1>4, <1>5 DEF DevicesStep

LEMMA EveryStoreStep ==
  ASSUME TypeOK, MailInv, HistoryInv, [Next]_vars
  PROVE  StoreStep
  <1> USE DEF net, store
  <1>1. StoreType
    BY DEF TypeOK, StoreType
  <1>2. CASE ManagerInfo \/ UNCHANGED vars
    <2>1. UNCHANGED store
      BY <1>2 DEF ManagerInfo, vars
    <2> QED BY <1>1, <2>1, StoreUnchanged
  <1>3. CASE Terminate
    <2>1. UNCHANGED <<session, notified, notifies, tables, caches>> /\ process' = "terminated"
      BY <1>3 DEF Terminate
    <2> QED
      BY <1>1, <2>1 DEF StoreType, HistoryInv, Authenticated, StoreStep, Rows, tables, caches
  <1>4. CASE Environment
    <2>1. CASE \/ \E c \in Calls : Arrive(c)
               \/ \E t \in Transports : \E r \in DOMAIN request : DeviceAnswer(r, t)
      <3>1. UNCHANGED store
        BY <2>1 DEF Arrive, DeviceAnswer
      <3> QED BY <1>1, <3>1, StoreUnchanged
    <2>2. ASSUME NEW t \in Transports, Accept(t) \/ CloseHandshake(t) \/ ReadError(t)
          PROVE  StoreStep
      <3>1. UNCHANGED <<process, notified, notifies, tables, caches>>
        BY <2>2 DEF Accept, CloseHandshake, ReadError
      <3>2. session' \in [Transports -> {"new", "open", "dead", "gone", "remote"}]
        BY <1>1, <2>2 DEF Accept, CloseHandshake, ReadError, StoreType
      <3> QED
        BY <1>1, <3>1, <3>2 DEF StoreType, HistoryInv, Authenticated, StoreStep, tables, caches, Rows
    <2>3. ASSUME NEW t \in Transports, NEW d \in Devices \cup {None}, DeviceNotify(t, d),
                 NEW scene \in Scenes, notifies < scene.notifies
          PROVE  StoreStep
      <3>1. UNCHANGED <<process, session, notified, tables, caches>>
        BY <2>3 DEF DeviceNotify
      <3>2. notifies' \in 0..MaxNotify
        BY <1>1, <2>3, ManagerAssumption DEF DeviceNotify, StoreType
      <3> QED
        BY <1>1, <3>1, <3>2 DEF StoreType, HistoryInv, Authenticated, StoreStep, tables, caches, Rows
    <2> QED BY <1>4, <2>1, <2>2, <2>3 DEF Environment, Calls
  <1> QED
    BY <1>2, <1>4, <1>3, RouterStore, UsersStore, GroupsStore, ConnectionsStore,
       SubscriptionsStore, DevicesStore DEF Next

-----------------------------------------------------------------------------
(* The inductive invariant, one lemma for each thing a step may do to the  *)
(* messages.                                                               *)

\* TaskInOnePlace in the terms of InboxTheorems.
TaskPlaces ==
  \A r \in DOMAIN request :
    IF outcome[r].what \in Busy THEN InOnePlace(inbox, Services, r)
                                ELSE Nowhere(inbox, Services, r)

\* A request is written to one device, and is in no inbox until it answers.
CommandsOpen ==
  \A x \in commands : /\ outcome[x[1]].what = "command"
                      /\ \A y \in commands : y[1] = x[1] => y = x

\* What became of a request agrees with it.
OutcomesRight ==
  \A r \in DOMAIN request : Right(request[r], outcome[r].what)

ManagerInv ==
  TypeOK /\ MailInv /\ HistoryInv /\ TaskPlaces /\ CommandsOpen /\ OutcomesRight

\* Requests are only added.
Extends ==
  /\ DOMAIN request \subseteq DOMAIN request'
  /\ \A r \in DOMAIN request : request'[r] = request[r]

LEMMA AllowedStable ==
  ASSUME Extends, StoreStep, NEW r \in DOMAIN request, Allowed(request[r])
  PROVE  Allowed(request[r])'
  <1>1. request'[r] = request[r]
    BY DEF Extends
  <1> QED
    BY <1>1 DEF Allowed, ForDevice, Authenticated, Shared, Admin, Names, StoreStep

LEMMA FitStable ==
  ASSUME Extends, StoreStep, NEW s, NEW m, Fit(s, m)
  PROVE  Fit(s, m)'
  <1>1. CASE m.r \notin DOMAIN request
    BY <1>1 DEF Fit, Plain, Misplaced
  <1>2. CASE m.r \in DOMAIN request
    <2>2. m.r \in DOMAIN request' /\ request'[m.r] = request[m.r]
      BY <1>2 DEF Extends
    <2>3. Allowed(request[m.r]) => Allowed(request[m.r])'
      BY <1>2, AllowedStable
    <2>4. Authenticated(request[m.r].key) => Authenticated(request[m.r].key)'
      BY <2>2 DEF Authenticated, StoreStep
    <2>5. attached \subseteq attached'
      BY DEF StoreStep
    <2> QED
      BY <1>2, <2>2, <2>3, <2>4, <2>5 DEF Fit, ForDevice, Admin, Misplaced,
         Misnames, Names, InJoined, NoGroups
  <1> QED BY <1>1, <1>2

LEMMA MailStable ==
  ASSUME MailInv, Extends, StoreStep,
         \A s \in Services : \A m : Waits(inbox', s, m) => Waits(inbox, s, m) \/ Fit(s, m)'
  PROVE  MailInv'
  <1> SUFFICES ASSUME NEW s \in Services, NEW m, Waits(inbox', s, m)
               PROVE  Fit(s, m)'
    BY DEF MailInv
  <1>1. CASE Waits(inbox, s, m)
    <2>1. Fit(s, m)
      BY <1>1 DEF MailInv
    <2> QED BY <2>1, FitStable
  <1> QED BY <1>1

\* A request whose task is being handled is busy, and its task nowhere else.
LEMMA HeadBusy ==
  ASSUME TypeOK, TaskPlaces, NEW s \in Services, inbox[s] # <<>>,
         Head(inbox[s]).r \in DOMAIN request
  PROVE  /\ outcome[Head(inbox[s]).r].what \in Busy
         /\ InOnePlace(inbox, Services, Head(inbox[s]).r)
  <1>1. inbox \in [Services -> Seq(Message)]
    BY DEF TypeOK
  <1>2. 1 \in DOMAIN inbox[s] /\ inbox[s][1] = Head(inbox[s])
    BY <1>1, TakeShape
  <1>3. ~Nowhere(inbox, Services, Head(inbox[s]).r)
    BY <1>2, NowhereElim
  <1> QED BY <1>3 DEF TaskPlaces

LEMMA SameRequests ==
  ASSUME UNCHANGED request
  PROVE  Extends
  BY DEF Extends

\* The requests that the step leaves alone stay right.
LEMMA StillRight ==
  ASSUME OutcomesRight, StoreStep, Extends, NEW r \in DOMAIN request,
         outcome'[r].what = outcome[r].what
  PROVE  Right(request[r], outcome[r].what)'
  <1>1. request'[r] = request[r]
    BY DEF Extends
  <1>2. Allowed(request[r]) => Allowed(request[r])'
    BY AllowedStable
  <1>3. Right(request[r], outcome[r].what)
    BY DEF OutcomesRight
  <1> QED BY <1>1, <1>2, <1>3 DEF Right, Misnames, Admin

\* What skip reports, and the rest of the inbox of s.
LEMMA EndedBox ==
  ASSUME TypeOK, NEW s \in Services, inbox[s] # <<>>, inbox' \in Ended(s)
  PROVE  /\ inbox' \in [Services -> Seq(Message)]
         /\ \A t \in Services : \A m : Waits(inbox', t, m) =>
              \/ Waits(Take(inbox, s), t, m) /\ Waits(inbox, t, m)
              \/ m.r = 0 /\ Fit(t, m)'
         /\ \A r \in Nat \ {0} :
              /\ InOnePlace(Take(inbox, s), Services, r) => InOnePlace(inbox', Services, r)
              /\ Nowhere(Take(inbox, s), Services, r) => Nowhere(inbox', Services, r)
  <1> DEFINE box == Take(inbox, s)
  <1>1. inbox \in [Services -> Seq(Message)] /\ "router" \in Services
    BY DEF TypeOK, Services
  <1>2. box \in [Services -> Seq(Message)]
    BY <1>1, TakeShape
  <1>3. \A t \in Services : \A m : Waits(box, t, m) => Waits(inbox, t, m)
    BY <1>1, TakeWaits
  <1>4. CASE inbox' = box
    BY <1>2, <1>3, <1>4
  <1>5. CASE inbox' = Put(box, "router", Task("error", 0))
    <2>1. PICK n \in Message : n = Task("error", 0)
      BY TaskType, TypesOfHandlers
    <2>2. n.h = "error" /\ n.r = 0
      BY <2>1, TaskType, TypesOfHandlers
    <2>3. inbox' = Put(box, "router", n)
      BY <1>5, <2>1
    <2> HIDE DEF box
    <2>4. inbox' \in [Services -> Seq(Message)]
      BY <1>1, <1>2, <2>3, PutShape
    <2>5. Fit("router", n)'
      BY <2>2 DEF Fit, Plain, Misplaced
    <2>6. ASSUME NEW t \in Services, NEW m, Waits(inbox', t, m)
          PROVE  Waits(box, t, m) \/ (m.r = 0 /\ Fit(t, m)')
      <3>1. Waits(Put(box, "router", n), t, m)
        BY <2>3, <2>6
      <3>2. Waits(box, t, m) \/ (t = "router" /\ m = n)
        <4>1. box \in [Services -> Seq(Message)] /\ "router" \in Services
          BY <1>1, <1>2
        <4> QED BY <3>1, <4>1, PutWaits
      <3> QED BY <2>2, <2>5, <3>2
    <2>7. \A r \in Nat \ {0} :
            /\ InOnePlace(box, Services, r) => InOnePlace(inbox', Services, r)
            /\ Nowhere(box, Services, r) => Nowhere(inbox', Services, r)
      BY <1>1, <1>2, <2>2, <2>3, PutPlaces
    <2> QED BY <1>3, <2>4, <2>6, <2>7 DEF box
  <1> QED BY <1>4, <1>5 DEF Ended

LEMMA HopStep ==
  ASSUME ManagerInv, StoreStep, NEW s \in Services, NEW to \in Services,
         NEW m \in Message, Hop(s, to, m)
  PROVE  ManagerInv'
  <1> DEFINE box == Take(inbox, s)
  <1>1. /\ inbox \in [Services -> Seq(Message)]
        /\ inbox[s] # <<>> /\ m.r = Head(inbox[s]).r /\ Fit(to, m)
        /\ inbox' = Put(box, to, m)
        /\ UNCHANGED <<request, outcome, commands>>
    BY DEF Hop, ManagerInv, TypeOK
  <1>2. box \in [Services -> Seq(Message)]
    BY <1>1, TakeShape
  <1> HIDE DEF box
  <1>3. TypeOK'
    <2>1. inbox' \in [Services -> Seq(Message)]
      BY <1>1, <1>2, PutShape
    <2> QED BY <1>1, <2>1 DEF ManagerInv, TypeOK, StoreStep, StoreType
  <1>4. MailInv'
    <2>1. Extends
      BY <1>1, SameRequests
    <2>2. Fit(to, m)'
      BY <1>1, <2>1, FitStable
    <2>3. ASSUME NEW t \in Services, NEW n, Waits(inbox', t, n)
          PROVE  Waits(inbox, t, n) \/ Fit(t, n)'
      <3>1. Waits(box, t, n) \/ (t = to /\ n = m)
        <4>1. Waits(Put(box, to, m), t, n)
          BY <1>1, <2>3
        <4> QED BY <1>2, <4>1, PutWaits
      <3>2. Waits(box, t, n) => Waits(inbox, t, n)
        BY <1>1, TakeWaits DEF box
      <3> QED BY <2>2, <3>1, <3>2
    <2> QED BY <2>1, <2>3, MailStable DEF ManagerInv
  <1>5. TaskPlaces'
    <2>1. ASSUME NEW r \in DOMAIN request, outcome[r].what \in Busy
          PROVE  InOnePlace(inbox', Services, r)
      <3>1. InOnePlace(inbox, Services, r)
        BY <2>1 DEF ManagerInv, TaskPlaces
      <3>2. CASE r = m.r
        <4>1. Nowhere(box, Services, r)
          BY <1>1, <3>1, <3>2, TakePlaces DEF box
        <4> QED BY <1>1, <1>2, <3>2, <4>1, PutPlaces
      <3>3. CASE r # m.r
        <4>1. InOnePlace(box, Services, r)
          BY <1>1, <3>1, <3>3, TakePlaces DEF box
        <4> QED BY <1>1, <1>2, <3>3, <4>1, PutPlaces
      <3> QED BY <3>2, <3>3
    <2>2. ASSUME NEW r \in DOMAIN request, outcome[r].what \notin Busy
          PROVE  Nowhere(inbox', Services, r)
      <3>1. Nowhere(inbox, Services, r)
        BY <2>2 DEF ManagerInv, TaskPlaces
      <3>2. r # m.r
        BY <1>1, <2>2, HeadBusy DEF ManagerInv
      <3>3. Nowhere(box, Services, r)
        BY <1>1, <3>1, TakePlaces DEF box
      <3> QED BY <1>1, <1>2, <3>2, <3>3, PutPlaces
    <2> QED BY <1>1, <2>1, <2>2 DEF TaskPlaces
  <1>6. CommandsOpen'
    BY <1>1 DEF ManagerInv, CommandsOpen
  <1>7. OutcomesRight'
    BY <1>1, SameRequests, StillRight DEF ManagerInv, OutcomesRight
  <1> QED BY <1>3, <1>4, <1>5, <1>6, <1>7 DEF ManagerInv, StoreStep

LEMMA FinishStep ==
  ASSUME ManagerInv, StoreStep, NEW s \in Services, NEW o \in Outcome, Finish(s, o)
  PROVE  ManagerInv'
  <1> DEFINE r == Head(inbox[s]).r
  <1>1. /\ inbox \in [Services -> Seq(Message)]
        /\ inbox[s] # <<>> /\ r \in DOMAIN request
        /\ inbox' \in Ended(s)
        /\ outcome' = [outcome EXCEPT ![r] = o]
        /\ o.what \notin Busy
        /\ Right(request[r], o.what)
        /\ \/ UNCHANGED commands
           \/ o.what = "command" /\ \E t \in Transports : commands' = commands \cup {<<r, t>>}
        /\ UNCHANGED request
        /\ outcome \in [DOMAIN request -> Outcome]
        /\ commands \subseteq (DOMAIN request) \X Transports
    BY DEF Finish, ManagerInv, TypeOK
  <1>2. outcome[r].what \in Busy /\ InOnePlace(inbox, Services, r)
    BY <1>1, HeadBusy DEF ManagerInv
  <1>3. Extends
    BY <1>1, SameRequests
  <1>4. /\ outcome'[r] = o
        /\ \A x \in DOMAIN request : x # r => outcome'[x] = outcome[x]
        /\ outcome' \in [DOMAIN request -> Outcome]
    BY <1>1
  <1>5. \A x \in commands : x[1] # r
    BY <1>2 DEF ManagerInv, CommandsOpen, Busy
  <1> HIDE DEF r
  <1> DEFINE box == Take(inbox, s)
  <1>6. /\ inbox' \in [Services -> Seq(Message)]
        /\ \A t \in Services : \A n : Waits(inbox', t, n) => Waits(inbox, t, n) \/ Fit(t, n)'
        /\ \A x \in DOMAIN request :
             /\ InOnePlace(box, Services, x) => InOnePlace(inbox', Services, x)
             /\ Nowhere(box, Services, x) => Nowhere(inbox', Services, x)
    BY <1>1, EndedBox, RequestType DEF ManagerInv
  <1>7. /\ InOnePlace(inbox, Services, r) => Nowhere(box, Services, r)
        /\ \A x : /\ x # r /\ InOnePlace(inbox, Services, x) => InOnePlace(box, Services, x)
                  /\ Nowhere(inbox, Services, x) => Nowhere(box, Services, x)
    <2>1. inbox \in [Services -> Seq(Message)] /\ inbox[s] # <<>>
      BY <1>1
    <2> QED BY <2>1, TakePlaces DEF r, box
  <1> HIDE DEF box
  <1>8. TypeOK'
    <2>1. commands' \subseteq (DOMAIN request) \X Transports
      BY <1>1
    <2> QED BY <1>1, <1>4, <1>6, <2>1 DEF ManagerInv, TypeOK, StoreStep, StoreType
  <1>9. MailInv'
    BY <1>3, <1>6, MailStable DEF ManagerInv
  <1>10. TaskPlaces'
    <2> SUFFICES ASSUME NEW x \in DOMAIN request
                 PROVE  IF outcome'[x].what \in Busy
                          THEN InOnePlace(inbox', Services, x)
                          ELSE Nowhere(inbox', Services, x)
      BY <1>1 DEF TaskPlaces
    <2>1. CASE x = r
      <3>1. Nowhere(inbox', Services, r)
        BY <1>1, <1>2, <1>6, <1>7
      <3> QED BY <1>1, <1>4, <2>1, <3>1
    <2>2. CASE x # r
      <3>1. CASE outcome[x].what \in Busy
        <4>1. InOnePlace(inbox, Services, x)
          BY <3>1 DEF ManagerInv, TaskPlaces
        <4>2. InOnePlace(inbox', Services, x)
          BY <1>6, <1>7, <2>2, <4>1
        <4> QED BY <1>4, <2>2, <3>1, <4>2
      <3>2. CASE outcome[x].what \notin Busy
        <4>1. Nowhere(inbox, Services, x)
          BY <3>2 DEF ManagerInv, TaskPlaces
        <4>2. Nowhere(inbox', Services, x)
          BY <1>6, <1>7, <4>1
        <4> QED BY <1>4, <2>2, <3>2, <4>2
      <3> QED BY <3>1, <3>2
    <2> QED BY <2>1, <2>2
  <1>11. CommandsOpen'
    <2>1. \A x \in commands : /\ outcome'[x[1]].what = "command"
                              /\ \A y \in commands : y[1] = x[1] => y = x
      BY <1>1, <1>4, <1>5 DEF ManagerInv, CommandsOpen
    <2>2. CASE UNCHANGED commands
      BY <2>1, <2>2 DEF CommandsOpen
    <2>3. ASSUME NEW t \in Transports, o.what = "command",
                 commands' = commands \cup {<<r, t>>}
          PROVE  CommandsOpen'
      BY <1>4, <1>5, <2>1, <2>3 DEF CommandsOpen
    <2> QED BY <1>1, <2>2, <2>3
  <1>12. OutcomesRight'
    <2> SUFFICES ASSUME NEW x \in DOMAIN request
                 PROVE  Right(request[x], outcome[x].what)'
      BY <1>1 DEF OutcomesRight
    <2>1. CASE x # r
      BY <1>3, <1>4, <2>1, StillRight DEF ManagerInv
    <2>2. CASE x = r
      <3>1. Right(request[r], o.what) /\ outcome'[r].what = o.what
        BY <1>1, <1>4
      <3>2. PICK z \in DOMAIN request : z = r
        BY <1>1
      <3>3. Allowed(request[z]) => Allowed(request[z])'
        BY <1>3, AllowedStable
      <3>4. Right(request[z], outcome[z].what)'
        BY <1>1, <3>1, <3>2, <3>3 DEF Right, Misnames, Admin
      <3> QED BY <2>2, <3>2, <3>4
    <2> QED BY <2>1, <2>2
  <1> QED BY <1>8, <1>9, <1>10, <1>11, <1>12 DEF ManagerInv, StoreStep

\* Messages without a request come and go without an effect on the others.
LEMMA PlainStep ==
  ASSUME ManagerInv, StoreStep, UNCHANGED <<request, outcome, commands>>,
         inbox' \in [Services -> Seq(Message)],
         \A s \in Services : \A m : Waits(inbox', s, m) => Waits(inbox, s, m) \/ Fit(s, m)',
         \A r \in Nat \ {0} :
           /\ InOnePlace(inbox, Services, r) => InOnePlace(inbox', Services, r)
           /\ Nowhere(inbox, Services, r) => Nowhere(inbox', Services, r)
  PROVE  ManagerInv'
  <1>1. Extends
    BY SameRequests
  <1>2. TypeOK'
    BY DEF ManagerInv, TypeOK, StoreStep, StoreType
  <1>3. MailInv'
    BY <1>1, MailStable DEF ManagerInv
  <1>4. TaskPlaces'
    <2>1. \A r \in DOMAIN request : r \in Nat \ {0}
      BY RequestType DEF ManagerInv
    <2> QED BY <2>1 DEF ManagerInv, TaskPlaces
  <1>5. CommandsOpen'
    BY DEF ManagerInv, CommandsOpen
  <1>6. OutcomesRight'
    BY <1>1, StillRight DEF ManagerInv, OutcomesRight
  <1> QED BY <1>2, <1>3, <1>4, <1>5, <1>6 DEF ManagerInv, StoreStep

LEMMA DropStep ==
  ASSUME ManagerInv, StoreStep, NEW s \in Services, Drop(s)
  PROVE  ManagerInv'
  <1>1. /\ inbox \in [Services -> Seq(Message)] /\ inbox[s] # <<>>
        /\ Head(inbox[s]).r = 0 /\ inbox' = Take(inbox, s)
        /\ UNCHANGED <<request, outcome, commands>>
    BY DEF Drop, ManagerInv, TypeOK
  <1>2. inbox' \in [Services -> Seq(Message)]
    BY <1>1, TakeShape
  <1>3. \A t \in Services : \A m : Waits(inbox', t, m) => Waits(inbox, t, m)
    BY <1>1, TakeWaits
  <1>4. \A r \in Nat \ {0} :
           /\ InOnePlace(inbox, Services, r) => InOnePlace(inbox', Services, r)
           /\ Nowhere(inbox, Services, r) => Nowhere(inbox', Services, r)
    BY <1>1, TakePlaces
  <1> QED BY <1>1, <1>2, <1>3, <1>4, PlainStep

LEMMA PostStep ==
  ASSUME ManagerInv, StoreStep, NEW m \in Message, Post(m)
  PROVE  ManagerInv'
  <1>1. /\ inbox \in [Services -> Seq(Message)] /\ m.r = 0 /\ Fit("router", m)
        /\ inbox' = Put(inbox, "router", m)
        /\ UNCHANGED <<request, outcome, commands>>
        /\ "router" \in Services
    BY DEF Post, ManagerInv, TypeOK, Services
  <1>2. inbox' \in [Services -> Seq(Message)]
    BY <1>1, PutShape
  <1>3. Fit("router", m)'
    BY <1>1, SameRequests, FitStable
  <1>4. ASSUME NEW t \in Services, NEW n, Waits(inbox', t, n)
        PROVE  Waits(inbox, t, n) \/ Fit(t, n)'
    <2>1. Waits(Put(inbox, "router", m), t, n)
      BY <1>1, <1>4
    <2>2. Waits(inbox, t, n) \/ (t = "router" /\ n = m)
      BY <1>1, <2>1, PutWaits
    <2> QED BY <1>3, <2>2
  <1>5. \A r \in Nat \ {0} :
           /\ InOnePlace(inbox, Services, r) => InOnePlace(inbox', Services, r)
           /\ Nowhere(inbox, Services, r) => Nowhere(inbox', Services, r)
    BY <1>1, PutPlaces
  <1> QED BY <1>1, <1>2, <1>4, <1>5, PlainStep

LEMMA ArriveStep ==
  ASSUME ManagerInv, StoreStep, NEW c \in Calls, Arrive(c)
  PROVE  ManagerInv'
  <1> DEFINE o == [what |-> "working", via |-> None]
  <1>0. PICK r \in Nat : r = Len(request) + 1
    BY DEF ManagerInv, TypeOK
  <1>1. /\ inbox \in [Services -> Seq(Message)]
        /\ request \in Seq(Calls) /\ outcome \in [DOMAIN request -> Outcome]
        /\ request' = Append(request, c)
        /\ outcome' = Append(outcome, o)
        /\ UNCHANGED commands
        /\ commands \subseteq (DOMAIN request) \X Transports
        /\ "router" \in Services
    BY DEF Arrive, ManagerInv, TypeOK, net, Services
  <1>2. o \in Outcome /\ o.what \in Busy /\ o.what = "working"
    BY DEF Outcome, Busy
  <1> HIDE DEF o
  <1>3. /\ r \in Nat \ {0} /\ r \notin DOMAIN request
        /\ request' \in Seq(Calls) /\ DOMAIN request' = DOMAIN request \cup {r}
        /\ \A x \in DOMAIN request : request'[x] = request[x]
    BY <1>0, <1>1
  <1>4. /\ outcome' \in [DOMAIN request' -> Outcome]
        /\ \A x \in DOMAIN request : outcome'[x] = outcome[x]
        /\ outcome'[r] = o
    <2>1. /\ Len(request) \in Nat /\ DOMAIN request = 1..Len(request)
          /\ DOMAIN request' = 1..r
      BY <1>0, <1>1
    <2>2. outcome \in Seq(Outcome) /\ Len(outcome) = Len(request)
      <3>1. \A n \in Nat : \A f \in [1..n -> Outcome] : f \in Seq(Outcome) /\ Len(f) = n
        OBVIOUS
      <3>2. outcome \in [1..Len(request) -> Outcome]
        BY <1>1, <2>1
      <3> QED BY <2>1, <3>1, <3>2
    <2>3. /\ outcome' \in Seq(Outcome) /\ Len(outcome') = r
          /\ \A x \in 1..Len(request) : outcome'[x] = outcome[x]
          /\ outcome'[r] = o
      BY <1>0, <1>1, <1>2, <2>2
    <2> QED BY <2>1, <2>3
  <1>5. PICK m \in Message :
          m.h = "dispatcher" /\ m.r = r /\ inbox' = Put(inbox, "router", m)
    <2>1. inbox' = Put(inbox, "router", Task("dispatcher", r))
      BY <1>0 DEF Arrive, ToRouter, Put
    <2> QED BY <2>1, TaskType, TypesOfHandlers
  <1>6. Extends
    BY <1>3 DEF Extends
  <1>7. TypeOK'
    <2>1. inbox' \in [Services -> Seq(Message)]
      BY <1>1, <1>5, PutShape
    <2>2. commands' \subseteq (DOMAIN request') \X Transports
      BY <1>1, <1>3
    <2> QED BY <1>3, <1>4, <2>1, <2>2 DEF ManagerInv, TypeOK, StoreStep, StoreType
  <1>8. MailInv'
    <2>1. Fit("router", m)'
      BY <1>3, <1>5 DEF Fit, Plain, Misplaced, TakesNoTask, Standard
    <2>2. ASSUME NEW t \in Services, NEW n, Waits(inbox', t, n)
          PROVE  Waits(inbox, t, n) \/ Fit(t, n)'
      <3>1. Waits(Put(inbox, "router", m), t, n)
        BY <1>5, <2>2
      <3>2. Waits(inbox, t, n) \/ (t = "router" /\ n = m)
        <4>1. inbox \in [Services -> Seq(Message)] /\ "router" \in Services
          BY <1>1
        <4> QED BY <3>1, <4>1, PutWaits
      <3> QED BY <2>1, <3>2
    <2> QED BY <1>6, <2>2, MailStable DEF ManagerInv
  <1>9. Nowhere(inbox, Services, r)
    <2>1. ASSUME NEW t \in Services, NEW i \in DOMAIN inbox[t], inbox[t][i].r = r
          PROVE  FALSE
      <3>1. Fit(t, inbox[t][i])
        BY DEF ManagerInv, MailInv, Waits
      <3> QED BY <1>3, <2>1, <3>1 DEF Fit
    <2> QED BY <2>1, NowhereElim
  <1>10. TaskPlaces'
    <2> SUFFICES ASSUME NEW x \in DOMAIN request'
                 PROVE  IF outcome'[x].what \in Busy
                          THEN InOnePlace(inbox', Services, x)
                          ELSE Nowhere(inbox', Services, x)
      BY DEF TaskPlaces
    <2>1. CASE x = r
      <3>1. InOnePlace(inbox', Services, r)
        BY <1>1, <1>5, <1>9, PutPlaces
      <3> QED BY <1>2, <1>4, <2>1, <3>1
    <2>2. CASE x # r
      <3>1. x \in DOMAIN request /\ outcome'[x] = outcome[x] /\ x # m.r
        BY <1>3, <1>4, <1>5, <2>2
      <3>2. /\ InOnePlace(inbox, Services, x) => InOnePlace(inbox', Services, x)
            /\ Nowhere(inbox, Services, x) => Nowhere(inbox', Services, x)
        BY <1>1, <1>5, <3>1, PutPlaces
      <3> QED BY <3>1, <3>2 DEF ManagerInv, TaskPlaces
    <2> QED BY <2>1, <2>2
  <1>11. CommandsOpen'
    BY <1>1, <1>4 DEF ManagerInv, CommandsOpen
  <1>12. OutcomesRight'
    <2> SUFFICES ASSUME NEW x \in DOMAIN request'
                 PROVE  Right(request[x], outcome[x].what)'
      BY DEF OutcomesRight
    <2>1. CASE x \in DOMAIN request
      BY <1>4, <1>6, <2>1, StillRight DEF ManagerInv
    <2>2. CASE x = r
      BY <1>2, <1>4, <2>2 DEF Right
    <2> QED BY <1>3, <2>1, <2>2
  <1> QED BY <1>7, <1>8, <1>10, <1>11, <1>12 DEF ManagerInv, StoreStep

LEMMA AnswerStep ==
  ASSUME ManagerInv, StoreStep, NEW t \in Transports, NEW r \in DOMAIN request,
         DeviceAnswer(r, t)
  PROVE  ManagerInv'
  <1> DEFINE o == [what |-> "answering", via |-> None]
  <1>1. /\ inbox \in [Services -> Seq(Message)]
        /\ outcome \in [DOMAIN request -> Outcome]
        /\ commands \subseteq (DOMAIN request) \X Transports
        /\ <<r, t>> \in commands
        /\ outcome' = [outcome EXCEPT ![r] = o]
        /\ commands' = commands \ {<<r, t>>}
        /\ UNCHANGED request
        /\ "router" \in Services
    BY DEF DeviceAnswer, ManagerInv, TypeOK, Services
  <1>2. o \in Outcome /\ o.what \in Busy /\ o.what = "answering"
    BY DEF Outcome, Busy
  <1> HIDE DEF o
  <1>3. outcome[r].what = "command" /\ \A y \in commands : y[1] = r => y = <<r, t>>
    BY <1>1 DEF ManagerInv, CommandsOpen
  <1>4. Allowed(request[r]) /\ request[r].device \in Devices
    BY <1>3 DEF ManagerInv, OutcomesRight, Right
  <1>5. Nowhere(inbox, Services, r)
    BY <1>3 DEF ManagerInv, TaskPlaces, Busy
  <1>6. PICK m \in Message :
          /\ m.h = "response" /\ m.r = r /\ m.from = t
          /\ inbox' = Put(inbox, "router", m)
    <2>1. PICK d \in Devices \cup {None} : d = request[r].device
      BY <1>4
    <2>4. r \in Nat
      BY RequestType DEF ManagerInv
    <2>5. PICK x \in Nat : x = r
      BY <2>4
    <2> DEFINE n == [Task("response", x) EXCEPT !.device = d, !.from = t]
    <2>2. inbox' = Put(inbox, "router", n)
      BY <2>1, <2>5 DEF DeviceAnswer, ToRouter, Put
    <2>3. n \in Message /\ n.h = "response" /\ n.r = x /\ n.from = t
      BY <2>1, <2>5, TypesOfHandlers DEF Task, Message, NoGroups
    <2> HIDE DEF n
    <2> QED BY <2>2, <2>3, <2>5
  <1>7. /\ outcome' \in [DOMAIN request -> Outcome]
        /\ \A x \in DOMAIN request : x # r => outcome'[x] = outcome[x]
        /\ outcome'[r] = o
    BY <1>1, <1>2
  <1>8. Extends
    BY <1>1, SameRequests
  <1>9. TypeOK'
    <2>1. inbox' \in [Services -> Seq(Message)]
      BY <1>1, <1>6, PutShape
    <2>2. commands' \subseteq (DOMAIN request) \X Transports
      BY <1>1
    <2> QED BY <1>1, <1>7, <2>1, <2>2 DEF ManagerInv, TypeOK, StoreStep, StoreType
  <1>10. MailInv'
    <2>1. Fit("router", m)
      <3>1. t # None
        BY ManagerAssumption DEF Bad
      <3> QED BY <1>4, <1>6, <3>1 DEF Fit, Plain, Misplaced, Allowed
    <2>2. Fit("router", m)'
      BY <1>8, <2>1, FitStable
    <2>3. ASSUME NEW u \in Services, NEW n, Waits(inbox', u, n)
          PROVE  Waits(inbox, u, n) \/ Fit(u, n)'
      <3>1. Waits(Put(inbox, "router", m), u, n)
        BY <1>6, <2>3
      <3>2. Waits(inbox, u, n) \/ (u = "router" /\ n = m)
        BY <1>1, <1>6, <3>1, PutWaits, SMTT(60)
      <3> QED BY <2>2, <3>2
    <2> QED BY <1>8, <2>3, MailStable DEF ManagerInv
  <1>11. TaskPlaces'
    <2> SUFFICES ASSUME NEW x \in DOMAIN request
                 PROVE  IF outcome'[x].what \in Busy
                          THEN InOnePlace(inbox', Services, x)
                          ELSE Nowhere(inbox', Services, x)
      BY <1>1 DEF TaskPlaces
    <2>1. CASE x = r
      <3>1. InOnePlace(inbox', Services, r)
        BY <1>1, <1>5, <1>6, PutPlaces
      <3> QED BY <1>2, <1>7, <2>1, <3>1
    <2>2. CASE x # r
      <3>1. outcome'[x] = outcome[x] /\ x # m.r
        BY <1>6, <1>7, <2>2
      <3>2. /\ InOnePlace(inbox, Services, x) => InOnePlace(inbox', Services, x)
            /\ Nowhere(inbox, Services, x) => Nowhere(inbox', Services, x)
        BY <1>1, <1>6, <3>1, PutPlaces
      <3> QED BY <3>1, <3>2 DEF ManagerInv, TaskPlaces
    <2> QED BY <2>1, <2>2
  <1>12. CommandsOpen'
    <2>1. \A x \in commands' : x \in commands /\ x[1] # r /\ x[1] \in DOMAIN request
      BY <1>1, <1>3
    <2> QED BY <1>7, <2>1 DEF ManagerInv, CommandsOpen
  <1>13. OutcomesRight'
    <2> SUFFICES ASSUME NEW x \in DOMAIN request
                 PROVE  Right(request[x], outcome[x].what)'
      BY <1>1 DEF OutcomesRight
    <2>1. CASE x # r
      BY <1>7, <1>8, <2>1, StillRight DEF ManagerInv
    <2>2. CASE x = r
      BY <1>2, <1>4, <1>7, <1>8, <2>2, AllowedStable DEF Right
    <2> QED BY <2>1, <2>2
  <1> QED BY <1>9, <1>10, <1>11, <1>12, <1>13 DEF ManagerInv, StoreStep

LEMMA ManagerInit == Init => ManagerInv
  <1> SUFFICES ASSUME Init PROVE ManagerInv
    OBVIOUS
  <1>1. PICK p \in Persisted :
          /\ users = p.users /\ enrolled = p.users /\ auth = {} /\ groups = p.groups
          /\ conns = p.conns /\ attached = Rows(p.conns)
          /\ subs = p.subs /\ granted = Rows(p.subs)
          /\ subscribers = [d \in Devices |-> None]
          /\ devices = p.devices /\ reg = [d \in Devices |-> None]
    BY DEF Init, UsersStartup, GroupsStartup, ConnectionsStartup,
       SubscriptionsStartup, DevicesStartup
  <1>2. /\ p.users \subseteq Logins \X Passwords /\ p.groups \subseteq Groups
        /\ p.subs \in [Groups \X Logins -> Nat]
        /\ p.conns \in [Groups \X Devices -> Nat]
        /\ p.devices \subseteq Devices
    BY ManagerAssumption
  <1>3. /\ process = "running"
        /\ inbox = [s \in Services |-> <<>>] /\ request = <<>> /\ outcome = <<>>
        /\ commands = {} /\ notified = {} /\ notifies = 0
        /\ session = [t \in Transports |-> IF t \in Remote THEN "remote" ELSE "new"]
    BY DEF Init
  <1>4. /\ Rows(conns) \subseteq Groups \X Devices
        /\ Rows(subs) \subseteq Groups \X Logins
    BY <1>1, <1>2 DEF Rows
  <1>5. TypeOK
    <2>1. /\ inbox \in [Services -> Seq(Message)]
          /\ request \in Seq(Calls)
          /\ outcome \in [DOMAIN request -> Outcome]
          /\ commands \subseteq (DOMAIN request) \X Transports
          /\ notified \subseteq Transports \X Devices
          /\ notifies \in 0..MaxNotify
      BY <1>3, ManagerAssumption
    <2>2. session \in [Transports -> {"new", "open", "dead", "gone", "remote"}]
      BY <1>3
    <2> QED BY <1>1, <1>2, <1>3, <1>4, <2>1, <2>2 DEF TypeOK
  <1>6. \A s \in Services : DOMAIN inbox[s] = {}
    BY <1>3
  <1>7. MailInv
    BY <1>6 DEF MailInv, Waits
  <1>8. HistoryInv
    BY <1>1 DEF HistoryInv
  <1>9. TaskPlaces /\ CommandsOpen /\ OutcomesRight
    BY <1>3 DEF TaskPlaces, CommandsOpen, OutcomesRight
  <1> QED BY <1>5, <1>7, <1>8, <1>9 DEF ManagerInv

LEMMA ManagerStep == ManagerInv /\ [Next]_vars => ManagerInv'
  <1> SUFFICES ASSUME ManagerInv, [Next]_vars PROVE ManagerInv'
    OBVIOUS
  <1>1. StoreStep
    BY EveryStoreStep DEF ManagerInv
  <1>2. Shape
    BY StepShape DEF ManagerInv
  <1>3. CASE UNCHANGED <<inbox, request, outcome, commands>>
    <2>1. inbox' \in [Services -> Seq(Message)]
      BY <1>3 DEF ManagerInv, TypeOK
    <2> QED BY <1>1, <1>3, <2>1, PlainStep
  <1> QED
    BY <1>1, <1>2, <1>3, HopStep, FinishStep, DropStep, PostStep, ArriveStep,
       AnswerStep DEF Shape

\* The types of the state of the manager's services, for any number of
\* sessions, users, devices, groups, requests and rows: among them, a handler
\* that reads what is absent does not get past the exception.
THEOREM ManagerTypeCorrect == Spec => []TypeOK
  <1>1. ManagerInv => TypeOK
    BY DEF ManagerInv
  <1> QED BY <1>1, ManagerInit, ManagerStep, PTL DEF Spec

\* No request is lost or answered twice, on any way through the services: a
\* handler either passes the one task of a request on or ends the request.  The
\* one exception are an administrator's requests that name a handler which
\* takes no task.
THEOREM NoTaskLost == Spec => []TaskInOnePlace
  <1>1. ManagerInv => TaskInOnePlace
    <2>1. \A r : Places(r) = PlacesIn(inbox, Services, r)
      BY DEF Places, PlacesIn
    <2>2. ManagerInv => \A r \in DOMAIN request : outcome[r].what = "lost" => Misnames(request[r])
      BY DEF ManagerInv, OutcomesRight, Right
    <2> QED BY <2>1, <2>2 DEF ManagerInv, TaskPlaces, TaskInOnePlace, InOnePlace, Nowhere
  <1> QED BY <1>1, ManagerInit, ManagerStep, PTL DEF Spec

\* A command is written to a device only for devices.control with a key that
\* users.auth accepted and whose user has shared a group with the device, or for
\* the administrator, whatever is done to the tables between the hops of the
\* request.
THEOREM OnlyAllowedCommands == Spec => []CommandAuthorized
  <1>1. ManagerInv => CommandAuthorized
    BY DEF ManagerInv, OutcomesRight, Right, CommandAuthorized, Allowed
  <1> QED BY <1>1, ManagerInit, ManagerStep, PTL DEF Spec

-----------------------------------------------------------------------------
(* What becomes of the requests. *)

\* A step adds requests, and settles what became of one only when its task is
\* handled, or when a device answers it.
LEMMA SettledStep ==
  ASSUME ManagerInv, [Next]_vars
  PROVE  /\ Extends
         /\ \A r \in DOMAIN request :
              outcome[r].what \notin Busy \cup {"command"} => outcome'[r] = outcome[r]
  <1>1. Shape
    BY StepShape DEF ManagerInv
  <1>2. outcome \in [DOMAIN request -> Outcome] /\ request \in Seq(Calls)
    BY DEF ManagerInv, TypeOK
  <1>3. ASSUME NEW s \in Services, NEW o \in Outcome, Finish(s, o)
        PROVE  /\ Extends
               /\ \A r \in DOMAIN request :
                    outcome[r].what \notin Busy \cup {"command"} => outcome'[r] = outcome[r]
    <2>1. outcome[Head(inbox[s]).r].what \in Busy
      BY <1>3, HeadBusy DEF ManagerInv, Finish
    <2> QED BY <1>2, <1>3, <2>1, SameRequests DEF Finish
  <1>4. ASSUME NEW c \in Calls, Arrive(c)
        PROVE  /\ Extends
               /\ \A r \in DOMAIN request : outcome'[r] = outcome[r]
    <2>1. Len(request) \in Nat /\ DOMAIN request = 1..Len(request)
      BY <1>2
    <2>2. \A n \in Nat : \A f \in [1..n -> Outcome] : f \in Seq(Outcome) /\ Len(f) = n
      OBVIOUS
    <2>3. outcome \in Seq(Outcome) /\ Len(outcome) = Len(request)
      BY <1>2, <2>1, <2>2
    <2>4. \A r \in DOMAIN request : outcome'[r] = outcome[r]
      BY <1>4, <2>1, <2>3 DEF Arrive
    <2>5. Extends
      BY <1>2, <1>4 DEF Arrive, Extends
    <2> QED BY <2>4, <2>5
  <1>5. ASSUME NEW t \in Transports, NEW x \in DOMAIN request, DeviceAnswer(x, t)
        PROVE  /\ Extends
               /\ \A r \in DOMAIN request :
                    outcome[r].what \notin Busy \cup {"command"} => outcome'[r] = outcome[r]
    <2>1. outcome[x].what = "command"
      BY <1>5 DEF DeviceAnswer, ManagerInv, CommandsOpen
    <2> QED BY <1>2, <1>5, <2>1, SameRequests DEF DeviceAnswer
  <1>6. CASE UNCHANGED <<request, outcome>>
    BY <1>6, SameRequests
  <1> QED BY <1>1, <1>3, <1>4, <1>5, <1>6 DEF Shape, Hop, Drop, Post

-----------------------------------------------------------------------------
(* The cache of authenticated keys. *)

\* login is the primary key of the table users.
OneRowPerLogin == \A k, l \in users : k[1] = l[1] => k = l

\* Every request with a key of the login carries one that users.login made.
OnlyIssued(login) ==
  \A i \in DOMAIN request :
    request[i].key \in Keys /\ request[i].key[1] = login => Issued(request[i].key)

\* AuthCacheFresh is not inductive: delete removes every row of the login and
\* only one cached key.  That is enough when every cached key of the login is an
\* issued one: a login has one row, hence one such key, and its entry is the one
\* that is found.
AuthInv ==
  /\ OneRowPerLogin
  /\ \A e \in auth :
       /\ \E i \in DOMAIN request : request[i].key = e[1]
       /\ Issued(e[1]) => e[2] = e[1][1]
       /\ OnlyIssued(e[1][1]) => <<e[1][1], e[1][2]>> \in users

LEMMA AuthInit == Init => AuthInv
  BY ManagerAssumption DEF Init, UsersStartup, AuthInv, OneRowPerLogin

\* Only three handlers of users change the table or the cache.
LEMMA AuthFrame ==
  ASSUME [Next]_vars, ~UsersAdd, ~UsersDelete, ~UsersAuth
  PROVE  UNCHANGED <<users, auth>>
  <1> USE DEF tables, caches
  <1>1. CASE RouterStep
    BY <1>1 DEF RouterStep, RouterRequest, RouterFromDevice, RouterService, RouterError
  <1>2. CASE UsersList \/ UsersLogin \/ LoseTask("users")
    BY <1>2 DEF LoseTask, UsersList, UsersLogin, Query
  <1>3. CASE GroupsStep
    BY <1>3 DEF GroupsStep, LoseTask, GroupsAdd, GroupsDelete, GroupsList, Query
  <1>4. CASE ConnectionsStep
    BY <1>4 DEF ConnectionsStep, LoseTask, ConnectionsAdd, ConnectionsDelete, ConnectionsList,
       ConnectionsGroups, ConnectionsDevices, ConnectionsSubscribe,
       ConnectionsUnsubscribe, WithDeviceGroups, Query
  <1>5. CASE SubscriptionsStep
    BY <1>5 DEF SubscriptionsStep, LoseTask, SubscriptionsAdd, SubscriptionsDelete,
       SubscriptionsList, SubscriptionsDevices, SubscriptionsGroups,
       SubscriptionsOn, SubscriptionsOff, SubscriptionsEmit, Query
  <1>6. CASE DevicesStep
    BY <1>6 DEF DevicesStep, LoseTask, DevicesAdd, DevicesDelete, DevicesList, DevicesDetail,
       DevicesControl, DevicesSubscribe, DevicesUnsubscribe, DevicesConnect,
       DevicesDisconnect, DevicesRequest, DevicesResponse, DevicesNotify,
       IfRegistered, Query
  <1>7. CASE ManagerInfo
    BY <1>7 DEF ManagerInfo
  <1>8. CASE Environment
    BY <1>8 DEF Environment, Arrive, Accept, CloseHandshake, ReadError,
       DeviceAnswer, DeviceNotify
  <1>9. CASE Terminate \/ UNCHANGED vars
    BY <1>9 DEF Terminate, vars
  <1> QED
    BY <1>1, <1>2, <1>3, <1>4, <1>5, <1>6, <1>7, <1>8, <1>9 DEF Next, UsersStep

\* An entry of the cache of a login whose keys are all issued.
LEMMA IssuedEntry ==
  ASSUME ManagerInv, AuthInv, NEW e \in auth, OnlyIssued(e[1][1])
  PROVE  /\ e[1] \in Keys /\ Issued(e[1]) /\ e[2] = e[1][1]
         /\ <<e[1][1], e[1][2]>> \in users
         /\ e = <<<<e[1][1], e[1][2], None>>, e[1][1]>>
  <1>1. e \in Keys \X (Logins \cup {Empty})
    BY DEF ManagerInv, TypeOK
  <1>2. PICK i \in DOMAIN request : request[i].key = e[1]
    BY DEF AuthInv
  <1>3. Issued(e[1])
    BY <1>1, <1>2 DEF OnlyIssued
  <1>4. e[2] = e[1][1] /\ <<e[1][1], e[1][2]>> \in users
    BY <1>3 DEF AuthInv
  <1>5. e[1] = <<e[1][1], e[1][2], None>>
    <2>1. e[1] \in Logins \X (Passwords \cup {None}) \X (Rests \cup {None})
      BY <1>1 DEF Keys
    <2>2. e[1] = <<e[1][1], e[1][2], e[1][3]>>
      BY <2>1
    <2> QED BY <1>3, <2>2 DEF Issued
  <1>6. e = <<e[1], e[2]>>
    BY <1>1
  <1> QED BY <1>1, <1>3, <1>4, <1>5, <1>6

LEMMA AuthStep == ManagerInv /\ AuthInv /\ [Next]_vars => AuthInv'
  <1> SUFFICES ASSUME ManagerInv, AuthInv, [Next]_vars PROVE AuthInv'
    OBVIOUS
  <1>1. \A e : (\E i \in DOMAIN request : request[i].key = e[1])
                 => \E i \in DOMAIN request' : request'[i].key = e[1]
    BY SettledStep DEF Extends
  <1>2. \A login : OnlyIssued(login)' => OnlyIssued(login)
    BY SettledStep DEF Extends, OnlyIssued
  <1>3. ASSUME auth' \subseteq auth, users \subseteq users', OneRowPerLogin'
        PROVE  AuthInv'
    BY <1>1, <1>2, <1>3 DEF AuthInv, Issued
  <1>4. CASE UsersAdd
    <2>1. UNCHANGED auth
      BY <1>4 DEF UsersAdd, caches
    <2>2. CASE UNCHANGED users
      BY <1>3, <2>1, <2>2 DEF AuthInv, OneRowPerLogin
    <2>3. CASE \E login, password :
                 /\ \A row \in users : row[1] # login
                 /\ users' = users \cup {<<login, password>>}
      BY <1>3, <2>1, <2>3 DEF AuthInv, OneRowPerLogin
    <2> QED BY <1>4, <2>2, <2>3 DEF UsersAdd
  <1>5. CASE UsersDelete
    <2>1. CASE UNCHANGED <<users, auth>>
      BY <1>3, <2>1 DEF AuthInv, OneRowPerLogin
    <2>2. ASSUME NEW login, login # Empty, users' = {row \in users : row[1] # login},
                 RemoveAuthLogin(login)
          PROVE  AuthInv'
      <3>1. auth' \subseteq auth /\ OneRowPerLogin'
        BY <2>2 DEF RemoveAuthLogin, AuthInv, OneRowPerLogin
      <3>2. ASSUME NEW e \in auth', OnlyIssued(e[1][1])'
            PROVE  <<e[1][1], e[1][2]>> \in users'
        <4>1. e \in auth /\ OnlyIssued(e[1][1])
          BY <1>2, <3>1, <3>2
        <4>2. <<e[1][1], e[1][2]>> \in users /\ e[2] = e[1][1]
          BY <4>1, IssuedEntry
        <4>3. ASSUME e[1][1] = login PROVE FALSE
          <5>1. PICK x \in auth : x[2] = login /\ auth' = auth \ {x}
            BY <2>2, <4>1, <4>2, <4>3 DEF RemoveAuthLogin
          <5>2. x[1][1] = login
            BY <2>2, <5>1 DEF ManagerInv, HistoryInv
          <5>3. /\ <<x[1][1], x[1][2]>> \in users
                /\ x = <<<<x[1][1], x[1][2], None>>, x[1][1]>>
            BY <4>1, <4>3, <5>2, IssuedEntry
          <5>4. e = <<<<e[1][1], e[1][2], None>>, e[1][1]>>
            BY <4>1, IssuedEntry
          <5>5. x[1][2] = e[1][2]
            BY <4>2, <4>3, <5>2, <5>3 DEF AuthInv, OneRowPerLogin
          <5>6. x = e
            BY <4>3, <5>2, <5>3, <5>4, <5>5
          <5> QED BY <5>1, <5>6
        <4> QED BY <2>2, <4>2, <4>3
      <3>3. \A e \in auth' : /\ \E i \in DOMAIN request' : request'[i].key = e[1]
                             /\ Issued(e[1]) => e[2] = e[1][1]
        BY <1>1, <3>1 DEF AuthInv
      <3> QED BY <3>1, <3>2, <3>3 DEF AuthInv, Issued
    <2> QED BY <1>5, <2>1, <2>2 DEF UsersDelete, Filled
  <1>6. CASE UsersAuth
    <2> DEFINE k == Params("users").key
    <2>1. UNCHANGED users
      BY <1>6 DEF UsersAuth, tables
    <2>2. CASE UNCHANGED auth
      BY <1>3, <2>1, <2>2 DEF AuthInv, OneRowPerLogin
    <2>3. CASE Matches(k) /\ auth' = auth \cup {<<k, LoginOf(k)>>}
      <3>1. k \in Keys /\ \E i \in DOMAIN request : request[i].key = k
        BY <1>6, AuthKeyType DEF ManagerInv
      <3>2. Issued(k) => <<k[1], k[2]>> \in users /\ LoginOf(k) = k[1]
        BY <2>3 DEF Issued, Matches, LoginOf
      <3>3. OnlyIssued(k[1]) => Issued(k)
        BY <3>1 DEF OnlyIssued
      <3>4. PICK x : x = <<k, LoginOf(k)>>
        OBVIOUS
      <3>5. x[1] = k /\ x[2] = LoginOf(k)
        BY <3>4
      <3> HIDE DEF k
      <3>6. /\ \E i \in DOMAIN request' : request'[i].key = x[1]
            /\ Issued(x[1]) => x[2] = x[1][1]
            /\ OnlyIssued(x[1][1])' => <<x[1][1], x[1][2]>> \in users
        BY <1>1, <1>2, <3>1, <3>2, <3>3, <3>5
      <3>7. \A e \in auth : /\ \E i \in DOMAIN request' : request'[i].key = e[1]
                            /\ Issued(e[1]) => e[2] = e[1][1]
                            /\ OnlyIssued(e[1][1])' => <<e[1][1], e[1][2]>> \in users
        BY <1>1, <1>2 DEF AuthInv
      <3>8. auth' = auth \cup {x}
        BY <2>3, <3>4
      <3> QED BY <2>1, <3>6, <3>7, <3>8 DEF AuthInv, Issued, OneRowPerLogin
    <2> QED BY <1>6, <2>2, <2>3 DEF UsersAuth
  <1>7. CASE ~UsersAdd /\ ~UsersDelete /\ ~UsersAuth
    <2>1. UNCHANGED <<users, auth>>
      BY <1>7, AuthFrame
    <2> QED BY <1>3, <2>1 DEF AuthInv, OneRowPerLogin
  <1> QED BY <1>4, <1>5, <1>6, <1>7

\* Whatever requests arrive and however the services interleave, a key that
\* users.auth accepts from its cache is the key of a row of the table users, for
\* every login that is only used with keys as users.login makes them: deleting
\* such a user, or adding it again with another password, ends its key.
THEOREM AuthCacheIsFresh == Spec => []AuthCacheFresh
  <1>1. ManagerInv /\ AuthInv => AuthCacheFresh
    <2> SUFFICES ASSUME ManagerInv, AuthInv, NEW e \in auth, OnlyIssued(e[1][1])
                 PROVE  <<e[1][1], e[1][2]>> \in users
      BY DEF AuthCacheFresh, AuthKeys, OnlyIssued
    <2> QED BY DEF AuthInv
  <1> QED BY <1>1, AuthInit, AuthStep, ManagerInit, ManagerStep, PTL DEF Spec

-----------------------------------------------------------------------------
(* Unsubscribing: the two requests of a session are five hops through the    *)
(* services apart from each other, and the proof follows them stage by stage. *)

(* The way of a request. *)

\* The way of a request to start or to stop listening, in stages; connections
\* .subscribe leaves out the fourth.  0: not on this way.
Stage(s, h) ==
  CASE s = "router" /\ h = "dispatcher"                            -> 1
    [] s = "users" /\ h = "auth"                                   -> 2
    [] s = "router" /\ h = "service"                               -> 3
    [] s = "devices" /\ h \in {"subscribe", "unsubscribe"}         -> 4
    [] s = "connections" /\ h \in {"subscribe", "unsubscribe"}     -> 5
    [] s = "subscriptions" /\ h \in {"on", "off"}                  -> 6
    [] OTHER                                                       -> 0

Unsubscribes(q) == q.method = <<"devices", "unsubscribe">>

\* What the place of a task says about its request, and the other way round.
OnWay(q, s, h) ==
  /\ s = "users" /\ h = "delete" => Names(q, "users", "delete")
  /\ s = "devices" /\ h = "disconnect" => Names(q, "devices", "disconnect")
  /\ s = "devices" /\ h = "subscribe" => Names(q, "devices", "subscribe")
  /\ s = "connections" /\ h = "subscribe" => Subscribes(q)
  /\ s = "subscriptions" /\ h = "on" => Subscribes(q)
  /\ Subscribes(q) => Stage(s, h) \in 1..6 /\ h \notin {"unsubscribe", "off"}
  /\ Unsubscribes(q) => Stage(s, h) \in 1..6 /\ h \notin {"subscribe", "on"}

WayInv ==
  \A s \in Services : \A m :
    Waits(inbox, s, m) /\ m.r # 0 => OnWay(request[m.r], s, m.h)


LEMMA WayHop ==
  ASSUME NEW s, NEW to, NEW m, Passes(s, to, m), request[m.r] \in Calls,
         OnWay(request[m.r], s, Head(inbox[s]).h)
  PROVE  OnWay(request[m.r], to, m.h)
  <1> DEFINE q == request[m.r]
             h == Head(inbox[s]).h
             g == m.h
  <1>1. CASE /\ s = "router" /\ Names(q, to, g)
             /\ h = "service" \/ (h = "dispatcher" /\ q.method \in GuestMethods)
    <2>2. Subscribes(q) =>
            \/ to \in {"devices", "connections"} /\ g = "subscribe"
            \/ to = "subscriptions" /\ g = "on"
      BY <1>1 DEF Names, Subscribes
    <2>3. Unsubscribes(q) => to = "devices" /\ g = "unsubscribe"
      BY <1>1 DEF Names, Unsubscribes
    <2> HIDE DEF q, h, g
    <2>4. OnWay(q, to, g)
      BY <1>1, <2>2, <2>3 DEF OnWay, Stage, Subscribes
    <2> QED BY <2>4 DEF q, g
  <1>2. CASE <<s, h, to, g>> \in Edges
    <2> HIDE DEF q, h, g
    <2>1. OnWay(q, s, h)
      BY DEF q, h
    <2>2. OnWay(q, to, g)
      <3>1. CASE s = "router" /\ h = "dispatcher" /\ to = "users" /\ g = "auth"
        BY <3>1 DEF OnWay, Stage
      <3>2. CASE s = "users" /\ h = "auth" /\ to = "router" /\ g = "service"
        BY <3>2 DEF OnWay, Stage
      <3>3. CASE s = "devices" /\ h \in {"subscribe", "unsubscribe"} /\ to = "connections" /\ g = h
        BY <2>1, <3>3 DEF OnWay, Stage, Subscribes
      <3>4. CASE s = "connections" /\ h = "subscribe" /\ to = "subscriptions" /\ g = "on"
        BY <2>1, <3>4 DEF OnWay, Stage
      <3>5. CASE s = "connections" /\ h = "unsubscribe" /\ to = "subscriptions" /\ g = "off"
        BY <2>1, <3>5 DEF OnWay, Stage
      <3>6. CASE /\ Stage(s, h) = 0
                 /\ \/ to \in {"connections", "subscriptions"} /\ g \in {"devices", "groups", "emit"}
                    \/ to = "devices" /\ g \in {"request", "response", "notify"}
        BY <2>1, <3>6 DEF OnWay
      <3> QED BY <1>2, <3>1, <3>2, <3>3, <3>4, <3>5, <3>6 DEF Edges, Stage
    <2> QED BY <2>2 DEF q, g
  <1> QED BY <1>1, <1>2 DEF Passes

\* Where a message with a request comes from that was not there before.
LEMMA NewMail ==
  ASSUME ManagerInv, [Next]_vars, NEW s \in Services, NEW m, Waits(inbox', s, m),
         m.r # 0, ~Waits(inbox, s, m)
  PROVE  \/ m \in Message /\ \E x \in Services : Hop(x, s, m)
         \/ s = "router" /\ m.h = "dispatcher" /\ m.r \notin DOMAIN request
         \/ /\ s = "router" /\ m.h = "response" /\ m.r \in DOMAIN request
            /\ outcome[m.r].what = "command"
  <1>1. Shape
    BY StepShape DEF ManagerInv
  <1>2. inbox \in [Services -> Seq(Message)] /\ "router" \in Services
    BY DEF ManagerInv, TypeOK, Services
  <1>3. ASSUME NEW x \in Services, NEW to \in Services, NEW n \in Message, Hop(x, to, n)
        PROVE  m \in Message /\ Hop(x, s, m)
    <2>1. Take(inbox, x) \in [Services -> Seq(Message)]
      BY <1>2, <1>3, TakeShape DEF Hop
    <2>2. Waits(Put(Take(inbox, x), to, n), s, m)
      BY <1>3 DEF Hop
    <2>3. Waits(Take(inbox, x), s, m) \/ (s = to /\ m = n)
      BY <2>1, <2>2, PutWaits
    <2>4. ~Waits(Take(inbox, x), s, m)
      BY <1>2, <1>3, TakeWaits DEF Hop
    <2> QED BY <1>3, <2>3, <2>4
  <1>4. ASSUME NEW x \in Services, inbox[x] # <<>>, inbox' \in Ended(x) PROVE FALSE
    BY <1>4, EndedBox DEF ManagerInv
  <1>5. ASSUME NEW x \in Services, Drop(x) PROVE FALSE
    BY <1>2, <1>5, TakeWaits DEF Drop
  <1>6. ASSUME NEW n \in Message, inbox' = Put(inbox, "router", n)
        PROVE  s = "router" /\ m = n
    <2>1. Waits(Put(inbox, "router", n), s, m)
      BY <1>6
    <2> QED BY <1>2, <2>1, PutWaits
  <1>7. ASSUME NEW c \in Calls, Arrive(c)
        PROVE  s = "router" /\ m.h = "dispatcher" /\ m.r \notin DOMAIN request
    <2>1. PICK r \in Nat : r = Len(request) + 1
      BY DEF ManagerInv, TypeOK
    <2>2. r \notin DOMAIN request
      BY <2>1 DEF ManagerInv, TypeOK
    <2> DEFINE n == Task("dispatcher", r)
    <2>3. inbox' = Put(inbox, "router", n)
      BY <1>7, <2>1 DEF Arrive, ToRouter, Put
    <2>4. n \in Message /\ n.h = "dispatcher" /\ n.r = r
      BY TaskType, TypesOfHandlers
    <2> HIDE DEF n
    <2> QED BY <1>6, <2>2, <2>3, <2>4
  <1>8. ASSUME NEW t \in Transports, NEW r \in DOMAIN request, DeviceAnswer(r, t)
        PROVE  /\ s = "router" /\ m.h = "response" /\ m.r \in DOMAIN request
               /\ outcome[m.r].what = "command"
    <2>1. outcome[r].what = "command" /\ request[r].device \in Devices
      BY <1>8 DEF DeviceAnswer, ManagerInv, CommandsOpen, OutcomesRight, Right
    <2>2. PICK d \in Devices \cup {None} : d = request[r].device
      BY <2>1
    <2>3. PICK x \in Nat : x = r
      BY RequestType DEF ManagerInv
    <2> DEFINE n == [Task("response", x) EXCEPT !.device = d, !.from = t]
    <2>4. inbox' = Put(inbox, "router", n)
      BY <1>8, <2>2, <2>3 DEF DeviceAnswer, ToRouter, Put
    <2>5. n \in Message /\ n.h = "response" /\ n.r = x
      BY <2>2, <2>3, TypesOfHandlers DEF Task, Message, NoGroups
    <2> HIDE DEF n
    <2> QED BY <1>6, <2>1, <2>3, <2>4, <2>5
  <1>9. ASSUME NEW n \in Message, Post(n) PROVE FALSE
    <2>1. s = "router" /\ m = n
      BY <1>6, <1>9 DEF Post
    <2> QED BY <1>9, <2>1 DEF Post
  <1>10. CASE UNCHANGED inbox
    BY <1>10
  <1> QED BY <1>1, <1>3, <1>4, <1>7, <1>8, <1>9, <1>10, <1>5 DEF Shape, Finish

\* A handler passes on, or ends, only the request of the message it handles.
LEMMA HopHead ==
  ASSUME ManagerInv, NEW x \in Services, NEW s \in Services, NEW m, Hop(x, s, m),
         m.r # 0
  PROVE  /\ inbox[x] # <<>> /\ Waits(inbox, x, Head(inbox[x]))
         /\ Head(inbox[x]).r = m.r /\ m.r \in DOMAIN request
         /\ Fit(x, Head(inbox[x]))
  <1>1. inbox \in [Services -> Seq(Message)] /\ inbox[x] # <<>> /\ Head(inbox[x]).r = m.r
    BY DEF ManagerInv, TypeOK, Hop
  <1>2. Waits(inbox, x, Head(inbox[x]))
    BY <1>1, TakeWaits
  <1>3. m.r \in DOMAIN request
    BY DEF Hop, Fit
  <1>4. Fit(x, Head(inbox[x]))
    BY <1>1, HeadFit DEF ManagerInv
  <1> QED BY <1>1, <1>2, <1>3, <1>4

LEMMA WayStep ==
  ASSUME ManagerInv, WayInv, [Next]_vars
  PROVE  WayInv'
  <1> SUFFICES ASSUME NEW s \in Services, NEW m, Waits(inbox', s, m), m.r # 0
               PROVE  OnWay(request'[m.r], s, m.h)
    BY DEF WayInv, OnWay, Subscribes, Unsubscribes, Names
  <1>1. \A r \in DOMAIN request : request'[r] = request[r]
    BY SettledStep DEF Extends
  <1>2. CASE Waits(inbox, s, m)
    <2>1. m.r \in DOMAIN request
      BY <1>2 DEF ManagerInv, MailInv, Fit
    <2> QED BY <1>1, <1>2, <2>1 DEF WayInv
  <1>3. ASSUME m \in Message, NEW x \in Services, Hop(x, s, m)
        PROVE  OnWay(request'[m.r], s, m.h)
    <2>1. /\ Waits(inbox, x, Head(inbox[x])) /\ Head(inbox[x]).r = m.r
          /\ m.r \in DOMAIN request
      BY <1>3, HopHead
    <2>2. OnWay(request[m.r], x, Head(inbox[x]).h)
      BY <2>1 DEF WayInv
    <2>3. request[m.r] \in Calls
      BY <2>1, RequestType DEF ManagerInv
    <2>4. OnWay(request[m.r], s, m.h)
      BY <1>3, <2>2, <2>3, WayHop DEF Hop
    <2> QED BY <1>1, <2>1, <2>4
  <1>4. CASE s = "router" /\ m.h = "dispatcher"
    BY <1>4 DEF OnWay, Stage
  <1>5. CASE /\ s = "router" /\ m.h = "response" /\ m.r \in DOMAIN request
             /\ outcome[m.r].what = "command"
    <2>1. ForDevice(request[m.r])
      BY <1>5 DEF ManagerInv, OutcomesRight, Right, Allowed
    <2>2. ~Subscribes(request[m.r]) /\ ~Unsubscribes(request[m.r])
      BY <2>1 DEF ForDevice, Names, Subscribes, Unsubscribes
    <2> QED BY <1>1, <1>5, <2>2 DEF OnWay
  <1> QED BY <1>2, <1>3, <1>4, <1>5, NewMail

-----------------------------------------------------------------------------
(* Who listens to a device. *)

\* Only three handlers of subscriptions change who listens or is notified.
LEMMA ListenersFrame ==
  ASSUME [Next]_vars, ~SubscriptionsOn, ~SubscriptionsOff, ~SubscriptionsEmit
  PROVE  UNCHANGED <<subscribers, notified>>
  <1> USE DEF caches, net
  <1>1. CASE RouterStep
    BY <1>1 DEF RouterStep, RouterRequest, RouterFromDevice, RouterService, RouterError
  <1>2. CASE UsersStep
    BY <1>2 DEF UsersStep, LoseTask, UsersAdd, UsersDelete, UsersList, UsersLogin, UsersAuth, Query
  <1>3. CASE GroupsStep
    BY <1>3 DEF GroupsStep, LoseTask, GroupsAdd, GroupsDelete, GroupsList, Query
  <1>4. CASE ConnectionsStep
    BY <1>4 DEF ConnectionsStep, LoseTask, ConnectionsAdd, ConnectionsDelete, ConnectionsList,
       ConnectionsGroups, ConnectionsDevices, ConnectionsSubscribe,
       ConnectionsUnsubscribe, WithDeviceGroups, Query
  <1>5. CASE SubscriptionsStep
    BY <1>5 DEF SubscriptionsStep, LoseTask, SubscriptionsAdd, SubscriptionsDelete,
       SubscriptionsList, SubscriptionsDevices, SubscriptionsGroups, Query
  <1>6. CASE DevicesStep
    BY <1>6 DEF DevicesStep, LoseTask, DevicesAdd, DevicesDelete, DevicesList, DevicesDetail,
       DevicesControl, DevicesSubscribe, DevicesUnsubscribe, DevicesConnect,
       DevicesDisconnect, DevicesRequest, DevicesResponse, DevicesNotify,
       IfRegistered, Query
  <1>7. CASE ManagerInfo
    BY <1>7 DEF ManagerInfo
  <1>8. CASE Environment
    BY <1>8 DEF Environment, Arrive, Accept, CloseHandshake, ReadError,
       DeviceAnswer, DeviceNotify
  <1>9. CASE Terminate \/ UNCHANGED vars
    BY <1>9 DEF Terminate, vars
  <1> QED
    BY <1>1, <1>2, <1>3, <1>4, <1>5, <1>6, <1>7, <1>8, <1>9 DEF Next

\* Session t has subscribed to device d, and was allowed to.
Subscribed(t, d) ==
  \E r \in DOMAIN request :
    /\ Subscribes(request[r]) /\ outcome[r].what = "ok"
    /\ request[r].from = t /\ request[r].device = d
    /\ Authenticated(request[r].key)
    /\ Admin(request[r]) \/ Shared(request[r])

LEMMA SubscribedStable ==
  ASSUME ManagerInv, [Next]_vars, NEW t, NEW d, Subscribed(t, d)
  PROVE  Subscribed(t, d)'
  <1>1. PICK r \in DOMAIN request :
          /\ Subscribes(request[r]) /\ outcome[r].what = "ok"
          /\ request[r].from = t /\ request[r].device = d
          /\ Authenticated(request[r].key)
          /\ Admin(request[r]) \/ Shared(request[r])
    BY DEF Subscribed
  <1>2. r \in DOMAIN request' /\ request'[r] = request[r] /\ outcome'[r] = outcome[r]
    BY <1>1, SettledStep DEF Extends, Busy
  <1>3. /\ granted \subseteq granted' /\ attached \subseteq attached'
        /\ enrolled \subseteq enrolled'
    BY EveryStoreStep DEF ManagerInv, StoreStep
  <1>4. (Admin(request[r]) \/ Shared(request[r]))' /\ Authenticated(request[r].key)'
    BY <1>1, <1>2, <1>3 DEF Admin, Shared, Authenticated
  <1> QED BY <1>1, <1>2, <1>4 DEF Subscribed, Subscribes, Names

\* A step that makes a session listen, or notifies it, found it subscribed.
LEMMA ListenersChange ==
  ASSUME ManagerInv, WayInv, ListenersAuthorized, [Next]_vars, NEW d \in Devices, NEW t \in Transports,
         \/ subscribers'[d] # None /\ t \in subscribers'[d]
         \/ <<t, d>> \in notified'
  PROVE  Subscribed(t, d)'
  <1>1. /\ subscribers \in [Devices -> (SUBSET Transports) \cup {None}]
        /\ outcome \in [DOMAIN request -> Outcome]
    BY DEF ManagerInv, TypeOK
  <1>2. t \in Listeners(d) \/ <<t, d>> \in notified => Subscribed(t, d)'
    <2>1. t \in Listeners(d) \/ <<t, d>> \in notified => Subscribed(t, d)
      BY DEF ListenersAuthorized, Listeners, Subscribed
    <2> QED BY <2>1, SubscribedStable
  <1>3. CASE SubscriptionsOn
    <2> DEFINE m == Head(inbox["subscriptions"])
               q == request[m.r]
    <2>1. /\ inbox["subscriptions"] # <<>> /\ m.h = "on"
          /\ Received("subscriptions", "on") /\ "subscriptions" \in Services
      BY <1>3 DEF SubscriptionsOn, Received, Services
    <2>2. UNCHANGED <<request, notified, enrolled, granted, attached>>
      BY <1>3 DEF SubscriptionsOn, net, tables
    <2>3. CASE UNCHANGED subscribers
      BY <1>2, <2>2, <2>3 DEF Listeners
    <2>4. CASE /\ HasAccess(q, m.groups)
               /\ subscribers' = [subscribers EXCEPT ![q.device] = Listeners(q.device) \cup {q.from}]
               /\ Reply("subscriptions", IF q.from \in Listeners(q.device) THEN "error" ELSE "ok")
      <3>1. CASE t \in Listeners(d) \/ <<t, d>> \in notified
        BY <1>2, <3>1
      <3>2. CASE t \notin Listeners(d) /\ <<t, d>> \notin notified
        <4>1. d = q.device /\ t = q.from
          BY <1>1, <2>2, <2>4, <3>2 DEF Listeners
        <4>2. /\ m.r \in DOMAIN request /\ m.r # 0
              /\ Authenticated(q.key)
              /\ \/ Admin(q)
                 \/ \A g \in Groups : InJoined(g, m.groups) => <<g, q.device>> \in attached
          <5>1. m.r \in DOMAIN request /\ Fit("subscriptions", m)
            BY <2>1, ReceivedFit DEF ManagerInv, Plain
          <5>2. m.r # 0
            BY <5>1, RequestType DEF ManagerInv
          <5> QED BY <2>1, <5>1, <5>2 DEF Fit
        <4>3. Subscribes(q)
          <5>1. Waits(inbox, "subscriptions", m)
            BY <2>1, TakeWaits DEF ManagerInv, TypeOK
          <5> QED BY <2>1, <4>2, <5>1 DEF WayInv, OnWay
        <4>4. Admin(q) \/ Shared(q)
          <5> HIDE DEF q, m
          <5> QED BY <2>4, <4>2, AccessIsShared DEF ManagerInv
        <4>5. outcome'[m.r].what = "ok"
          BY <1>1, <2>4, <3>2, <4>1, <4>2 DEF Reply
        <4>6. PICK r \in DOMAIN request : r = m.r
          BY <4>2
        <4>7. /\ (Admin(request[r]) \/ Shared(request[r]))'
              /\ Authenticated(request[r].key)' /\ Subscribes(request[r])'
          BY <2>2, <4>2, <4>3, <4>4, <4>6 DEF Admin, Shared, Authenticated, Subscribes, Names
        <4> HIDE DEF q, m
        <4>8. request[r].from = t /\ request[r].device = d /\ outcome'[r].what = "ok"
          BY <4>1, <4>5, <4>6 DEF q
        <4> QED BY <2>2, <4>7, <4>8 DEF Subscribed
      <3> QED BY <3>1, <3>2
    <2> QED BY <1>3, <2>3, <2>4 DEF SubscriptionsOn, Params
  <1>4. CASE SubscriptionsOff
    <2>1. UNCHANGED notified
      BY <1>4 DEF SubscriptionsOff, net
    <2>2. subscribers'[d] # None /\ t \in subscribers'[d] => t \in Listeners(d)
      BY <1>1, <1>4 DEF SubscriptionsOff, Listeners
    <2> QED BY <1>2, <2>1, <2>2
  <1>5. CASE SubscriptionsEmit
    <2>1. UNCHANGED subscribers
      BY <1>5 DEF SubscriptionsEmit, caches
    <2>2. <<t, d>> \in notified' => <<t, d>> \in notified \/ t \in Listeners(d)
      BY <1>5 DEF SubscriptionsEmit
    <2> QED BY <1>2, <2>1, <2>2 DEF Listeners
  <1>6. CASE ~SubscriptionsOn /\ ~SubscriptionsOff /\ ~SubscriptionsEmit
    BY <1>2, <1>6, ListenersFrame DEF Listeners
  <1> QED BY <1>3, <1>4, <1>5, <1>6

\* Who listens to a device, or was ever notified of what it sent, has had a
\* request to subscribe to it accepted, with a key that users.auth accepts and
\* the rights that a command to the device needs, although the rights are read
\* by two services and may be taken away afterwards.
THEOREM OnlyAllowedListeners == Spec => []ListenersAuthorized
  <1>1. Init => ListenersAuthorized
    BY DEF Init, SubscriptionsStartup, ListenersAuthorized
  <1>2. ListenersAuthorized /\ ManagerInv /\ WayInv /\ [Next]_vars => ListenersAuthorized'
    BY ListenersChange DEF ListenersAuthorized, Subscribed
  <1>3. Init => WayInv
    BY DEF Init, WayInv, Waits
  <1> QED BY <1>1, <1>2, <1>3, ManagerInit, ManagerStep, WayStep, PTL DEF Spec

-----------------------------------------------------------------------------
(* The order of a subscribe and a later unsubscribe. *)

\* A message for handler h of s, at place a, is further on its way than one
\* for handler g of t at place b, or waits in front of it.
Ahead(s, h, a, t, g, b) ==
  \/ Stage(s, h) > Stage(t, g)
  \/ s = t /\ Stage(s, h) = Stage(t, g) /\ a < b

Ordered(box, k, j) ==
  \A s, t \in Services : \A a \in DOMAIN box[s], b \in DOMAIN box[t] :
    box[s][a].r = k /\ box[t][b].r = j => Ahead(s, box[s][a].h, a, t, box[t][b].h, b)

\* An unsubscribe does not overtake an earlier subscribe.
OrderInv ==
  \A k, j \in DOMAIN request :
    k < j /\ Subscribes(request[k]) /\ Unsubscribes(request[j]) => Ordered(inbox, k, j)

LEMMA StageService ==
  ASSUME NEW s, NEW h, NEW t, NEW g, Stage(s, h) = Stage(t, g), Stage(s, h) \in 1..6
  PROVE  s = t
  BY DEF Stage

LEMMA StageType == \A s, h : Stage(s, h) \in Nat
  BY DEF Stage

\* A hop takes a subscribe to a later stage, an unsubscribe to the next one.
LEMMA StageHop ==
  ASSUME NEW s, NEW to, NEW m, Passes(s, to, m), request[m.r] \in Calls,
         OnWay(request[m.r], s, Head(inbox[s]).h)
  PROVE  /\ Subscribes(request[m.r]) => Stage(to, m.h) > Stage(s, Head(inbox[s]).h)
         /\ Unsubscribes(request[m.r]) => Stage(to, m.h) = Stage(s, Head(inbox[s]).h) + 1
  <1> DEFINE q == request[m.r]
             h == Head(inbox[s]).h
             g == m.h
  <1>0. OnWay(q, s, h) /\ OnWay(q, to, g)
    BY WayHop
  <1>1. CASE /\ s = "router" /\ Names(q, to, g)
             /\ h = "service" \/ (h = "dispatcher" /\ q.method \in GuestMethods)
    <2>1. Subscribes(q) => \/ to \in {"devices", "connections"} /\ g = "subscribe"
                           \/ to = "subscriptions" /\ g = "on"
      BY <1>1 DEF Names, Subscribes
    <2>2. Unsubscribes(q) => to = "devices" /\ g = "unsubscribe"
      BY <1>1 DEF Names, Unsubscribes
    <2>3. Unsubscribes(q) => h = "service"
      BY <1>1 DEF Unsubscribes, GuestMethods
    <2> QED BY <1>1, <2>1, <2>2, <2>3 DEF Stage
  <1>2. CASE <<s, h, to, g>> \in Edges
    <2> HIDE DEF q, h, g
    <2>1. \/ s = "router" /\ h = "dispatcher" /\ to = "users" /\ g = "auth"
          \/ s = "users" /\ h = "auth" /\ to = "router" /\ g = "service"
          \/ s = "devices" /\ h \in {"subscribe", "unsubscribe"} /\ to = "connections" /\ g = h
          \/ s = "connections" /\ h = "subscribe" /\ to = "subscriptions" /\ g = "on"
          \/ s = "connections" /\ h = "unsubscribe" /\ to = "subscriptions" /\ g = "off"
          \/ Stage(s, h) = 0
      BY <1>2 DEF Edges, Stage
    <2>2. Stage(s, h) = 0 => ~Subscribes(q) /\ ~Unsubscribes(q)
      BY <1>0 DEF OnWay
    <2> QED BY <2>1, <2>2 DEF Stage, q, h, g
  <1> QED BY <1>1, <1>2 DEF Passes

LEMMA TakeOrdered ==
  ASSUME NEW box \in [Services -> Seq(Message)], NEW x \in Services, box[x] # <<>>,
         NEW k, NEW j, Ordered(box, k, j)
  PROVE  Ordered(Take(box, x), k, j)
  <1> DEFINE new == Take(box, x)
             Old(s, a) == IF s = x THEN a + 1 ELSE a
  <1>1. \A s \in Services : \A a \in DOMAIN new[s] :
          Old(s, a) \in DOMAIN box[s] /\ new[s][a] = box[s][Old(s, a)] /\ a \in Nat
    <2>1. new \in [Services -> Seq(Message)]
      BY TakeShape
    <2>2. \A s \in Services : DOMAIN new[s] \subseteq Nat
      BY <2>1
    <2> QED BY <2>2, TakeShape
  <1> HIDE DEF new
  <1> SUFFICES ASSUME NEW s \in Services, NEW t \in Services,
                      NEW a \in DOMAIN new[s], NEW b \in DOMAIN new[t],
                      new[s][a].r = k, new[t][b].r = j
               PROVE  Ahead(s, new[s][a].h, a, t, new[t][b].h, b)
    BY DEF Ordered, new
  <1>2. Ahead(s, new[s][a].h, Old(s, a), t, new[t][b].h, Old(t, b))
    <2>1. Old(s, a) \in DOMAIN box[s] /\ new[s][a] = box[s][Old(s, a)]
      BY <1>1
    <2>2. Old(t, b) \in DOMAIN box[t] /\ new[t][b] = box[t][Old(t, b)]
      BY <1>1
    <2> HIDE DEF Old
    <2> QED BY <2>1, <2>2 DEF Ordered
  <1>3. a \in Nat /\ b \in Nat
    BY <1>1
  <1> QED BY <1>2, <1>3 DEF Ahead

\* The place of a message after one was appended.
LEMMA PutOld ==
  ASSUME NEW box \in [Services -> Seq(Message)], NEW to \in Services, NEW m \in Message,
         NEW s \in Services, NEW a \in DOMAIN Put(box, to, m)[s]
  PROVE  \/ a \in DOMAIN box[s] /\ Put(box, to, m)[s][a] = box[s][a]
         \/ /\ s = to /\ Put(box, to, m)[s][a] = m
            /\ \A c \in DOMAIN box[s] : c < a
  <1>1. CASE s # to
    BY <1>1, PutShape
  <1>2. CASE s = to
    <2>1. /\ Len(box[to]) \in Nat /\ DOMAIN box[to] = 1..Len(box[to])
          /\ a \in 1..(Len(box[to]) + 1)
          /\ \A i \in DOMAIN box[to] : Put(box, to, m)[to][i] = box[to][i]
          /\ Put(box, to, m)[to][Len(box[to]) + 1] = m
      BY <1>2, PutShape
    <2>2. a \in DOMAIN box[to] \/ a = Len(box[to]) + 1
      BY <2>1
    <2>3. a = Len(box[to]) + 1 => \A c \in DOMAIN box[to] : c < a
      BY <2>1
    <2> QED BY <1>2, <2>1, <2>2, <2>3
  <1> QED BY <1>1, <1>2

\* A message of neither request, one of the first that is ahead of the second,
\* or one of the second behind the first.
LEMMA PutOrdered ==
  ASSUME NEW box \in [Services -> Seq(Message)], NEW to \in Services, NEW m \in Message,
         NEW k, NEW j, k # j, Ordered(box, k, j),
         m.r = k => \A t \in Services : \A b \in DOMAIN box[t] :
                      box[t][b].r = j => Stage(to, m.h) > Stage(t, box[t][b].h),
         m.r = j => \A s \in Services : \A a \in DOMAIN box[s] :
                      box[s][a].r = k =>
                        \/ Stage(s, box[s][a].h) > Stage(to, m.h)
                        \/ s = to /\ Stage(s, box[s][a].h) = Stage(to, m.h)
  PROVE  Ordered(Put(box, to, m), k, j)
  <1> DEFINE new == Put(box, to, m)
  <1>1. \A s \in Services : \A a \in DOMAIN new[s] :
          \/ a \in DOMAIN box[s] /\ new[s][a] = box[s][a]
          \/ s = to /\ new[s][a] = m /\ \A c \in DOMAIN box[s] : c < a
    BY PutOld
  <1> HIDE DEF new
  <1> SUFFICES ASSUME NEW s \in Services, NEW t \in Services,
                      NEW a \in DOMAIN new[s], NEW b \in DOMAIN new[t],
                      new[s][a].r = k, new[t][b].r = j
               PROVE  Ahead(s, new[s][a].h, a, t, new[t][b].h, b)
    BY DEF Ordered, new
  <1>2. CASE /\ a \in DOMAIN box[s] /\ new[s][a] = box[s][a]
             /\ b \in DOMAIN box[t] /\ new[t][b] = box[t][b]
    BY <1>2 DEF Ordered
  <1>3. CASE /\ a \in DOMAIN box[s] /\ new[s][a] = box[s][a]
             /\ t = to /\ new[t][b] = m /\ \A c \in DOMAIN box[t] : c < b
    <2>1. m.r = j
      BY <1>3
    <2>2. \/ Stage(s, box[s][a].h) > Stage(to, m.h)
          \/ s = to /\ Stage(s, box[s][a].h) = Stage(to, m.h)
      BY <1>3, <2>1
    <2> QED BY <1>3, <2>2 DEF Ahead
  <1>4. CASE /\ s = to /\ new[s][a] = m
             /\ b \in DOMAIN box[t] /\ new[t][b] = box[t][b]
    <2>1. m.r = k
      BY <1>4
    <2> QED BY <1>4, <2>1 DEF Ahead
  <1>5. CASE new[s][a] = m /\ new[t][b] = m
    BY <1>5
  <1> QED BY <1>1, <1>2, <1>3, <1>4, <1>5

\* The message that s handles has nothing of an earlier subscribe behind it.
LEMMA HeadOrdered ==
  ASSUME NEW box \in [Services -> Seq(Message)], NEW x \in Services, box[x] # <<>>,
         NEW k, NEW j, Ordered(box, k, j), NEW t \in Services, NEW b \in DOMAIN box[t]
  PROVE  /\ Head(box[x]).r = k /\ box[t][b].r = j
              => Stage(x, Head(box[x]).h) >= Stage(t, box[t][b].h)
         /\ Head(box[x]).r = j /\ box[t][b].r = k
              => Stage(t, box[t][b].h) > Stage(x, Head(box[x]).h)
  <1>1. 1 \in DOMAIN box[x] /\ box[x][1] = Head(box[x])
    BY TakeShape
  <1>2. b \in Nat \ {0}
    BY TakeShape
  <1>3. \A s, h : Stage(s, h) \in Nat
    BY StageType
  <1>4. Head(box[x]).r = k /\ box[t][b].r = j
          => Ahead(x, Head(box[x]).h, 1, t, box[t][b].h, b)
    BY <1>1 DEF Ordered
  <1>5. Head(box[x]).r = j /\ box[t][b].r = k
          => Ahead(t, box[t][b].h, b, x, Head(box[x]).h, 1)
    BY <1>1 DEF Ordered
  <1> QED BY <1>2, <1>3, <1>4, <1>5 DEF Ahead

LEMMA OrderStep ==
  ASSUME ManagerInv, WayInv, OrderInv, [Next]_vars
  PROVE  OrderInv'
  <1> SUFFICES ASSUME NEW k \in DOMAIN request', NEW j \in DOMAIN request', k < j,
                      Subscribes(request'[k]), Unsubscribes(request'[j])
               PROVE  Ordered(inbox', k, j)
    BY DEF OrderInv, Subscribes, Unsubscribes, Names
  <1>1. Shape
    BY StepShape DEF ManagerInv
  <1>2. inbox \in [Services -> Seq(Message)] /\ "router" \in Services
    BY DEF ManagerInv, TypeOK, Services
  <1>3. \A r \in DOMAIN request : r \in DOMAIN request' /\ request'[r] = request[r]
    BY SettledStep DEF Extends
  <1>4. \A r \in DOMAIN request' : r \in Nat \ {0}
    <2>1. TypeOK'
      BY ManagerStep DEF ManagerInv
    <2>2. request' \in Seq(Calls)
      BY <2>1 DEF TypeOK
    <2> QED BY <2>2
  \* Every message of a subscribe or an unsubscribe is on its way.
  <1>5. ASSUME NEW s \in Services, NEW a \in DOMAIN inbox[s], inbox[s][a].r \in {k, j}
        PROVE  /\ inbox[s][a].r \in DOMAIN request
               /\ Stage(s, inbox[s][a].h) \in 1..6
               /\ OnWay(request[inbox[s][a].r], s, inbox[s][a].h)
    <2> DEFINE m == inbox[s][a]
    <2>1. Waits(inbox, s, m)
      BY DEF Waits
    <2> HIDE DEF m
    <2>2. Fit(s, m)
      BY <2>1 DEF ManagerInv, MailInv
    <2>3. m.r \in Nat \ {0}
      BY <1>4, <1>5 DEF m
    <2>4. m.r \in DOMAIN request
      BY <2>2, <2>3 DEF Fit
    <2>5. OnWay(request[m.r], s, m.h)
      BY <2>1, <2>3 DEF WayInv
    <2>6. Subscribes(request[m.r]) \/ Unsubscribes(request[m.r])
      BY <1>3, <1>5, <2>4 DEF m
    <2>7. Stage(s, m.h) \in 1..6
      BY <2>5, <2>6 DEF OnWay
    <2> QED BY <2>4, <2>5, <2>7 DEF m
  <1>6. k \in DOMAIN request /\ j \in DOMAIN request => Ordered(inbox, k, j)
    BY <1>3 DEF OrderInv
  <1>7. CASE k \notin DOMAIN request \/ j \notin DOMAIN request
    <2>1. PICK c \in Calls : Arrive(c)
      <3>1. request' # request
        BY <1>7
      <3> QED BY <1>1, <3>1 DEF Shape, Hop, Finish, Drop, Post, DeviceAnswer
    <2>2. PICK r \in Nat : r = Len(request) + 1
      BY DEF ManagerInv, TypeOK
    <2>3. DOMAIN request' = DOMAIN request \cup {r} /\ \A x \in DOMAIN request : x < r
      BY <2>1, <2>2 DEF Arrive, ManagerInv, TypeOK
    <2>4. k \in DOMAIN request /\ j = r /\ j \notin DOMAIN request
      BY <1>4, <1>7, <2>3
    <2> DEFINE n == Task("dispatcher", r)
    <2>5. inbox' = Put(inbox, "router", n)
      BY <2>1, <2>2 DEF Arrive, ToRouter, Put
    <2>6. n \in Message /\ n.h = "dispatcher" /\ n.r = r
      BY TaskType, TypesOfHandlers
    <2> HIDE DEF n
    <2>7. Ordered(inbox, k, j)
      <3>1. \A t \in Services : \A b \in DOMAIN inbox[t] : inbox[t][b].r # j
        BY <1>5, <2>4
      <3> QED BY <3>1 DEF Ordered
    <2>8. ASSUME NEW s \in Services, NEW a \in DOMAIN inbox[s], inbox[s][a].r = k
          PROVE  \/ Stage(s, inbox[s][a].h) > Stage("router", n.h)
                 \/ s = "router" /\ Stage(s, inbox[s][a].h) = Stage("router", n.h)
      <3>1. Stage("router", n.h) = 1
        BY <2>6 DEF Stage
      <3>2. Stage(s, inbox[s][a].h) \in 1..6
        BY <1>5, <2>8
      <3>3. Stage(s, inbox[s][a].h) = 1 => s = "router"
        BY DEF Stage
      <3> QED BY <3>1, <3>2, <3>3
    <2>9. k # j /\ n.r # k
      BY <2>3, <2>4, <2>6
    <2>10. Ordered(Put(inbox, "router", n), k, j)
      BY <1>2, <2>6, <2>7, <2>8, <2>9, PutOrdered
    <2> QED BY <2>5, <2>10
  <1>8. CASE k \in DOMAIN request /\ j \in DOMAIN request
    <2>1. Ordered(inbox, k, j) /\ k # j
      BY <1>4, <1>6, <1>8
    <2>2. ASSUME NEW x \in Services, inbox[x] # <<>>
          PROVE  Ordered(Take(inbox, x), k, j) /\ Take(inbox, x) \in [Services -> Seq(Message)]
      BY <1>2, <2>1, <2>2, TakeOrdered, TakeShape
    \* A message of neither request arrives at the router.
    <2>3. ASSUME NEW n \in Message, n.r \notin {k, j}, inbox' = Put(inbox, "router", n)
          PROVE  Ordered(inbox', k, j)
      <3>1. Ordered(Put(inbox, "router", n), k, j)
        BY <1>2, <2>1, <2>3, PutOrdered
      <3> QED BY <2>3, <3>1
    <2>4. ASSUME NEW x \in Services, NEW to \in Services, NEW m \in Message, Hop(x, to, m)
          PROVE  Ordered(inbox', k, j)
      <3> DEFINE box == Take(inbox, x)
      <3>1. /\ inbox[x] # <<>> /\ inbox' = Put(box, to, m) /\ m.r = Head(inbox[x]).r
            /\ Passes(x, to, m)
        BY <2>4 DEF Hop
      <3>2. 1 \in DOMAIN inbox[x] /\ inbox[x][1] = Head(inbox[x])
        BY <1>2, <3>1, TakeShape
      <3>3. \A t \in Services : \A b \in DOMAIN box[t] :
              \E c \in DOMAIN inbox[t] : inbox[t][c] = box[t][b]
        <4> SUFFICES ASSUME NEW t \in Services, NEW b \in DOMAIN box[t]
                     PROVE  \E c \in DOMAIN inbox[t] : inbox[t][c] = box[t][b]
          OBVIOUS
        <4>1. CASE t = x
          <5>1. b + 1 \in DOMAIN inbox[t] /\ box[t][b] = inbox[t][b + 1]
            BY <1>2, <3>1, <4>1, TakeShape, SMTT(60)
          <5> QED BY <5>1
        <4>2. CASE t # x
          <5>1. box[t] = inbox[t]
            BY <1>2, <3>1, <4>2, TakeShape
          <5> QED BY <5>1
        <4> QED BY <4>1, <4>2
      <3>4. Ordered(box, k, j) /\ box \in [Services -> Seq(Message)]
        BY <2>2, <3>1
      <3> HIDE DEF box
      <3> DEFINE h == Head(inbox[x]).h
      <3>5. m.r \in {k, j} => /\ Stage(x, h) \in 1..6
                              /\ OnWay(request[m.r], x, h)
        BY <1>5, <3>1, <3>2
      <3>6. m.r \in {k, j} =>
              /\ m.r = k => Stage(to, m.h) > Stage(x, h)
              /\ m.r = j => Stage(to, m.h) = Stage(x, h) + 1
        <4>1. ASSUME m.r \in {k, j} PROVE request[m.r] \in Calls
          BY <1>8, <4>1, RequestType DEF ManagerInv
        <4> QED BY <1>3, <1>8, <3>1, <3>5, <4>1, StageHop
      <3>7. ASSUME m.r = k, NEW t \in Services, NEW b \in DOMAIN box[t], box[t][b].r = j
            PROVE  Stage(to, m.h) > Stage(t, box[t][b].h)
        <4>1. PICK c \in DOMAIN inbox[t] : inbox[t][c] = box[t][b]
          BY <3>3
        <4>2. Stage(x, h) >= Stage(t, inbox[t][c].h)
          BY <1>2, <2>1, <3>1, <3>7, <4>1, HeadOrdered
        <4>3. Stage(to, m.h) > Stage(x, h)
          BY <3>6, <3>7
        <4> HIDE DEF h
        <4> QED BY <4>1, <4>2, <4>3, StageType
      <3>8. ASSUME m.r = j, NEW s \in Services, NEW a \in DOMAIN box[s], box[s][a].r = k
            PROVE  \/ Stage(s, box[s][a].h) > Stage(to, m.h)
                   \/ s = to /\ Stage(s, box[s][a].h) = Stage(to, m.h)
        <4>1. PICK c \in DOMAIN inbox[s] : inbox[s][c] = box[s][a]
          BY <3>3
        <4>2. Stage(s, inbox[s][c].h) > Stage(x, h)
          BY <1>2, <2>1, <3>1, <3>8, <4>1, HeadOrdered
        <4>3. Stage(to, m.h) = Stage(x, h) + 1
          BY <3>6, <3>8
        <4>4. Stage(s, box[s][a].h) \in 1..6
          BY <1>5, <3>8, <4>1
        <4> HIDE DEF h
        <4>5. \/ Stage(s, box[s][a].h) > Stage(to, m.h)
              \/ Stage(s, box[s][a].h) = Stage(to, m.h)
          BY <4>1, <4>2, <4>3, StageType
        <4> QED BY <4>4, <4>5, StageService
      <3>9. Ordered(Put(box, to, m), k, j)
        BY <2>1, <3>4, <3>7, <3>8, PutOrdered
      <3> QED BY <3>1, <3>9
    <2>5. ASSUME NEW x \in Services, inbox[x] # <<>>, inbox' \in Ended(x)
          PROVE  Ordered(inbox', k, j)
      <3> DEFINE box == Take(inbox, x)
      <3>1. Ordered(box, k, j) /\ box \in [Services -> Seq(Message)]
        BY <2>2, <2>5
      <3>2. PICK n \in Message : n = Task("error", 0) /\ n.r = 0
        BY TaskType, TypesOfHandlers
      <3>3. inbox' = box \/ inbox' = Put(box, "router", n)
        BY <2>5, <3>2 DEF Ended
      <3>4. n.r # k /\ n.r # j
        BY <1>4, <3>2
      <3> HIDE DEF box
      <3>5. Ordered(Put(box, "router", n), k, j)
        BY <1>2, <2>1, <3>1, <3>4, PutOrdered
      <3> QED BY <3>1, <3>3, <3>5
    <2>10. ASSUME NEW x \in Services, Drop(x) PROVE Ordered(inbox', k, j)
      BY <2>2, <2>10 DEF Drop
    <2>6. ASSUME NEW c \in Calls, Arrive(c) PROVE Ordered(inbox', k, j)
      <3>1. PICK r \in Nat : r = Len(request) + 1
        BY DEF ManagerInv, TypeOK
      <3>2. r \notin DOMAIN request
        BY <3>1 DEF ManagerInv, TypeOK
      <3> DEFINE n == Task("dispatcher", r)
      <3>3. inbox' = Put(inbox, "router", n)
        BY <2>6, <3>1 DEF Arrive, ToRouter, Put
      <3>4. n \in Message /\ n.r = r
        BY TaskType, TypesOfHandlers
      <3> HIDE DEF n
      <3> QED BY <1>8, <2>3, <3>2, <3>3, <3>4
    <2>7. ASSUME NEW t \in Transports, NEW r \in DOMAIN request, DeviceAnswer(r, t)
          PROVE  Ordered(inbox', k, j)
      <3>1. outcome[r].what = "command"
        BY <2>7 DEF DeviceAnswer, ManagerInv, CommandsOpen
      <3>2. ForDevice(request[r]) /\ request[r].device \in Devices
        BY <3>1 DEF ManagerInv, OutcomesRight, Right, Allowed
      <3>3. r \notin {k, j}
        BY <1>3, <3>2 DEF ForDevice, Names, Subscribes, Unsubscribes
      <3>4. PICK d \in Devices \cup {None} : d = request[r].device
        BY <3>2
      <3>5. PICK x \in Nat : x = r
        BY RequestType DEF ManagerInv
      <3> DEFINE n == [Task("response", x) EXCEPT !.device = d, !.from = t]
      <3>6. inbox' = Put(inbox, "router", n)
        BY <2>7, <3>4, <3>5 DEF DeviceAnswer, ToRouter, Put
      <3>7. n \in Message /\ n.r = x
        BY <3>4, <3>5, TypesOfHandlers DEF Task, Message, NoGroups
      <3> HIDE DEF n
      <3> QED BY <2>3, <3>3, <3>5, <3>6, <3>7
    <2>8. ASSUME NEW n \in Message, Post(n) PROVE Ordered(inbox', k, j)
      BY <1>4, <2>3, <2>8 DEF Post
    <2>9. CASE UNCHANGED inbox
      BY <2>1, <2>9
    <2> QED BY <1>1, <2>4, <2>5, <2>6, <2>7, <2>8, <2>9, <2>10 DEF Shape, Finish
  <1> QED BY <1>7, <1>8

-----------------------------------------------------------------------------
(* What a subscribe has found is still there for the unsubscribe. *)

\* Nothing is asked for that would take away what a subscribe q has found.
Kept(q) ==
  \A r \in DOMAIN request :
    /\ ~(Names(request[r], "devices", "disconnect") /\ request[r].device = q.device)
    /\ ~(Names(request[r], "users", "delete") /\ request[r].login = q.key[1])

KeyKnown(q) == q.key \in AuthKeys \cup {ProfileKey}

\* What a subscribe of devices has found is still there.
ReachedInv ==
  \A i \in DOMAIN request :
    Names(request[i], "devices", "subscribe") /\ Kept(request[i]) =>
      /\ outcome[i].what = "ok" =>
           /\ KeyKnown(request[i]) /\ Registered(request[i].device)
           /\ Filled(request[i].device)
      /\ \A s \in Services : \A m :
           Waits(inbox, s, m) /\ m.r = i =>
             /\ Stage(s, m.h) >= 3 => KeyKnown(request[i])
             /\ Stage(s, m.h) >= 5 => Registered(request[i].device)
             /\ Stage(s, m.h) >= 6 => Filled(request[i].device)

\* Only two handlers of devices change the registrations.
LEMMA RegFrame ==
  ASSUME [Next]_vars, ~DevicesConnect, ~DevicesDisconnect
  PROVE  UNCHANGED reg
  <1> USE DEF caches
  <1>1. CASE RouterStep
    BY <1>1 DEF RouterStep, RouterRequest, RouterFromDevice, RouterService, RouterError
  <1>2. CASE UsersStep
    BY <1>2 DEF UsersStep, LoseTask, UsersAdd, UsersDelete, UsersList, UsersLogin, UsersAuth, Query
  <1>3. CASE GroupsStep
    BY <1>3 DEF GroupsStep, LoseTask, GroupsAdd, GroupsDelete, GroupsList, Query
  <1>4. CASE ConnectionsStep
    BY <1>4 DEF ConnectionsStep, LoseTask, ConnectionsAdd, ConnectionsDelete, ConnectionsList,
       ConnectionsGroups, ConnectionsDevices, ConnectionsSubscribe,
       ConnectionsUnsubscribe, WithDeviceGroups, Query
  <1>5. CASE SubscriptionsStep
    BY <1>5 DEF SubscriptionsStep, LoseTask, SubscriptionsAdd, SubscriptionsDelete,
       SubscriptionsList, SubscriptionsDevices, SubscriptionsGroups,
       SubscriptionsOn, SubscriptionsOff, SubscriptionsEmit, Query
  <1>6. CASE DevicesStep
    BY <1>6 DEF DevicesStep, LoseTask, DevicesAdd, DevicesDelete, DevicesList, DevicesDetail,
       DevicesControl, DevicesSubscribe, DevicesUnsubscribe,
       DevicesRequest, DevicesResponse, DevicesNotify, IfRegistered, Query
  <1>7. CASE ManagerInfo
    BY <1>7 DEF ManagerInfo
  <1>8. CASE Environment
    BY <1>8 DEF Environment, Arrive, Accept, CloseHandshake, ReadError,
       DeviceAnswer, DeviceNotify
  <1>9. CASE Terminate \/ UNCHANGED vars
    BY <1>9 DEF Terminate, vars
  <1> QED
    BY <1>1, <1>2, <1>3, <1>4, <1>5, <1>6, <1>7, <1>8, <1>9 DEF Next

\* The request that service s handles.
LEMMA HandledWay ==
  ASSUME ManagerInv, WayInv, NEW s \in Services, NEW h, Received(s, h), h \notin Plain
  PROVE  /\ inbox[s] # <<>> /\ Head(inbox[s]).h = h
         /\ Head(inbox[s]).r \in DOMAIN request
         /\ OnWay(request[Head(inbox[s]).r], s, h)
  <1>1. inbox[s] # <<>> /\ Head(inbox[s]).h = h /\ Head(inbox[s]).r \in DOMAIN request
    BY ReceivedFit DEF ManagerInv
  <1>2. Head(inbox[s]).r # 0
    BY <1>1, RequestType DEF ManagerInv
  <1>3. Waits(inbox, s, Head(inbox[s]))
    BY <1>1, TakeWaits DEF ManagerInv, TypeOK
  <1> QED BY <1>1, <1>2, <1>3 DEF WayInv

LEMMA KeyStays ==
  ASSUME ManagerInv, WayInv, [Next]_vars, NEW q, Kept(q), q.key \in AuthKeys \cup {ProfileKey}
  PROVE  q.key \in AuthKeys' \cup {ProfileKey}
  <1>1. CASE UsersDelete
    <2> DEFINE r == Head(inbox["users"]).r
    <2>1. r \in DOMAIN request /\ OnWay(request[r], "users", "delete")
      BY <1>1, HandledWay DEF UsersDelete, Services, Plain
    <2>2. Names(request[r], "users", "delete")
      BY <2>1 DEF OnWay
    <2>3. request[r].login # q.key[1]
      BY <2>1, <2>2 DEF Kept
    <2>4. \A e \in auth : e[2] \notin {request[r].login} \ {Empty} => e \in auth'
      BY <1>1 DEF UsersDelete, RemoveAuthLogin, Filled, Params
    <2>5. \A e \in auth : e[2] \in {e[1][1], Empty}
      BY DEF ManagerInv, HistoryInv
    <2> QED BY <2>3, <2>4, <2>5 DEF AuthKeys
  <1>2. CASE UsersAuth
    BY <1>2 DEF UsersAuth, AuthKeys
  <1>3. CASE UsersAdd
    BY <1>3 DEF UsersAdd, caches, AuthKeys
  <1>4. CASE ~UsersAdd /\ ~UsersDelete /\ ~UsersAuth
    BY <1>4, AuthFrame DEF AuthKeys
  <1> QED BY <1>1, <1>2, <1>3, <1>4

LEMMA RegistrationStays ==
  ASSUME ManagerInv, WayInv, [Next]_vars, NEW q \in Call, Kept(q), Registered(q.device)
  PROVE  q.device \notin Bad /\ reg'[q.device] # None
  <1>1. /\ q.device \in Devices /\ q.device \notin Bad /\ reg[q.device] # None
        /\ reg \in [Devices -> Transports \cup {None}]
    BY DEF Registered, Call, ManagerInv, TypeOK
  <1>2. CASE DevicesDisconnect
    <2> DEFINE r == Head(inbox["devices"]).r
    <2>1. r \in DOMAIN request /\ OnWay(request[r], "devices", "disconnect")
      BY <1>2, HandledWay DEF DevicesDisconnect, Services, Plain
    <2>2. Names(request[r], "devices", "disconnect")
      BY <2>1 DEF OnWay
    <2>3. request[r].device # q.device
      BY <2>1, <2>2 DEF Kept
    <2>4. reg'[q.device] = reg[q.device]
      BY <1>1, <1>2, <2>3 DEF DevicesDisconnect, RemoveReg
    <2> QED BY <1>1, <2>4
  <1>3. CASE DevicesConnect
    <2>1. reg'[q.device] = reg[q.device]
      BY <1>1, <1>3 DEF DevicesConnect, AddReg
    <2> QED BY <1>1, <2>1
  <1>4. CASE ~DevicesConnect /\ ~DevicesDisconnect
    BY <1>1, <1>4, RegFrame
  <1> QED BY <1>2, <1>3, <1>4

\* A request that has just arrived is being worked on.
LEMMA ArrivedBusy ==
  ASSUME ManagerInv, [Next]_vars, NEW r \in DOMAIN request', r \notin DOMAIN request
  PROVE  outcome'[r].what = "working"
  <1>1. PICK c \in Calls : Arrive(c)
    <2>1. request' # request
      OBVIOUS
    <2>2. Shape
      BY StepShape DEF ManagerInv
    <2> QED BY <2>1, <2>2 DEF Shape, Hop, Finish, Drop, Post, DeviceAnswer
  <1>2. /\ request \in Seq(Calls) /\ outcome \in [DOMAIN request -> Outcome]
        /\ Len(request) \in Nat /\ DOMAIN request = 1..Len(request)
    BY DEF ManagerInv, TypeOK
  <1>3. \A n \in Nat : \A f \in [1..n -> Outcome] : f \in Seq(Outcome) /\ Len(f) = n
    OBVIOUS
  <1>4. outcome \in Seq(Outcome) /\ Len(outcome) = Len(request)
    BY <1>2, <1>3
  <1>5. r = Len(request) + 1
    BY <1>1, <1>2 DEF Arrive
  <1>6. outcome' = Append(outcome, [what |-> "working", via |-> None])
    BY <1>1 DEF Arrive
  <1>7. outcome'[r] = [what |-> "working", via |-> None]
    BY <1>4, <1>5, <1>6
  <1> QED BY <1>7

\* What becomes of a request changes when its task is handled, or when the
\* device answers.
LEMMA OutcomeChange ==
  ASSUME ManagerInv, [Next]_vars, NEW r \in DOMAIN request, outcome'[r] # outcome[r]
  PROVE  \/ \E x \in Services, o \in Outcome :
              /\ Finish(x, o) /\ Head(inbox[x]).r = r /\ outcome'[r] = o
              /\ outcome[r].what \in Busy
              /\ \A y \in DOMAIN request : y # r => outcome'[y] = outcome[y]
         \/ outcome[r].what = "command" /\ outcome'[r].what = "answering"
  <1>1. Shape
    BY StepShape DEF ManagerInv
  <1>2. outcome \in [DOMAIN request -> Outcome] /\ request \in Seq(Calls)
    BY DEF ManagerInv, TypeOK
  <1>3. ASSUME NEW x \in Services, NEW o \in Outcome, Finish(x, o)
        PROVE  /\ Head(inbox[x]).r = r /\ outcome'[r] = o /\ outcome[r].what \in Busy
               /\ \A y \in DOMAIN request : y # r => outcome'[y] = outcome[y]
    <2>1. /\ Head(inbox[x]).r \in DOMAIN request
          /\ outcome' = [outcome EXCEPT ![Head(inbox[x]).r] = o]
          /\ inbox[x] # <<>>
      BY <1>3 DEF Finish
    <2>2. Head(inbox[x]).r = r
      BY <1>2, <2>1
    <2>3. outcome[r].what \in Busy
      BY <2>1, <2>2, HeadBusy DEF ManagerInv
    <2> QED BY <1>2, <2>1, <2>2, <2>3
  <1>4. ASSUME NEW t \in Transports, NEW x \in DOMAIN request, DeviceAnswer(x, t)
        PROVE  outcome[r].what = "command" /\ outcome'[r].what = "answering"
    <2>1. outcome[x].what = "command"
      BY <1>4 DEF DeviceAnswer, ManagerInv, CommandsOpen
    <2>2. outcome' = [outcome EXCEPT ![x] = [what |-> "answering", via |-> None]]
      BY <1>4 DEF DeviceAnswer
    <2> QED BY <1>2, <2>1, <2>2
  <1>5. ASSUME NEW c \in Calls, Arrive(c) PROVE FALSE
    <2>1. Len(request) \in Nat /\ DOMAIN request = 1..Len(request)
      BY <1>2
    <2>2. \A n \in Nat : \A f \in [1..n -> Outcome] : f \in Seq(Outcome) /\ Len(f) = n
      OBVIOUS
    <2>3. outcome \in Seq(Outcome) /\ Len(outcome) = Len(request)
      BY <1>2, <2>1, <2>2
    <2> QED BY <1>5, <2>1, <2>3 DEF Arrive
  <1> QED BY <1>1, <1>3, <1>4, <1>5 DEF Shape, Hop, Drop, Post

\* The hops of a subscribe of devices, and what they check.
LEMMA SubscribeHop ==
  ASSUME NEW x, NEW s, NEW m, Passes(x, s, m), request[m.r] \in Calls,
         Names(request[m.r], "devices", "subscribe"),
         OnWay(request[m.r], x, Head(inbox[x]).h)
  PROVE  /\ Stage(s, m.h) >= 3 =>
              Head(inbox[x]).h = "auth" \/ Stage(x, Head(inbox[x]).h) >= 3
         /\ Stage(s, m.h) >= 5 =>
              \/ x = "devices" /\ Head(inbox[x]).h = "subscribe"
              \/ Stage(x, Head(inbox[x]).h) >= 5
         /\ Stage(s, m.h) >= 6 => x = "connections" /\ Head(inbox[x]).h = "subscribe"
  <1> DEFINE q == request[m.r]
             h == Head(inbox[x]).h
             g == m.h
  <1>1. CASE /\ x = "router" /\ Names(q, s, g)
             /\ h = "service" \/ (h = "dispatcher" /\ q.method \in GuestMethods)
    <2>1. s = "devices" /\ g = "subscribe"
      BY <1>1 DEF Names
    <2>2. h = "service"
      BY <1>1 DEF Names, GuestMethods
    <2> QED BY <1>1, <2>1, <2>2 DEF Stage
  <1>2. CASE <<x, h, s, g>> \in Edges
    <2>1. OnWay(q, x, h) /\ Subscribes(q)
      BY DEF Subscribes
    <2> SUFFICES /\ Stage(s, g) >= 3 => h = "auth" \/ Stage(x, h) >= 3
                 /\ Stage(s, g) >= 5 =>
                      (x = "devices" /\ h = "subscribe") \/ Stage(x, h) >= 5
                 /\ Stage(s, g) >= 6 => x = "connections" /\ h = "subscribe"
      OBVIOUS
    <2> HIDE DEF q, h, g
    <2>2. \/ x = "router" /\ h = "dispatcher" /\ s = "users" /\ g = "auth"
          \/ x = "users" /\ h = "auth" /\ s = "router" /\ g = "service"
          \/ x = "devices" /\ h \in {"subscribe", "unsubscribe"} /\ s = "connections" /\ g = h
          \/ x = "connections" /\ h = "subscribe" /\ s = "subscriptions" /\ g = "on"
          \/ x = "connections" /\ h = "unsubscribe" /\ s = "subscriptions" /\ g = "off"
          \/ Stage(x, h) = 0
      BY <1>2 DEF Edges, Stage
    <2>3. Stage(x, h) # 0 /\ h \notin {"unsubscribe", "off"}
      BY <2>1 DEF OnWay
    <2>4. CASE x = "router" /\ h = "dispatcher" /\ s = "users" /\ g = "auth"
      BY <2>4 DEF Stage
    <2>5. CASE x = "users" /\ h = "auth" /\ s = "router" /\ g = "service"
      BY <2>5 DEF Stage
    <2>6. CASE x = "devices" /\ h = "subscribe" /\ s = "connections" /\ g = h
      BY <2>6 DEF Stage
    <2>7. CASE x = "connections" /\ h = "subscribe" /\ s = "subscriptions" /\ g = "on"
      BY <2>7 DEF Stage
    <2> QED BY <2>2, <2>3, <2>4, <2>5, <2>6, <2>7
  <1> QED BY <1>1, <1>2 DEF Passes

LEMMA ReachedStep ==
  ASSUME ManagerInv, WayInv, ReachedInv, [Next]_vars
  PROVE  ReachedInv'
  <1> SUFFICES ASSUME NEW i \in DOMAIN request', NEW q, q = request'[i],
                      Names(q, "devices", "subscribe"), Kept(q)'
               PROVE  /\ outcome'[i].what = "ok" =>
                           /\ q.key \in AuthKeys' \cup {ProfileKey} /\ Filled(q.device)
                           /\ q.device \notin Bad /\ reg'[q.device] # None
                      /\ \A s \in Services : \A m :
                           Waits(inbox', s, m) /\ m.r = i =>
                             /\ Stage(s, m.h) >= 3 => q.key \in AuthKeys' \cup {ProfileKey}
                             /\ Stage(s, m.h) >= 5 => q.device \notin Bad /\ reg'[q.device] # None
                             /\ Stage(s, m.h) >= 6 => Filled(q.device)
    BY DEF ReachedInv, Kept, Names, KeyKnown, Registered, AuthKeys
  <1>1. /\ \A r \in DOMAIN request : r \in DOMAIN request' /\ request'[r] = request[r]
        /\ i # 0
    <2>1. \A r \in DOMAIN request : r \in DOMAIN request' /\ request'[r] = request[r]
      BY SettledStep DEF Extends
    <2>2. request' \in Seq(Calls)
      BY ManagerStep DEF ManagerInv, TypeOK
    <2>3. i # 0
      BY <2>2
    <2> QED BY <2>1, <2>3
  <1>3. CASE i \notin DOMAIN request
    <2>1. outcome'[i].what # "ok"
      BY <1>3, ArrivedBusy
    <2>2. ASSUME NEW s \in Services, NEW m, Waits(inbox', s, m), m.r = i
          PROVE  Stage(s, m.h) = 1
      <3>1. m.r # 0
        BY <1>1, <2>2
      <3>2. ~Waits(inbox, s, m)
        BY <1>3, <2>2, <3>1 DEF ManagerInv, MailInv, Fit
      <3>3. s = "router" /\ m.h = "dispatcher"
        BY <1>3, <2>2, <3>1, <3>2, NewMail, HopHead
      <3> QED BY <3>3 DEF Stage
    <2> QED BY <2>1, <2>2
  <1>4. CASE i \in DOMAIN request
    <2>1. request[i] = q /\ q \in Call /\ q \in Calls
      BY <1>1, <1>4, RequestType DEF ManagerInv
    <2>2. Kept(q)
      BY <1>1 DEF Kept, Names
    <2>3. KeyKnown(q) => q.key \in AuthKeys' \cup {ProfileKey}
      BY <2>2, KeyStays DEF KeyKnown
    <2>4. Registered(q.device) => q.device \notin Bad /\ reg'[q.device] # None
      BY <2>1, <2>2, RegistrationStays
    <2>5. /\ outcome[i].what = "ok" =>
               KeyKnown(q) /\ Registered(q.device) /\ Filled(q.device)
          /\ \A s \in Services : \A m :
               Waits(inbox, s, m) /\ m.r = i =>
                 /\ Stage(s, m.h) >= 3 => KeyKnown(q)
                 /\ Stage(s, m.h) >= 5 => Registered(q.device)
                 /\ Stage(s, m.h) >= 6 => Filled(q.device)
      BY <1>4, <2>1, <2>2 DEF ReachedInv
    <2>6. ASSUME outcome'[i].what = "ok"
          PROVE  KeyKnown(q) /\ Registered(q.device) /\ Filled(q.device)
      <3>1. CASE outcome'[i] = outcome[i]
        BY <2>5, <2>6, <3>1
      <3>2. CASE outcome'[i] # outcome[i]
        <4>1. PICK x \in Services, o \in Outcome :
                Finish(x, o) /\ Head(inbox[x]).r = i /\ outcome'[i] = o
          BY <1>4, <2>6, <3>2, OutcomeChange
        <4> DEFINE h == Head(inbox[x]).h
        <4>2. inbox[x] # <<>> /\ Ends(x, "ok")
          BY <2>6, <4>1 DEF Finish
        <4>3. Waits(inbox, x, Head(inbox[x])) /\ Fit(x, Head(inbox[x]))
          BY <4>2, HeadFit, TakeWaits DEF ManagerInv, TypeOK
        <4>5. OnWay(q, x, h)
          BY <1>1, <2>1, <4>1, <4>3 DEF WayInv
        <4>6. Stage(x, h) \in 1..6 /\ h \notin {"unsubscribe", "off"}
          BY <4>5 DEF OnWay, Subscribes
        <4>7. h \notin Guarded \ {"off"}
          BY <4>2 DEF Ends
        <4> HIDE DEF h
        <4>8. Stage(x, h) = 6
          BY <4>6, <4>7 DEF Stage, Guarded
        <4> QED BY <2>5, <4>1, <4>3, <4>8 DEF h
      <3> QED BY <3>1, <3>2
    <2>7. ASSUME NEW s \in Services, NEW m, Waits(inbox', s, m), m.r = i
          PROVE  /\ Stage(s, m.h) >= 3 => q.key \in AuthKeys' \cup {ProfileKey}
                 /\ Stage(s, m.h) >= 5 => q.device \notin Bad /\ reg'[q.device] # None
                 /\ Stage(s, m.h) >= 6 => Filled(q.device)
      <3>1. CASE Waits(inbox, s, m)
        BY <2>3, <2>4, <2>5, <2>7, <3>1
      <3>2. ASSUME NEW x \in Services, Hop(x, s, m)
            PROVE  /\ Stage(s, m.h) >= 3 => q.key \in AuthKeys' \cup {ProfileKey}
                   /\ Stage(s, m.h) >= 5 => q.device \notin Bad /\ reg'[q.device] # None
                   /\ Stage(s, m.h) >= 6 => Filled(q.device)
        <4> DEFINE n == Head(inbox[x])
        <4>1. Waits(inbox, x, n) /\ n.r = m.r
          BY <1>1, <2>7, <3>2, HopHead
        <4>2. OnWay(q, x, n.h)
          BY <1>1, <2>1, <2>7, <4>1 DEF WayInv
        <4>3. /\ Passes(x, s, m)
              /\ n.h = "auth" => q.key \in AuthKeys' \cup {ProfileKey}
              /\ x = "devices" /\ n.h = "subscribe" => Registered(q.device)
              /\ x = "connections" /\ n.h = "subscribe" => Filled(q.device)
          BY <2>1, <2>7, <3>2 DEF Hop, Passes
        <4>4. /\ Stage(s, m.h) >= 3 => n.h = "auth" \/ Stage(x, n.h) >= 3
              /\ Stage(s, m.h) >= 5 =>
                   (x = "devices" /\ n.h = "subscribe") \/ Stage(x, n.h) >= 5
              /\ Stage(s, m.h) >= 6 => x = "connections" /\ n.h = "subscribe"
          BY <2>1, <2>7, <4>2, <4>3, SubscribeHop
        <4>5. /\ Stage(x, n.h) >= 3 => KeyKnown(q)
              /\ Stage(x, n.h) >= 5 => Registered(q.device)
          BY <2>5, <2>7, <4>1
        <4> QED BY <2>3, <2>4, <4>3, <4>4, <4>5
      <3>3. outcome[i].what # "command"
        <4>1. ~Allowed(q)
          BY DEF Allowed, ForDevice, Names
        <4> QED BY <1>4, <2>1, <4>1 DEF ManagerInv, OutcomesRight, Right
      <3> QED BY <1>1, <1>4, <2>7, <3>1, <3>2, <3>3, NewMail
    <2> QED BY <2>3, <2>4, <2>6, <2>7
  <1> QED BY <1>3, <1>4

-----------------------------------------------------------------------------
(* The session does not listen any more. *)

\* The session of q does not listen to its device, and has not asked to.
Quiet(q) ==
  /\ \A k \in DOMAIN request :
       /\ Subscribes(request[k])
       /\ request[k].from = q.from /\ request[k].device = q.device
       => outcome[k].what \notin Busy
  /\ q.device \in Devices => q.from \notin Listeners(q.device)

\* A subscribe i and the unsubscribe j that should end it.
Pair(i, j) ==
  /\ i < j
  /\ Names(request[i], "devices", "subscribe") /\ Unsubscribes(request[j])
  /\ request[j].from = request[i].from /\ request[j].device = request[i].device
  /\ request[j].key = request[i].key
  /\ Undisturbed(request[i], j)

\* Unless the subscribe fails, the unsubscribe is on its way or has done its
\* work.
FinalInv ==
  \A i, j \in DOMAIN request :
    Pair(i, j) /\ outcome[i].what \in Busy \cup {"ok"} =>
      outcome[j].what \in Busy \/ Quiet(request[i])

\* Only a subscribe that was on its way makes a session listen.
LEMMA ListenGain ==
  ASSUME ManagerInv, WayInv, [Next]_vars, NEW d \in Devices, NEW t,
         t \notin Listeners(d), subscribers'[d] # None, t \in subscribers'[d]
  PROVE  \E k \in DOMAIN request :
           /\ Subscribes(request[k]) /\ outcome[k].what \in Busy
           /\ request[k].from = t /\ request[k].device = d
  <1>1. subscribers \in [Devices -> (SUBSET Transports) \cup {None}]
    BY DEF ManagerInv, TypeOK
  <1>2. CASE SubscriptionsOn
    <2> DEFINE k == Head(inbox["subscriptions"]).r
    <2>1. /\ inbox["subscriptions"] # <<>> /\ k \in DOMAIN request
          /\ OnWay(request[k], "subscriptions", "on") /\ "subscriptions" \in Services
      BY <1>2, HandledWay DEF SubscriptionsOn, Services, Plain
    <2>2. Subscribes(request[k])
      BY <2>1 DEF OnWay
    <2>3. outcome[k].what \in Busy
      BY <2>1, HeadBusy DEF ManagerInv
    <2>4. request[k].from = t /\ request[k].device = d
      <3> DEFINE q == request[k]
      <3>1. \/ UNCHANGED subscribers
            \/ subscribers' = [subscribers EXCEPT ![q.device] = Listeners(q.device) \cup {q.from}]
        BY <1>2 DEF SubscriptionsOn, Params
      <3>2. subscribers' # subscribers
        BY DEF Listeners
      <3> HIDE DEF q
      <3>3. subscribers' = [subscribers EXCEPT ![q.device] = Listeners(q.device) \cup {q.from}]
        BY <3>1, <3>2
      <3>4. d = q.device
        BY <1>1, <3>3 DEF Listeners
      <3>5. subscribers'[d] = Listeners(d) \cup {q.from}
        BY <1>1, <3>3, <3>4
      <3>6. t = q.from
        BY <3>5 DEF Listeners
      <3> QED BY <3>4, <3>6 DEF q
    <2> HIDE DEF k
    <2> QED BY <2>1, <2>2, <2>3, <2>4
  <1>3. CASE SubscriptionsOff
    BY <1>1, <1>3 DEF SubscriptionsOff, Listeners
  <1>4. CASE SubscriptionsEmit
    BY <1>4 DEF SubscriptionsEmit, caches, Listeners
  <1>5. CASE ~SubscriptionsOn /\ ~SubscriptionsOff /\ ~SubscriptionsEmit
    BY <1>5, ListenersFrame DEF Listeners
  <1> QED BY <1>2, <1>3, <1>4, <1>5

\* A request that is being worked on waits somewhere on its way.
LEMMA BusyWaits ==
  ASSUME ManagerInv, WayInv, NEW r \in DOMAIN request, outcome[r].what \in Busy
  PROVE  \E s \in Services : \E a \in DOMAIN inbox[s] :
           /\ inbox[s][a].r = r /\ Waits(inbox, s, inbox[s][a])
           /\ Fit(s, inbox[s][a]) /\ OnWay(request[r], s, inbox[s][a].h)
  <1>1. InOnePlace(inbox, Services, r)
    BY DEF ManagerInv, TaskPlaces
  <1>2. PICK s \in Services : \E a \in DOMAIN inbox[s] : inbox[s][a].r = r
    BY <1>1, OnePlaceElim
  <1>3. PICK a \in DOMAIN inbox[s] : inbox[s][a].r = r
    BY <1>2
  <1>4. Waits(inbox, s, inbox[s][a])
    BY DEF Waits
  <1>5. Fit(s, inbox[s][a])
    BY <1>4 DEF ManagerInv, MailInv
  <1>6. r # 0
    BY RequestType DEF ManagerInv
  <1>7. OnWay(request[r], s, inbox[s][a].h)
    BY <1>3, <1>4, <1>6 DEF WayInv
  <1> QED BY <1>3, <1>4, <1>5, <1>7

\* While the subscribe has not failed, the unsubscribe behind it cannot fail.
LEMMA OnlyOffEnds ==
  ASSUME ManagerInv, WayInv, OrderInv, ReachedInv,
         NEW i \in DOMAIN request, NEW j \in DOMAIN request, Pair(i, j),
         outcome[i].what \in Busy \cup {"ok"},
         NEW x \in Services, NEW o \in Outcome, Finish(x, o), Head(inbox[x]).r = j
  PROVE  x = "subscriptions" /\ Head(inbox[x]).h = "off"
  <1> DEFINE h == Head(inbox[x]).h
             q == request[i]
  <1>1. /\ inbox \in [Services -> Seq(Message)] /\ inbox[x] # <<>> /\ Ends(x, o.what)
    BY DEF Finish, ManagerInv, TypeOK
  <1>2. Waits(inbox, x, Head(inbox[x])) /\ Fit(x, Head(inbox[x]))
    BY <1>1, HeadFit, TakeWaits DEF ManagerInv
  <1>3. OnWay(request[j], x, h)
    <2>1. j # 0
      BY RequestType DEF ManagerInv
    <2> QED BY <1>2, <2>1 DEF WayInv
  <1>4. Stage(x, h) \in 1..6 /\ h \notin {"subscribe", "on"}
    BY <1>3 DEF OnWay, Pair
  <1>5. /\ i < j /\ Subscribes(q) /\ Unsubscribes(request[j])
        /\ request[j].key = q.key /\ request[j].device = q.device
        /\ Names(q, "devices", "subscribe")
    BY DEF Pair, Subscribes
  <1>6. Kept(q)
    BY DEF Pair, Undisturbed, Kept
  <1>7. /\ outcome[i].what = "ok" =>
             KeyKnown(q) /\ Registered(q.device) /\ Filled(q.device)
        /\ \A s \in Services : \A m :
             Waits(inbox, s, m) /\ m.r = i =>
               /\ Stage(s, m.h) >= 3 => KeyKnown(q)
               /\ Stage(s, m.h) >= 5 => Registered(q.device)
               /\ Stage(s, m.h) >= 6 => Filled(q.device)
    BY <1>5, <1>6 DEF ReachedInv
  <1>8. KeyKnown(q) \/ Authenticated(q.key) => q.key # None
    BY ManagerAssumption DEF KeyKnown, AuthKeys, ManagerInv, HistoryInv, Authenticated, Bad
  <1>9. /\ q.key # None
        /\ Stage(x, h) >= 2 => KeyKnown(q)
        /\ Stage(x, h) >= 4 => Registered(q.device)
        /\ Stage(x, h) >= 5 => Filled(q.device)
    <2>1. CASE outcome[i].what = "ok"
      BY <1>7, <1>8, <2>1
    <2>2. CASE outcome[i].what \in Busy
      <3>1. PICK s \in Services : \E a \in DOMAIN inbox[s] :
               /\ inbox[s][a].r = i /\ Waits(inbox, s, inbox[s][a])
               /\ Fit(s, inbox[s][a]) /\ OnWay(q, s, inbox[s][a].h)
        BY <2>2, BusyWaits
      <3>2. PICK a \in DOMAIN inbox[s] :
               /\ inbox[s][a].r = i /\ Waits(inbox, s, inbox[s][a])
               /\ Fit(s, inbox[s][a]) /\ OnWay(q, s, inbox[s][a].h)
        BY <3>1
      <3>3. Ordered(inbox, i, j)
        BY <1>5 DEF OrderInv
      <3>4. Stage(s, inbox[s][a].h) > Stage(x, h)
        BY <1>1, <3>2, <3>3, HeadOrdered
      <3>5. /\ Stage(s, inbox[s][a].h) >= 3 => KeyKnown(q)
            /\ Stage(s, inbox[s][a].h) >= 5 => Registered(q.device)
            /\ Stage(s, inbox[s][a].h) >= 6 => Filled(q.device)
        BY <1>7, <3>2
      <3> DEFINE g == inbox[s][a].h
      <3>6. Stage(s, g) \in 2..6
        <4>1. Stage(s, g) \in 1..6
          BY <1>5, <3>2 DEF OnWay
        <4> HIDE DEF g, h
        <4> QED BY <1>4, <3>4, <4>1 DEF g
      <3>7. g \notin {"dispatcher", "login", "info"}
        <4> HIDE DEF g
        <4> QED BY <3>6 DEF Stage
      <3>8. q.key # None
        <4>1. i # 0
          BY RequestType DEF ManagerInv
        <4> QED BY <1>8, <3>2, <3>7, <4>1 DEF Fit
      <3> HIDE DEF g, h
      <3> QED BY <1>4, <3>4, <3>5, <3>6, <3>8 DEF g
    <2> QED BY <2>1, <2>2
  <1>10. /\ h \notin {"dispatcher", "auth", "service"}
         /\ ~(x = "devices" /\ h = "unsubscribe")
         /\ ~(x = "connections" /\ h = "unsubscribe")
    <2>1. h # "dispatcher"
      <3>1. Len(request[j].method) > 1
        BY <1>5 DEF Unsubscribes
      <3> QED BY <1>1, <1>5, <1>9, <3>1 DEF Ends
    <2>2. h # "service"
      BY <1>1, <1>5 DEF Ends, Unsubscribes
    <2>3. h = "auth" => FALSE
      <3>1. h = "auth" => Stage(x, h) >= 2
        <4> HIDE DEF h
        <4> QED BY <1>4 DEF Stage
      <3>2. h = "auth" => ~KeyKnown(q)
        BY <1>1, <1>5 DEF Ends, KeyKnown
      <3> QED BY <1>9, <3>1, <3>2
    <2>4. x = "devices" /\ h = "unsubscribe" => FALSE
      <3>1. x = "devices" /\ h = "unsubscribe" => Stage(x, h) = 4
        BY DEF Stage
      <3>2. x = "devices" /\ h = "unsubscribe" => ~Registered(q.device)
        BY <1>1, <1>5 DEF Ends
      <3> HIDE DEF h
      <3> QED BY <1>9, <3>1, <3>2
    <2>5. x = "connections" /\ h = "unsubscribe" => FALSE
      <3>1. x = "connections" /\ h = "unsubscribe" => Stage(x, h) = 5
        BY DEF Stage
      <3>2. x = "connections" /\ h = "unsubscribe" => ~Filled(q.device)
        BY <1>1, <1>5 DEF Ends
      <3> HIDE DEF h
      <3> QED BY <1>9, <3>1, <3>2
    <2> QED BY <2>1, <2>2, <2>3, <2>4, <2>5
  <1> HIDE DEF h
  <1>11. x = "subscriptions" /\ h = "off"
    BY <1>4, <1>10 DEF Stage
  <1> QED BY <1>11 DEF h

\* Once that has happened no earlier subscribe is on its way any more.
LEMMA NoneBefore ==
  ASSUME ManagerInv, WayInv, OrderInv, NEW k \in DOMAIN request, NEW j \in DOMAIN request,
         k < j, Subscribes(request[k]), Unsubscribes(request[j]),
         inbox["subscriptions"] # <<>>, Head(inbox["subscriptions"]).r = j,
         Head(inbox["subscriptions"]).h = "off"
  PROVE  outcome[k].what \notin Busy
  <1> SUFFICES ASSUME outcome[k].what \in Busy PROVE FALSE
    OBVIOUS
  <1>1. PICK s \in Services : \E a \in DOMAIN inbox[s] :
          inbox[s][a].r = k /\ OnWay(request[k], s, inbox[s][a].h)
    BY BusyWaits
  <1>2. PICK a \in DOMAIN inbox[s] :
          inbox[s][a].r = k /\ OnWay(request[k], s, inbox[s][a].h)
    BY <1>1
  <1>3. Stage(s, inbox[s][a].h) \in 1..6
    BY <1>2 DEF OnWay
  <1>4. Ordered(inbox, k, j)
    BY DEF OrderInv
  <1>5. Stage(s, inbox[s][a].h) > Stage("subscriptions", "off")
    <2>1. inbox \in [Services -> Seq(Message)] /\ "subscriptions" \in Services
      BY DEF ManagerInv, TypeOK, Services
    <2> QED BY <1>2, <1>4, <2>1, HeadOrdered
  <1>6. Stage("subscriptions", "off") = 6
    BY DEF Stage
  <1> QED BY <1>3, <1>5, <1>6

LEMMA FinalStep ==
  ASSUME ManagerInv, WayInv, OrderInv, ReachedInv, FinalInv, [Next]_vars
  PROVE  FinalInv'
  <1> SUFFICES ASSUME NEW i \in DOMAIN request', NEW j \in DOMAIN request', Pair(i, j)',
                      outcome'[i].what \in Busy \cup {"ok"}, outcome'[j].what \notin Busy
               PROVE  Quiet(request[i])'
    BY DEF FinalInv, Busy
  <1>1. /\ \A r \in DOMAIN request : r \in DOMAIN request' /\ request'[r] = request[r]
        /\ \A r \in DOMAIN request' : r \in Nat
        /\ \A r \in DOMAIN request' \ DOMAIN request : outcome'[r].what = "working"
        /\ \A r \in DOMAIN request, s \in DOMAIN request' : s < r => s \in DOMAIN request
    <2>1. request \in Seq(Calls) /\ request' \in Seq(Calls)
      BY ManagerStep DEF ManagerInv, TypeOK
    <2>2. \A r \in DOMAIN request' : r \in Nat
      BY <2>1
    <2>3. \A r \in DOMAIN request, s \in DOMAIN request' : s < r => s \in DOMAIN request
      BY <2>1
    <2> QED BY <2>2, <2>3, SettledStep, ArrivedBusy DEF Extends
  <1>2. j \in DOMAIN request /\ i \in DOMAIN request
    <2>1. j \in DOMAIN request
      BY <1>1 DEF Busy
    <2> QED BY <1>1, <2>1 DEF Pair
  <1>3. PICK q \in Call : q = request[i] /\ q = request'[i]
    BY <1>1, <1>2, RequestType DEF ManagerInv
  <1>4. Pair(i, j)
    BY <1>1, <1>2 DEF Pair, Undisturbed, Names, Unsubscribes
  <1>5. ASSUME NEW k \in DOMAIN request', Subscribes(request'[k]),
               request'[k].from = q.from, request'[k].device = q.device
        PROVE  k < j /\ k \in DOMAIN request /\ request[k] = request'[k]
    <2>1. k < j
      BY <1>3, <1>5 DEF Pair, Undisturbed, Subscribes, Names
    <2> QED BY <1>1, <1>2, <2>1
  \* A subscribe is never written to a device as a command.
  <1>6. \A k \in DOMAIN request : Subscribes(request[k]) => outcome[k].what # "command"
    <2>1. \A y : Subscribes(y) => ~Allowed(y)
      BY DEF Subscribes, Allowed, ForDevice, Names
    <2> QED BY <2>1 DEF ManagerInv, OutcomesRight, Right
  <1>7. outcome[i].what \in Busy \cup {"ok"}
    <2>1. CASE outcome'[i] = outcome[i]
      BY <2>1
    <2>2. CASE outcome'[i] # outcome[i]
      <3>1. Subscribes(request[i])
        BY <1>4 DEF Pair, Subscribes
      <3> QED BY <1>2, <1>6, <2>2, <3>1, OutcomeChange
    <2> QED BY <2>1, <2>2
  <1> SUFFICES /\ \A k \in DOMAIN request' :
                    /\ Subscribes(request'[k])
                    /\ request'[k].from = q.from /\ request'[k].device = q.device
                    => outcome'[k].what \notin Busy
               /\ q.device \in Devices =>
                    subscribers'[q.device] = None \/ q.from \notin subscribers'[q.device]
    BY <1>3 DEF Quiet, Listeners, Subscribes, Names
  <1>8. CASE outcome[j].what \notin Busy
    <2>1. /\ \A k \in DOMAIN request :
               /\ Subscribes(request[k])
               /\ request[k].from = q.from /\ request[k].device = q.device
               => outcome[k].what \notin Busy
          /\ q.device \in Devices => q.from \notin Listeners(q.device)
      BY <1>2, <1>3, <1>4, <1>7, <1>8 DEF FinalInv, Quiet
    <2>2. ASSUME NEW k \in DOMAIN request', Subscribes(request'[k]),
                 request'[k].from = q.from, request'[k].device = q.device
          PROVE  outcome'[k].what \notin Busy
      <3>1. k \in DOMAIN request /\ request[k] = request'[k]
        BY <1>5, <2>2
      <3>2. outcome[k].what \notin Busy \cup {"command"}
        BY <1>6, <2>1, <2>2, <3>1
      <3> QED BY <3>1, <3>2, SettledStep
    <2>3. ASSUME q.device \in Devices, subscribers'[q.device] # None,
                 q.from \in subscribers'[q.device]
          PROVE  FALSE
      BY <2>1, <2>3, ListenGain
    <2> QED BY <2>2, <2>3
  <1>9. CASE outcome[j].what \in Busy
    <2>1. PICK x \in Services, o \in Outcome :
            /\ Finish(x, o) /\ Head(inbox[x]).r = j
            /\ \A y \in DOMAIN request : y # j => outcome'[y] = outcome[y]
      <3>1. outcome'[j] # outcome[j]
        BY <1>9
      <3> QED BY <1>2, <1>9, <3>1, OutcomeChange DEF Busy
    <2>2. x = "subscriptions" /\ Head(inbox[x]).h = "off"
      BY <1>2, <1>4, <1>7, <2>1, OnlyOffEnds
    <2>3. inbox["subscriptions"] # <<>> /\ Ends("subscriptions", o.what)
      BY <2>1, <2>2 DEF Finish
    <2>4. ASSUME NEW k \in DOMAIN request', Subscribes(request'[k]),
                 request'[k].from = q.from, request'[k].device = q.device
          PROVE  outcome'[k].what \notin Busy
      <3>1. k < j /\ k \in DOMAIN request /\ request[k] = request'[k]
        BY <1>5, <2>4
      <3>2. Unsubscribes(request[j])
        BY <1>4 DEF Pair
      <3>3. outcome[k].what \notin Busy
        BY <1>2, <2>1, <2>2, <2>3, <2>4, <3>1, <3>2, NoneBefore
      <3>4. k # j
        BY <1>1, <3>1
      <3> QED BY <2>1, <3>1, <3>3, <3>4
    <2>5. q.device \in Devices =>
            subscribers'[q.device] = None \/ q.from \notin subscribers'[q.device]
      <3>1. request[j].device = q.device /\ request[j].from = q.from
        BY <1>3, <1>4 DEF Pair
      <3> QED BY <2>1, <2>2, <2>3, <3>1 DEF Ends
    <2> QED BY <2>4, <2>5
  <1> QED BY <1>8, <1>9

UnsubscribeInv == ManagerInv /\ WayInv /\ OrderInv /\ ReachedInv /\ FinalInv

LEMMA UnsubscribeInit == Init => UnsubscribeInv
  <1> SUFFICES ASSUME Init PROVE UnsubscribeInv
    OBVIOUS
  <1>1. ManagerInv
    BY ManagerInit
  <1>2. request = <<>> /\ \A s \in Services : DOMAIN inbox[s] = {}
    BY DEF Init
  <1>3. WayInv
    BY <1>2 DEF WayInv, Waits
  <1>4. OrderInv /\ ReachedInv /\ FinalInv
    BY <1>2 DEF OrderInv, ReachedInv, FinalInv
  <1> QED BY <1>1, <1>3, <1>4 DEF UnsubscribeInv

\* When a subscribe of a session to a device has succeeded and the unsubscribe
\* it sent after it is done, the session does not listen to the device any
\* more, however the hops of the two, and of all other requests, interleave:
\* the unsubscribe overtakes no earlier subscribe, finds the user and the
\* device that the subscribe has found, and so gets to the list of listeners.
THEOREM UnsubscribeEndsListening == Spec => []UnsubscribeIsFinal
  <1>1. UnsubscribeInv /\ [Next]_vars => UnsubscribeInv'
    BY ManagerStep, WayStep, OrderStep, ReachedStep, FinalStep DEF UnsubscribeInv
  <1>2. UnsubscribeInv => UnsubscribeIsFinal
    <2> SUFFICES ASSUME UnsubscribeInv, NEW i \in DOMAIN request, NEW j \in DOMAIN request,
                        Pair(i, j), outcome[i].what = "ok", outcome[j].what \notin Busy
                 PROVE  \/ subscribers[request[i].device] = None
                        \/ request[i].from \notin subscribers[request[i].device]
      BY DEF UnsubscribeIsFinal, Pair, Unsubscribes
    <2>1. Quiet(request[i])
      BY DEF UnsubscribeInv, FinalInv
    <2>2. request[i].device \in Devices
      <3>1. Kept(request[i]) /\ Names(request[i], "devices", "subscribe")
        BY DEF Pair, Undisturbed, Kept
      <3>2. Registered(request[i].device)
        BY <3>1 DEF UnsubscribeInv, ReachedInv
      <3>3. request[i] \in Call
        BY RequestType DEF UnsubscribeInv, ManagerInv
      <3> QED BY <3>2, <3>3 DEF Registered, Call
    <2> QED BY <2>1, <2>2 DEF Quiet, Listeners
  <1> QED BY <1>1, <1>2, UnsubscribeInit, PTL DEF Spec
=============================================================================
