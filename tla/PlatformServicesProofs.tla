----------------------- MODULE PlatformServicesProofs -----------------------
(***************************************************************************)
(* Theorems about the services of the platform, for any sessions, owners,  *)
(* managers, requests and databases: the types, that no request is lost or *)
(* doubled, who a reply reaches, that the caches of connected managers and *)
(* of trusted urls follow the table, and who requests are forwarded to.    *)
(***************************************************************************)
EXTENDS PlatformServices, InboxTheorems

-----------------------------------------------------------------------------
(* The messages: what every one that waits in an inbox satisfies. *)

\* The handlers of messages that belong to no request.
Plain == {"error", "notify"}

\* The handlers a request reaches without a profile-key.
Keyless == {"dispatcher", "signup", "login", "info", "request"}

\* A message for handler m.h of service s: it has a request, unless it is
\* Plain or the notification of a manager; a task at a handler that takes none
\* was misnamed; the answer of a manager carries the session of the client;
\* what the router and profile.auth have checked.
Fit(s, m) ==
  /\ m.h \in Plain => m.r = 0
  /\ m.h \notin Plain \cup {"response"} => m.r \in DOMAIN request
  /\ m.r # 0 => m.r \in DOMAIN request
  /\ Misplaced(m) => Misnames(request[m.r])
  /\ m.h = "response" /\ m.r # 0 /\ m.from # None => m.to = request[m.r].from
  /\ m.h \in {"auth", "service"} => Keyed(request[m.r])
  /\ m.h \notin Keyless \cup Plain \cup {"response", "auth"} =>
       Authenticated(request[m.r].key)
  /\ m.h = "connect" => Invokes(request[m.r], "managers", "connect")

MailInv == \A s \in Services : \A m : Waits(inbox, s, m) => Fit(s, m)

\* Session t has connected as manager k with an authenticated key of its owner.
ConnectedAs(k, t) ==
  \E i \in DOMAIN request :
    /\ Invokes(request[i], "managers", "connect")
    /\ request[i].from = t /\ request[i].mkey = k
    /\ Authenticated(request[i].key) /\ request[i].key[1] = k[1]
    /\ outcome[i] = "ok"

\* Every registration comes from such a request.
RegisteredByOwner ==
  \A k \in ManagerKeys : reg[k] # None => ConnectedAs(k, reg[k])

\* Every cached key has been accepted.
AuthRight == \A k \in auth : Authenticated(k)

-----------------------------------------------------------------------------
(* What a step does to the messages, whatever else it does. *)

Results == {"ok", "error", "forwarded", "answered", "silent", "lost"}

\* The results that no reply of the platform comes with.
Unanswered == {"forwarded", "silent", "lost"}

\* Service s passes the request of its message on.
Hop(s, to, m) ==
  /\ inbox[s] # <<>> /\ s # to
  /\ inbox' = Put(Take(inbox, s), to, m)
  /\ m.r = Head(inbox[s]).r /\ Fit(to, m)
  /\ UNCHANGED <<request, outcome, replies, commands>>

\* The inbox of s without its head, and what skip reports to the router.
Ended(s) == {Take(inbox, s), Put(Take(inbox, s), "router", Task("error", 0))}

\* Service s ends the request of its message, or writes it to a manager.
Finish(s, what) ==
  LET r == Head(inbox[s]).r IN
  /\ inbox[s] # <<>> /\ r \in DOMAIN request
  /\ inbox' \in Ended(s)
  /\ outcome' = [outcome EXCEPT ![r] = what]
  /\ what = "lost" => Misnames(request[r])
  /\ IF what \in Unanswered
       THEN UNCHANGED replies
       ELSE replies' = [replies EXCEPT ![r] = Append(@, request[r].from)]
  /\ \/ UNCHANGED commands
     \/ /\ what = "forwarded"
        /\ \E t \in Transports : /\ ConnectedAs(request[r].manager, t)
                                 /\ commands' = commands \cup {<<r, t>>}
  /\ UNCHANGED request

\* Service s handles a message without a request.
Drop(s) ==
  /\ inbox[s] # <<>> /\ Head(inbox[s]).r = 0
  /\ inbox' = Take(inbox, s)
  /\ UNCHANGED <<request, outcome, replies, commands>>

\* A session sends the router a message without a request.
Post(m) ==
  /\ inbox' = Put(inbox, "router", m)
  /\ m.r = 0 /\ Fit("router", m)
  /\ UNCHANGED <<request, outcome, replies, commands>>

Shape ==
  \/ \E s, to \in Services, m \in Message : Hop(s, to, m)
  \/ \E s \in Services, what \in Results : Finish(s, what)
  \/ \E s \in Services : Drop(s)
  \/ \E c \in Calls : Arrive(c)
  \/ \E t \in Transports : \E r \in DOMAIN request : ManagerAnswer(r, t)
  \/ \E m \in Message : Post(m)
  \/ UNCHANGED <<inbox, request, outcome, replies, commands>>

LEMMA HeadFit ==
  ASSUME TypeOK, MailInv, NEW s \in Services, inbox[s] # <<>>
  PROVE  Head(inbox[s]) \in Message /\ Fit(s, Head(inbox[s]))
  <1>1. inbox \in [Services -> Seq(Message)]
    BY DEF TypeOK
  <1>2. Head(inbox[s]) \in Message
    BY <1>1, TakeShape
  <1>3. Waits(inbox, s, Head(inbox[s]))
    BY <1>1, TakeWaits
  <1> QED BY <1>2, <1>3 DEF MailInv

\* The request of a message is a Call.
LEMMA RequestType ==
  ASSUME TypeOK, NEW r \in DOMAIN request
  PROVE  request[r] \in Calls /\ request[r] \in Call /\ r \in Nat \ {0}
  BY PlatformAssumption DEF TypeOK

\* A handler that is not Plain, and is not misplaced, has a task, or the answer
\* or notification of a manager; it reads the parameters it needs.
LEMMA ReceivedFit ==
  ASSUME TypeOK, MailInv, NEW s \in Services, NEW h, Received(s, h)
  PROVE  /\ inbox[s] # <<>> /\ Head(inbox[s]).h = h
         /\ Head(inbox[s]) \in Message /\ Fit(s, Head(inbox[s]))
         /\ h \in Plain => Head(inbox[s]).r = 0
         /\ h \notin Plain \cup {"response"} =>
              /\ Head(inbox[s]).r \in DOMAIN request
              /\ Reads(Params(s), s, h) \cap Bad = {}
              /\ h = "auth" => Params(s).key # Wrong
         /\ h = "response" /\ Head(inbox[s]).r # 0 => Head(inbox[s]).from # None
  <1>1. /\ inbox[s] # <<>> /\ Head(inbox[s]).h = h
        /\ ~Misplaced(Head(inbox[s])) /\ ~Throws(s)
    BY DEF Received
  <1>2. Head(inbox[s]) \in Message /\ Fit(s, Head(inbox[s]))
    BY <1>1, HeadFit
  <1>3. ASSUME h \notin Plain \cup {"response"}
        PROVE  /\ Head(inbox[s]).r \in DOMAIN request
               /\ Reads(Params(s), s, h) \cap Bad = {}
               /\ h = "auth" => Params(s).key # Wrong
    <2>1. Head(inbox[s]).r \in DOMAIN request
      BY <1>1, <1>2, <1>3 DEF Fit
    <2>2. Head(inbox[s]).r # 0
      BY <2>1, RequestType
    <2>3. Reads(Params(s), s, h) \cap Bad = {}
      BY <1>1, <2>2 DEF Throws
    <2>4. h = "auth" => Params(s).key # Wrong
      BY <1>1, <2>2 DEF Throws
    <2> QED BY <2>1, <2>3, <2>4
  <1>4. h = "response" /\ Head(inbox[s]).r # 0 => Head(inbox[s]).from # None
    BY <1>1 DEF Misplaced, TakesNoTask
  <1> QED BY <1>1, <1>2, <1>3, <1>4 DEF Fit

LEMMA HandlersAreTypes ==
  ASSUME NEW s \in Services, NEW h \in Handlers(s)
  PROVE  h \in MessageTypes
  BY DEF MessageTypes

LEMMA TypesOfHandlers ==
  /\ {"dispatcher", "service", "error", "notify"} \subseteq MessageTypes
  /\ {"signup", "login", "auth", "info"} \subseteq MessageTypes
  /\ {"request", "response"} \subseteq MessageTypes
  <1>1. /\ {"signup", "login", "auth"} \subseteq Handlers("profile")
        /\ {"add", "delete", "list", "connect", "disconnect",
            "request", "response"} \subseteq Handlers("managers")
        /\ {"info"} \subseteq Handlers("manager")
    BY DEF Handlers
  <1>2. {"profile", "managers", "manager"} \subseteq Services
    BY DEF Services
  <1> QED BY <1>1, <1>2, HandlersAreTypes DEF MessageTypes

\* The messages that are made of a request, an error and an answer.
LEMMA TaskType ==
  ASSUME NEW h \in MessageTypes, NEW r \in Nat
  PROVE  /\ Task(h, r) \in Message /\ Task(h, r).h = h /\ Task(h, r).r = r
         /\ Task(h, r).from = None
  BY DEF Task, Message

LEMMA TaskMessage ==
  ASSUME NEW h \in MessageTypes, NEW r \in Nat
  PROVE  \E n \in Message :
           n = Task(h, r) /\ n.h = h /\ n.r = r /\ n.from = None
  <1> DEFINE a == Task(h, r)
  <1>1. a \in Message /\ a.h = h /\ a.r = r /\ a.from = None
    BY TaskType
  <1>2. a = Task(h, r)
    OBVIOUS
  <1> HIDE DEF a
  <1> QED BY <1>1, <1>2

LEMMA FromMessage ==
  ASSUME NEW h \in MessageTypes, NEW r \in Nat, NEW t \in Transports
  PROVE  \E n \in Message :
           n = [Task(h, r) EXCEPT !.from = t] /\ n.h = h /\ n.r = r
  <1> DEFINE a == [Task(h, r) EXCEPT !.from = t]
  <1>1. a \in Message /\ a.h = h /\ a.r = r
    BY DEF Task, Message
  <1>2. a = [Task(h, r) EXCEPT !.from = t]
    OBVIOUS
  <1> HIDE DEF a
  <1> QED BY <1>1, <1>2

\* What a manager at session t sends to the client at session to.
Answer(h, r, to, t) == [Task(h, r) EXCEPT !.to = to, !.from = t]

LEMMA AnswerMessage ==
  ASSUME NEW h \in MessageTypes, NEW r \in Nat, NEW t \in Transports,
         NEW to \in Transports \cup {None}
  PROVE  \E n \in Message :
           n = Answer(h, r, to, t) /\ n.h = h /\ n.r = r /\ n.to = to /\ n.from = t
  <1> DEFINE a == Answer(h, r, to, t)
  <1>1. a \in Message /\ a.h = h /\ a.r = r /\ a.to = to /\ a.from = t
    BY DEF Answer, Task, Message
  <1>2. a = Answer(h, r, to, t)
    OBVIOUS
  <1> HIDE DEF a
  <1> QED BY <1>1, <1>2

\* The request that service s handles, and what is known of it.
LEMMA ParamsType ==
  ASSUME TypeOK, MailInv, NEW s \in Services, NEW h, Received(s, h),
         h \notin Plain \cup {"response"}
  PROVE  /\ inbox[s] # <<>> /\ Head(inbox[s]).h = h
         /\ Head(inbox[s]).r \in DOMAIN request /\ Head(inbox[s]).r \in Nat \ {0}
         /\ Params(s) \in Call /\ Params(s) = request[Head(inbox[s]).r]
         /\ Reads(Params(s), s, h) \cap Bad = {}
         /\ h \notin Keyless => Params(s).key \in Keys
         /\ h \notin Keyless \cup {"auth"} => Authenticated(Params(s).key)
         /\ h = "connect" => Invokes(Params(s), "managers", "connect")
  <1>1. /\ inbox[s] # <<>> /\ Head(inbox[s]).h = h /\ Fit(s, Head(inbox[s]))
        /\ Head(inbox[s]).r \in DOMAIN request
        /\ Reads(Params(s), s, h) \cap Bad = {}
        /\ h = "auth" => Params(s).key # Wrong
    BY ReceivedFit
  <1>2. /\ Params(s) \in Call /\ Head(inbox[s]).r \in Nat \ {0}
        /\ Params(s) = request[Head(inbox[s]).r]
    BY <1>1, RequestType DEF Params
  <1>3. h \notin Keyless \cup {"auth"} => Authenticated(Params(s).key)
    BY <1>1, <1>2 DEF Fit
  <1>4. h = "auth" => Params(s).key \in Keys
    BY <1>1, <1>2 DEF Fit, Keyed, Call, Bad
  <1>5. h = "connect" => Invokes(Params(s), "managers", "connect")
    BY <1>1, <1>2 DEF Fit
  <1> QED BY <1>1, <1>2, <1>3, <1>4, <1>5 DEF Authenticated

LEMMA OwnerType ==
  ASSUME NEW q, q.key \in Keys
  PROVE  OwnerOf(q) \in Logins
  BY DEF Keys, OwnerOf

LEMMA ReplyFinish ==
  ASSUME TypeOK, MailInv, NEW s \in Services, NEW h, Received(s, h),
         h \notin Plain \cup {"response"},
         NEW what \in {"ok", "error"},
         Reply(s, what), UNCHANGED <<request, commands>>
  PROVE  Shape
  <1>1. inbox[s] # <<>> /\ Head(inbox[s]).r \in DOMAIN request
    BY ParamsType
  <1>2. Finish(s, what)
    BY <1>1 DEF Finish, Reply, Done, Take, Ended, Unanswered
  <1> QED BY <1>2 DEF Shape, Results

\* The loss of a task that a handler does not take.
LEMMA LoseShape ==
  ASSUME TypeOK, MailInv, NEW s \in Services, s # "router", LoseTask(s)
  PROVE  Shape
  <1> DEFINE m == Head(inbox[s])
  <1>1. inbox[s] # <<>> /\ Misplaced(m)
    BY DEF LoseTask
  <1>2. m.r \in DOMAIN request /\ Misnames(request[m.r])
    BY <1>1, HeadFit DEF Fit, Misplaced
  <1>3. inbox' \in Ended(s)
    <2>1. CASE Done(s)
      BY <2>1 DEF Done, Ended, Take
    <2>2. CASE inbox' = [inbox EXCEPT ![s] = Tail(@), !["router"] = Append(@, Task("error", 0))]
      <3>1. inbox' = Put(Take(inbox, s), "router", Task("error", 0))
        <4> PICK n : n = Task("error", 0)
          OBVIOUS
        <4>1. inbox' = [inbox EXCEPT ![s] = Tail(@), !["router"] = Append(@, n)]
          BY <2>2
        <4>2. inbox' = Put(Take(inbox, s), "router", n)
          BY <4>1 DEF Put, Take
        <4> QED BY <4>2
      <3> QED BY <3>1 DEF Ended
    <2> QED BY <2>1, <2>2 DEF LoseTask
  <1>4. /\ outcome' = [outcome EXCEPT ![m.r] = "lost"]
        /\ UNCHANGED <<request, replies, commands>>
    BY DEF LoseTask, net
  <1>5. Finish(s, "lost")
    BY <1>1, <1>2, <1>3, <1>4 DEF Finish, Unanswered
  <1> QED BY <1>5 DEF Shape, Results

LEMMA ForwardHop ==
  ASSUME TypeOK, MailInv, NEW s \in Services, NEW to \in Services, s # to,
         inbox[s] # <<>>, NEW m \in Message, m.r = Head(inbox[s]).r, Fit(to, m),
         Forward(s, to, m), UNCHANGED <<request, commands>>
  PROVE  Shape
  <1>1. inbox' = Put(Take(inbox, s), to, m)
    BY DEF Forward, Put, Take
  <1>2. Hop(s, to, m)
    BY <1>1 DEF Hop, Forward
  <1> QED BY <1>2 DEF Shape

LEMMA QueryShape ==
  ASSUME TypeOK, MailInv, NEW s \in Services, NEW h, h \notin Plain \cup {"response"},
         NEW possible, Query(s, h, possible)
  PROVE  Shape
  BY ReplyFinish DEF Query, net

LEMMA RouterShape ==
  ASSUME TypeOK, MailInv, RouterStep
  PROVE  Shape
  <1> DEFINE m == Head(inbox["router"])
             r == m.r
             q == request[r]
  <1>0. "router" \in Services /\ "profile" \in Services /\ "managers" \in Services
    BY DEF Services
  <1>1. CASE RouterRequest
    <2>1. Received("router", "dispatcher") /\ UNCHANGED <<request, commands>>
      BY <1>1 DEF RouterRequest, net
    <2>2. inbox["router"] # <<>> /\ r \in DOMAIN request /\ r \in Nat \ {0}
      BY <1>0, <2>1, ParamsType DEF Plain
    <2>3. CASE q.manager # None /\ Forward("router", "managers", Task("request", r))
      <3>0. "request" \in MessageTypes
        BY TypesOfHandlers
      <3>1. PICK n \in Message :
              n = Task("request", r) /\ n.h = "request" /\ n.r = r /\ n.from = None
        BY <2>2, <3>0, TaskMessage
      <3>2. Fit("managers", n)
        BY <2>2, <3>1 DEF Fit, Plain, Keyless, Misplaced, TakesNoTask, Standard
      <3> QED BY <1>0, <2>1, <2>2, <2>3, <3>1, <3>2, ForwardHop
    <2>4. CASE /\ q.manager = None /\ q.key # None /\ Len(q.method) > 1
               /\ Forward("router", "profile", Task("auth", r))
      <3>0. "auth" \in MessageTypes
        BY TypesOfHandlers
      <3>1. PICK n \in Message : n = Task("auth", r) /\ n.h = "auth" /\ n.r = r
        BY <2>2, <3>0, TaskMessage
      <3>2. Fit("profile", n)
        BY <2>2, <2>4, <3>1 DEF Fit, Plain, Keyed, Misplaced, TakesNoTask, Standard
      <3> QED BY <1>0, <2>1, <2>2, <2>4, <3>1, <3>2, ForwardHop
    <2>5. CASE q.method \in GuestMethods /\ Forward("router", q.method[1], Task(q.method[2], r))
      <3>1. /\ q.method[1] \in {"profile", "manager"}
            /\ q.method[2] \in {"signup", "login", "info"}
        <4> HIDE DEF q
        <4> QED BY <2>5 DEF GuestMethods
      <3>2. q.method[2] \in MessageTypes
        BY <3>1, TypesOfHandlers
      <3>3. PICK n \in Message : n = Task(q.method[2], r) /\ n.h = q.method[2] /\ n.r = r
        BY <2>2, <3>2, TaskMessage
      <3>4. Fit(q.method[1], n)
        BY <2>2, <3>1, <3>3 DEF Fit, Plain, Keyless, Misplaced, TakesNoTask, Standard
      <3>5. q.method[1] \in Services /\ q.method[1] # "router"
        BY <3>1 DEF Services
      <3> QED BY <1>0, <2>1, <2>2, <2>5, <3>3, <3>4, <3>5, ForwardHop
    <2>6. CASE Reply("router", "error")
      BY <1>0, <2>1, <2>6, ReplyFinish DEF Plain
    <2> QED BY <1>1, <2>3, <2>4, <2>5, <2>6 DEF RouterRequest, Params
  <1>2. CASE RouterFromManager
    <2>1. /\ inbox["router"] # <<>> /\ m.h \in {"response", "notify"}
          /\ m \in Message /\ Fit("router", m)
      BY <1>0, <1>2, ReceivedFit DEF RouterFromManager
    <2>2. m.r # 0 => m.h = "response" /\ m.from # None
      BY <1>0, <1>2, ReceivedFit DEF RouterFromManager, Plain
    <2>3. PICK n \in Message :
            /\ n = [m EXCEPT !.h = "response"]
            /\ n.h = "response" /\ n.r = m.r /\ n.to = m.to /\ n.from = m.from
      <3> DEFINE a == [m EXCEPT !.h = "response"]
      <3>1. "response" \in MessageTypes
        BY TypesOfHandlers
      <3>2. a \in Message /\ a.h = "response" /\ a.r = m.r /\ a.to = m.to /\ a.from = m.from
        BY <2>1, <3>1 DEF Message
      <3> HIDE DEF a
      <3>3. \E n \in Message : /\ n = a /\ n.h = "response" /\ n.r = m.r
                               /\ n.to = m.to /\ n.from = m.from
        BY <3>2
      <3> QED BY <3>3 DEF a
    <2>4. Fit("managers", n)
      BY <2>1, <2>2, <2>3 DEF Fit, Plain, Misplaced
    <2> QED BY <1>0, <1>2, <2>1, <2>3, <2>4, ForwardHop DEF RouterFromManager, net
  <1>3. CASE RouterService
    <2>1. Received("router", "service") /\ UNCHANGED <<request, commands>>
      BY <1>3 DEF RouterService, net
    <2>2. /\ inbox["router"] # <<>> /\ m.h = "service" /\ r \in DOMAIN request
          /\ r \in Nat \ {0} /\ Authenticated(q.key)
      BY <1>0, <2>1, ParamsType DEF Plain, Keyless
    <2>3. Keyed(q)
      BY <1>0, <2>2, HeadFit DEF Fit
    <2>4. CASE /\ q.method[1] \in Services \ {"router"}
               /\ q.method[2] \in Handlers(q.method[1])
               /\ Forward("router", q.method[1], Task(q.method[2], r))
      <3>2. q.method[1] \in {"profile", "managers", "manager"}
        BY <2>4 DEF Services
      <3>3. /\ q.method[2] \notin Plain \cup {"service", "dispatcher"}
            /\ q.method[2] = "connect" => q.method[1] = "managers"
        BY <2>4, <3>2 DEF Handlers, Standard, Plain
      <3>4. q.method[2] \in MessageTypes
        BY <2>4, HandlersAreTypes
      <3>5. PICK n \in Message :
              n = Task(q.method[2], r) /\ n.h = q.method[2] /\ n.r = r /\ n.from = None
        BY <2>2, <3>4, TaskMessage
      <3>6. Fit(q.method[1], n)
        <4>1. Misplaced(n) => Misnames(q)
          BY <2>3, <3>5 DEF Misplaced, Misnames
        <4>2. n.h = "connect" => Invokes(q, "managers", "connect")
          BY <2>3, <3>3, <3>5 DEF Invokes, Keyed
        <4> QED BY <2>2, <2>3, <3>3, <3>5, <4>1, <4>2 DEF Fit
      <3> QED BY <1>0, <2>1, <2>2, <2>4, <3>5, <3>6, ForwardHop
    <2>5. CASE Reply("router", "error")
      BY <1>0, <2>1, <2>5, ReplyFinish DEF Plain
    <2> QED BY <1>3, <2>4, <2>5 DEF RouterService, Params
  <1>4. CASE RouterError
    <2>1. inbox["router"] # <<>> /\ m.h = "error"
      BY <1>4 DEF RouterError, Received
    <2>2. m.r = 0
      BY <1>0, <2>1, HeadFit DEF Fit, Plain
    <2>3. Drop("router")
      BY <1>4, <2>1, <2>2 DEF Drop, RouterError, Done, Take
    <2> QED BY <1>0, <2>3 DEF Shape
  <1> QED BY <1>1, <1>2, <1>3, <1>4 DEF RouterStep

\* What profile.auth accepts.
LEMMA MatchesRight ==
  ASSUME NEW k \in Keys, Matches(k)
  PROVE  Authenticated(k)
  BY DEF Matches, Authenticated

LEMMA ProfileShape ==
  ASSUME TypeOK, MailInv, AuthRight, ProfileStep
  PROVE  Shape
  <1>0. "router" \in Services /\ "profile" \in Services
    BY DEF Services
  <1>1. CASE ProfileSignup
    <2>1. /\ Received("profile", "signup") /\ UNCHANGED <<request, commands>>
          /\ \E what \in {"ok", "error"} : Reply("profile", what)
      BY <1>1 DEF ProfileSignup, net
    <2> QED BY <1>0, <2>1, ReplyFinish DEF Plain
  <1>2. CASE ProfileLogin
    BY <1>0, <1>2, QueryShape DEF ProfileLogin, Plain
  <1>3. CASE ProfileAuth
    <2> DEFINE r == Head(inbox["profile"]).r
               k == Params("profile").key
    <2>1. Received("profile", "auth") /\ UNCHANGED <<request, commands>>
      BY <1>3 DEF ProfileAuth, net
    <2>2. /\ inbox["profile"] # <<>> /\ Head(inbox["profile"]).h = "auth"
          /\ r \in DOMAIN request /\ r \in Nat \ {0}
          /\ k = request[r].key /\ k \in Keys
      BY <1>0, <2>1, ParamsType DEF Plain, Keyless
    <2>3. CASE (k \in auth \/ Matches(k)) /\ Forward("profile", "router", Task("service", r))
      <3>0. "service" \in MessageTypes
        BY TypesOfHandlers
      <3>1. PICK n \in Message :
              n = Task("service", r) /\ n.h = "service" /\ n.r = r /\ n.from = None
        BY <2>2, <3>0, TaskMessage
      <3>2. Fit("router", n)
        <4>1. Keyed(request[r])
          BY <1>0, <2>2, HeadFit DEF Fit
        <4>2. Authenticated(request[r].key)
          BY <2>2, <2>3, MatchesRight DEF AuthRight
        <4> QED BY <2>2, <3>1, <4>1, <4>2 DEF Fit, Plain, Misplaced, TakesNoTask, Standard
      <3> QED BY <1>0, <2>1, <2>2, <2>3, <3>1, <3>2, ForwardHop
    <2>4. CASE Reply("profile", "error")
      BY <1>0, <2>1, <2>4, ReplyFinish DEF Plain
    <2> QED BY <1>3, <2>3, <2>4 DEF ProfileAuth
  <1>4. CASE LoseTask("profile")
    BY <1>0, <1>4, LoseShape
  <1> QED BY <1>1, <1>2, <1>3, <1>4 DEF ProfileStep

LEMMA ManagersShape ==
  ASSUME TypeOK, MailInv, RegisteredByOwner, ManagersStep
  PROVE  Shape
  <1> DEFINE m == Head(inbox["managers"])
             r == m.r
  <1>0. "managers" \in Services
    BY DEF Services
  <1>1. ASSUME NEW h \in {"add", "delete", "connect"}, Received("managers", h),
               UNCHANGED <<request, commands>>,
               \E what \in {"ok", "error"} : Reply("managers", what)
        PROVE  Shape
    BY <1>0, <1>1, ReplyFinish DEF Plain
  <1>2. CASE ManagersAdd \/ ManagersDelete \/ ManagersConnect
    <2>1. /\ \E h \in {"add", "delete", "connect"} : Received("managers", h)
          /\ UNCHANGED <<request, commands>>
          /\ \E what \in {"ok", "error"} : Reply("managers", what)
      BY <1>2 DEF ManagersAdd, ManagersDelete, ManagersConnect, net
    <2> QED BY <1>1, <2>1
  <1>3. CASE ManagersList
    BY <1>0, <1>3, QueryShape DEF ManagersList, Plain
  <1>4. CASE ManagersDisconnect
    <2>1. inbox["managers"] # <<>> /\ r \in DOMAIN request
      BY <1>0, <1>4, ParamsType DEF ManagersDisconnect, Plain
    <2>2. Finish("managers", "silent")
      BY <1>4, <2>1 DEF Finish, ManagersDisconnect, Done, Take, Ended, Unanswered, net
    <2> QED BY <1>0, <2>2 DEF Shape, Results
  <1>5. CASE ManagersRequest
    <2> DEFINE q == Params("managers")
               t == reg[q.manager]
    <2>1. Received("managers", "request") /\ UNCHANGED request
      BY <1>5 DEF ManagersRequest
    <2>2. /\ inbox["managers"] # <<>> /\ r \in DOMAIN request
          /\ q.manager \in ManagerKeys /\ q = request[r]
      <3>1. /\ inbox["managers"] # <<>> /\ r \in DOMAIN request
            /\ q \in Call /\ q = request[r]
            /\ Reads(q, "managers", "request") \cap Bad = {}
        BY <1>0, <2>1, ParamsType DEF Plain
      <3>2. Reads(q, "managers", "request") = {q.manager}
        BY DEF Reads
      <3> HIDE DEF q
      <3> QED BY <3>1, <3>2 DEF Call
    <2>3. CASE t = None /\ Reply("managers", "error") /\ UNCHANGED commands
      BY <1>0, <2>1, <2>3, ReplyFinish DEF Plain
    <2>4. CASE /\ t # None /\ Done("managers")
               /\ outcome' = [outcome EXCEPT ![r] = "forwarded"]
               /\ commands' \in {commands, commands \cup {<<r, t>>}}
               /\ UNCHANGED replies
      <3>1. t \in Transports
        BY <2>2, <2>4 DEF TypeOK
      <3>2. ConnectedAs(request[r].manager, t)
        BY <2>2, <2>4 DEF RegisteredByOwner
      <3> HIDE DEF t, q
      <3>3. Finish("managers", "forwarded")
        BY <2>1, <2>2, <2>4, <3>1, <3>2 DEF Finish, Done, Take, Ended, Unanswered
      <3> QED BY <1>0, <3>3 DEF Shape, Results
    <2> QED BY <1>5, <2>3, <2>4 DEF ManagersRequest
  <1>6. CASE ManagersResponse
    <2>1. /\ inbox["managers"] # <<>> /\ m.h = "response"
          /\ Fit("managers", m) /\ (r # 0 => m.from # None)
      BY <1>0, <1>6, ReceivedFit DEF ManagersResponse
    <2>3. CASE r = 0
      <3>1. Drop("managers")
        BY <1>6, <2>1, <2>3 DEF Drop, ManagersResponse, Done, Take, net
      <3> QED BY <1>0, <3>1 DEF Shape
    <2>4. CASE r # 0
      <3>1. r \in DOMAIN request /\ m.to = request[r].from
        BY <2>1, <2>4 DEF Fit
      <3>2. Finish("managers", "answered")
        BY <1>6, <2>1, <2>4, <3>1
        DEF Finish, ManagersResponse, Done, Take, Ended, Unanswered, net
      <3> QED BY <1>0, <3>2 DEF Shape, Results
    <2> QED BY <2>3, <2>4
  <1>7. CASE LoseTask("managers")
    BY <1>0, <1>7, LoseShape
  <1> QED BY <1>2, <1>3, <1>4, <1>5, <1>6, <1>7 DEF ManagersStep

LEMMA StepShape ==
  ASSUME TypeOK, MailInv, AuthRight, RegisteredByOwner, [Next]_vars
  PROVE  Shape
  <1>1. CASE ManagerStep
    <2>1. CASE ManagerInfo
      BY <2>1, ReplyFinish DEF ManagerInfo, Services, Plain, net
    <2>2. CASE LoseTask("manager")
      BY <2>2, LoseShape DEF Services
    <2> QED BY <1>1, <2>1, <2>2 DEF ManagerStep
  <1>2. ASSUME NEW t \in Transports, Accept(t) \/ CloseHandshake(t)
        PROVE  Shape
    BY <1>2 DEF Accept, CloseHandshake, Shape
  <1>3. ASSUME NEW t \in Transports, ReadError(t)
        PROVE  Shape
    <2>0. "error" \in MessageTypes /\ 0 \in Nat
      BY TypesOfHandlers
    <2>1. PICK m \in Message : m = [Task("error", 0) EXCEPT !.from = t] /\ m.h = "error" /\ m.r = 0
      BY <2>0, FromMessage
    <2>2. /\ inbox' = Put(inbox, "router", m)
          /\ UNCHANGED <<request, outcome, replies, commands>>
      BY <1>3, <2>1 DEF ReadError, ToRouter, Put
    <2>3. Post(m)
      BY <2>1, <2>2 DEF Post, Fit, Plain, Misplaced
    <2> QED BY <2>3 DEF Shape
  <1>4. ASSUME NEW t \in Transports, NEW to \in Transports \cup {None}, ManagerNotify(t, to)
        PROVE  Shape
    <2>0. "notify" \in MessageTypes /\ 0 \in Nat
      BY TypesOfHandlers
    <2>1. PICK m \in Message :
            m = Answer("notify", 0, to, t)
              /\ m.h = "notify" /\ m.r = 0
      BY <2>0, AnswerMessage
    <2>2. /\ inbox' = Put(inbox, "router", m)
          /\ UNCHANGED <<request, outcome, replies, commands>>
      BY <1>4, <2>1 DEF ManagerNotify, ToRouter, Put, Answer
    <2>3. Post(m)
      BY <2>1, <2>2 DEF Post, Fit, Plain, Misplaced
    <2> QED BY <2>3 DEF Shape
  <1>5. CASE Environment
    <2>1. CASE \/ \E c \in Calls : Arrive(c)
               \/ \E t \in Transports : \E r \in DOMAIN request : ManagerAnswer(r, t)
      BY <2>1 DEF Shape
    <2>2. ASSUME NEW scene \in Scenes, NEW c \in scene.calls, Arrive(c)
          PROVE  \E d \in Calls : Arrive(d)
      BY <2>2 DEF Calls
    <2> QED BY <1>2, <1>3, <1>4, <1>5, <2>1, <2>2 DEF Environment
  <1>6. CASE UNCHANGED vars \/ Terminate
    BY <1>6 DEF vars, net, Shape, Terminate
  <1> QED BY <1>1, <1>5, <1>6, RouterShape, ProfileShape, ManagersShape DEF Next

-----------------------------------------------------------------------------
(* The tables, the caches and the sessions. *)

StoreType ==
  /\ process \in {"running", "terminated"}
  /\ session \in [Transports -> {"new", "open", "dead", "gone"}]
  /\ told \subseteq Transports
  /\ notes \in 0..MaxNotify
  /\ profiles \subseteq Logins \X Passwords /\ auth \subseteq Keys
  /\ rows \subseteq ManagerKeys
  /\ reg \in [ManagerKeys -> Transports \cup {None}]
  /\ trusted \subseteq Logins \X ManagerKeys

\* What a step does to them; a profile is never deleted, and a registration
\* that is new has its request.
StoreStep ==
  /\ StoreType' /\ AuthRight' /\ RegisteredHasRow' /\ TrustedHasRow'
  /\ profiles \subseteq profiles'
  /\ \A k \in ManagerKeys, t \in Transports :
       reg'[k] = t => reg[k] = t \/ ConnectedAs(k, t)'

store == <<process, session, told, notes, tables, caches>>

\* The invariants of the store, and the messages that they rest on.
StoreInv == TypeOK /\ MailInv /\ AuthRight /\ RegisteredHasRow /\ TrustedHasRow

\* Steps that leave the rows and what is derived from them alone, and only
\* cache keys that have been accepted.
LEMMA RowsUnchanged ==
  ASSUME StoreInv, UNCHANGED <<rows, reg, trusted>>, StoreType',
         profiles \subseteq profiles', \A k \in auth' : k \in auth \/ Authenticated(k)
  PROVE  StoreStep
  <1>1. AuthRight'
    BY DEF StoreInv, AuthRight, Authenticated
  <1> QED BY <1>1 DEF StoreInv, StoreStep, RegisteredHasRow, TrustedHasRow

\* Steps that leave the profiles and the keys alone.
LEMMA AuthUnchanged ==
  ASSUME StoreInv, UNCHANGED <<profiles, auth>>
  PROVE  AuthRight' /\ profiles \subseteq profiles'
  BY DEF StoreInv, AuthRight, Authenticated

\* The loss of a task changes none of them.
LEMMA LoseStore ==
  ASSUME StoreInv, NEW s, LoseTask(s)
  PROVE  UNCHANGED store
  BY DEF LoseTask, net, store

LEMMA StoreUnchanged ==
  ASSUME StoreInv, UNCHANGED store
  PROVE  StoreStep
  <1>1. StoreType'
    BY DEF StoreInv, TypeOK, StoreType, store, tables, caches
  <1> QED BY <1>1, RowsUnchanged DEF store, tables, caches

LEMMA RouterStore ==
  ASSUME StoreInv, RouterStep
  PROVE  StoreStep
  <1> USE DEF net, store
  <1>1. CASE RouterRequest \/ RouterFromManager \/ RouterService
    <2>1. UNCHANGED store
      BY <1>1 DEF RouterRequest, RouterFromManager, RouterService
    <2> QED BY <2>1, StoreUnchanged
  <1>2. CASE RouterError
    <2>1. StoreType'
      BY <1>2 DEF RouterError, StoreInv, TypeOK, StoreType, tables, caches
    <2> QED BY <1>2, <2>1, RowsUnchanged DEF RouterError, tables, caches
  <1> QED BY <1>1, <1>2 DEF RouterStep

LEMMA ProfileStore ==
  ASSUME StoreInv, ProfileStep
  PROVE  StoreStep
  <1> USE DEF net, store
  <1>0. "profile" \in Services /\ TypeOK /\ MailInv
    BY DEF Services, StoreInv
  <1>1. CASE ProfileLogin \/ LoseTask("profile")
    <2>1. UNCHANGED store
      BY <1>1, LoseStore DEF ProfileLogin, Query
    <2> QED BY <2>1, StoreUnchanged
  <1>2. CASE ProfileSignup
    <2> DEFINE q == Params("profile")
    <2>1. UNCHANGED <<process, session, told, notes, rows, caches>>
      BY <1>2 DEF ProfileSignup
    <2>2. q \in Call
      BY <1>0, <1>2, ParamsType DEF ProfileSignup, Plain
    <2>3. CASE /\ Filled(q.login) /\ Filled(q.password)
               /\ profiles' = profiles \cup {<<q.login, q.password>>}
      <3>1. q.login \in Logins /\ q.password \in Passwords
        <4> HIDE DEF q
        <4> QED BY <2>2, <2>3 DEF Filled, Call
      <3> HIDE DEF q
      <3>2. profiles \subseteq profiles' /\ profiles' \subseteq Logins \X Passwords
        BY <1>0, <2>3, <3>1 DEF TypeOK
      <3>3. StoreType'
        BY <1>0, <2>1, <3>2 DEF TypeOK, StoreType, caches
      <3> QED BY <2>1, <3>2, <3>3, RowsUnchanged DEF caches
    <2>4. CASE UNCHANGED profiles
      BY <2>1, <2>4, StoreUnchanged DEF tables
    <2> QED BY <1>2, <2>3, <2>4 DEF ProfileSignup
  <1>3. CASE ProfileAuth
    <2> DEFINE k == Params("profile").key
    <2>1. UNCHANGED <<process, session, told, notes, tables, reg, trusted>>
      BY <1>3 DEF ProfileAuth
    <2>2. k \in Keys
      BY <1>0, <1>3, ParamsType DEF ProfileAuth, Plain, Keyless
    <2>3. \A j \in auth' : j \in auth \/ Authenticated(j)
      BY <1>3, <2>2, MatchesRight DEF ProfileAuth
    <2>4. auth' \subseteq Keys
      BY <1>0, <2>3 DEF TypeOK, Authenticated
    <2>5. StoreType'
      BY <1>0, <2>1, <2>4 DEF TypeOK, StoreType, tables
    <2> QED BY <2>1, <2>3, <2>5, RowsUnchanged DEF tables
  <1> QED BY <1>1, <1>2, <1>3 DEF ProfileStep

LEMMA ManagersStore ==
  ASSUME StoreInv, ManagersStep
  PROVE  StoreStep
  <1> USE DEF net, store
  <1> DEFINE q == Params("managers")
             r == Head(inbox["managers"]).r
  <1>0. /\ "managers" \in Services /\ TypeOK /\ MailInv
        /\ RegisteredHasRow /\ TrustedHasRow
    BY DEF Services, StoreInv
  <1>1. CASE ManagersList \/ ManagersRequest \/ ManagersResponse \/ LoseTask("managers")
    <2>1. UNCHANGED store
      BY <1>1, LoseStore DEF ManagersList, ManagersRequest, ManagersResponse, Query
    <2> QED BY <2>1, StoreUnchanged
  <1>2. CASE ManagersAdd
    <2>1. UNCHANGED <<process, session, told, notes, profiles, auth, reg>>
      BY <1>2 DEF ManagersAdd
    <2>2. q \in Call /\ OwnerOf(q) \in Logins
      BY <1>0, <1>2, ParamsType, OwnerType DEF ManagersAdd, Plain, Keyless
    <2>3. CASE UNCHANGED <<rows, trusted>>
      BY <2>1, <2>3, StoreUnchanged DEF tables, caches
    <2>4. CASE /\ Filled(q.name)
               /\ rows' = rows \cup {<<OwnerOf(q), q.name>>}
               /\ AddTrustedUrl(OwnerOf(q), <<OwnerOf(q), q.name>>)
      <3>1. PICK o \in Logins, n \in Names : o = OwnerOf(q) /\ n = q.name
        <4> HIDE DEF q
        <4> QED BY <2>2, <2>4 DEF Call, Filled
      <3>2. rows' = rows \cup {<<o, n>>} /\ trusted' = trusted \cup {<<o, <<o, n>>>>}
        BY <2>4, <3>1 DEF AddTrustedUrl
      <3>3. <<o, n>> \in ManagerKeys
        BY DEF ManagerKeys
      <3>4. StoreType'
        <4>1. rows' \subseteq ManagerKeys
          BY <1>0, <3>2, <3>3 DEF TypeOK
        <4>2. trusted' \subseteq Logins \X ManagerKeys
          <5>1. \A k \in ManagerKeys : <<o, k>> \in Logins \X ManagerKeys
            OBVIOUS
          <5> QED BY <1>0, <3>2, <3>3, <5>1 DEF TypeOK
        <4> QED BY <1>0, <2>1, <4>1, <4>2 DEF TypeOK, StoreType
      <3>5. RegisteredHasRow' /\ TrustedHasRow'
        BY <1>0, <2>1, <3>2 DEF RegisteredHasRow, TrustedHasRow
      <3> QED BY <2>1, <3>4, <3>5, AuthUnchanged DEF StoreStep
    <2> QED BY <1>2, <2>3, <2>4 DEF ManagersAdd
  <1>3. CASE ManagersDelete
    <2>1. UNCHANGED <<process, session, notes, profiles, auth>>
      BY <1>3 DEF ManagersDelete
    <2>2. /\ q \in Call /\ OwnerOf(q) \in Logins
          /\ Reads(q, "managers", "delete") \cap Bad = {}
      BY <1>0, <1>3, ParamsType, OwnerType DEF ManagersDelete, Plain, Keyless
    <2>3. CASE UNCHANGED <<rows, trusted, told, reg>>
      BY <2>1, <2>3, StoreUnchanged DEF tables, caches
    <2>4. CASE /\ q.mkey # Empty
               /\ rows' = {k \in rows : k = q.mkey => k[1] # OwnerOf(q)}
               /\ RemoveTrustedUrl(OwnerOf(q), q.mkey)
               /\ told' = told \cup ({reg[q.mkey]} \ {None})
               /\ Unregister(q.mkey)
      <3>1. PICK o \in Logins, x \in ManagerKeys : o = OwnerOf(q) /\ x = q.mkey
        <4>1. Reads(q, "managers", "delete") = {q.mkey}
          BY DEF Reads
        <4> HIDE DEF q
        <4> QED BY <2>2, <2>4, <4>1 DEF Call
      <3>2. /\ rows' = {k \in rows : k = x => k[1] # o}
            /\ trusted' = trusted \ {<<o, x>>}
            /\ told' = told \cup ({reg[x]} \ {None})
            /\ reg' = [j \in ManagerKeys |-> IF j = x THEN None ELSE reg[j]]
        BY <2>4, <3>1 DEF RemoveTrustedUrl, Unregister
      <3>3. StoreType'
        BY <1>0, <2>1, <3>2 DEF TypeOK, StoreType
      <3>4. RegisteredHasRow'
        BY <1>0, <3>2 DEF RegisteredHasRow
      <3>5. TrustedHasRow'
        <4> SUFFICES ASSUME NEW u \in trusted' PROVE u[2] \in rows' /\ u[1] = u[2][1]
          BY DEF TrustedHasRow
        <4>1. u[2] \in rows /\ u[1] = u[2][1] /\ u # <<o, x>> /\ u = <<u[1], u[2]>>
          BY <1>0, <3>2 DEF TrustedHasRow, TypeOK
        <4>2. ~(u[2] = x /\ x[1] = o)
          BY <4>1
        <4> QED BY <3>2, <4>1, <4>2
      <3>6. ASSUME NEW k \in ManagerKeys, NEW t \in Transports, reg'[k] = t
            PROVE  reg[k] = t
        BY <3>2, <3>6, PlatformAssumption DEF Bad
      <3> QED BY <2>1, <3>3, <3>4, <3>5, <3>6, AuthUnchanged DEF StoreStep
    <2> QED BY <1>3, <2>3, <2>4 DEF ManagersDelete
  <1>4. CASE ManagersConnect
    <2>1. UNCHANGED <<process, session, told, notes, profiles, rows, auth, trusted, request>>
      BY <1>4 DEF ManagersConnect, tables
    <2>2. /\ q \in Call /\ Authenticated(q.key)
          /\ Invokes(q, "managers", "connect")
          /\ r \in DOMAIN request
      BY <1>0, <1>4, ParamsType DEF ManagersConnect, Plain, Keyless
    <2>3. CASE UNCHANGED reg
      BY <2>1, <2>3, StoreUnchanged DEF tables, caches
    <2>4. CASE /\ Owns(q)
               /\ reg' = Emplaced(q.mkey, q.from)
               /\ Reply("managers", "ok")
      <3>1. PICK x \in ManagerKeys, t \in Transports : x = q.mkey /\ t = q.from
        BY <1>0, <2>2, <2>4 DEF Owns, TypeOK, Call
      <3>2. x \in rows /\ x[1] = OwnerOf(q)
        BY <2>4, <3>1 DEF Owns
      <3>3. reg' = IF reg[x] = None THEN [reg EXCEPT ![x] = t] ELSE reg
        BY <2>4, <3>1 DEF Emplaced
      <3>4. StoreType'
        BY <1>0, <2>1, <3>3 DEF TypeOK, StoreType
      <3>5. RegisteredHasRow'
        BY <1>0, <2>1, <3>2, <3>3 DEF RegisteredHasRow, TypeOK
      <3>6. TrustedHasRow'
        BY <1>0, <2>1 DEF TrustedHasRow
      <3>7. ConnectedAs(x, t)'
        <4>1. outcome'[r] = "ok" /\ request' = request /\ request[r] = q
          BY <1>0, <2>1, <2>2, <2>4 DEF Reply, Params, TypeOK
        <4>2. q.key[1] = x[1] /\ UNCHANGED profiles
          BY <2>1, <3>2 DEF OwnerOf
        <4> HIDE DEF q, r
        <4> QED BY <2>2, <3>1, <4>1, <4>2 DEF ConnectedAs, Invokes, Authenticated
      <3>8. ASSUME NEW k \in ManagerKeys, NEW u \in Transports, reg'[k] = u
            PROVE  reg[k] = u \/ ConnectedAs(k, u)'
        <4>1. reg[k] = u \/ (k = x /\ u = t)
          BY <1>0, <3>3, <3>8 DEF TypeOK
        <4> QED BY <3>7, <4>1
      <3> QED BY <2>1, <3>4, <3>5, <3>6, <3>8, AuthUnchanged DEF StoreStep
    <2> QED BY <1>4, <2>3, <2>4 DEF ManagersConnect
  <1>5. CASE ManagersDisconnect
    <2>1. UNCHANGED <<process, session, told, notes, profiles, rows, auth, trusted>>
      BY <1>5 DEF ManagersDisconnect, tables
    <2>2. PICK x : Unregister(x)
      BY <1>5 DEF ManagersDisconnect
    <2>3. StoreType'
      BY <1>0, <2>1, <2>2 DEF TypeOK, StoreType, Unregister
    <2>4. RegisteredHasRow' /\ TrustedHasRow'
      BY <1>0, <2>1, <2>2 DEF RegisteredHasRow, TrustedHasRow, Unregister
    <2>5. ASSUME NEW k \in ManagerKeys, NEW t \in Transports, reg'[k] = t
          PROVE  reg[k] = t
      BY <2>2, <2>5, PlatformAssumption DEF Unregister, Bad
    <2> QED BY <2>1, <2>3, <2>4, <2>5, AuthUnchanged DEF StoreStep
  <1> QED BY <1>1, <1>2, <1>3, <1>4, <1>5 DEF ManagersStep

LEMMA EveryStoreStep ==
  ASSUME StoreInv, [Next]_vars
  PROVE  StoreStep
  <1> USE DEF net, store
  <1>1. CASE ManagerStep \/ UNCHANGED vars
    <2>1. UNCHANGED store
      BY <1>1, LoseStore DEF ManagerStep, ManagerInfo, vars
    <2> QED BY <2>1, StoreUnchanged
  <1>2. CASE \/ \E c \in Calls : Arrive(c)
             \/ \E t \in Transports : \E r \in DOMAIN request : ManagerAnswer(r, t)
    <2>1. UNCHANGED store
      BY <1>2 DEF Arrive, ManagerAnswer
    <2> QED BY <2>1, StoreUnchanged
  <1>3. ASSUME UNCHANGED <<told, tables, caches>>,
               process' \in {"running", "terminated"},
               session' \in [Transports -> {"new", "open", "dead", "gone"}],
               notes' \in 0..MaxNotify
        PROVE  StoreStep
    <2>1. StoreType'
      BY <1>3 DEF StoreInv, TypeOK, StoreType, tables, caches
    <2> QED BY <1>3, <2>1, RowsUnchanged DEF tables, caches
  <1>4. ASSUME NEW t \in Transports, Accept(t) \/ CloseHandshake(t) \/ ReadError(t)
        PROVE  StoreStep
    <2>1. UNCHANGED <<process, told, notes, tables, caches>>
      BY <1>4 DEF Accept, CloseHandshake, ReadError
    <2>2. session' \in [Transports -> {"new", "open", "dead", "gone"}]
      BY <1>4 DEF Accept, CloseHandshake, ReadError, StoreInv, TypeOK
    <2> QED BY <1>3, <2>1, <2>2 DEF StoreInv, TypeOK
  <1>5. ASSUME NEW scene \in Scenes, notes < scene.notifies,
               NEW t \in Transports, NEW to \in Transports \cup {None}, ManagerNotify(t, to)
        PROVE  StoreStep
    <2>1. UNCHANGED <<process, session, told, tables, caches>>
      BY <1>5 DEF ManagerNotify
    <2>2. notes' \in 0..MaxNotify
      BY <1>5, PlatformAssumption DEF ManagerNotify, StoreInv, TypeOK
    <2> QED BY <1>3, <2>1, <2>2 DEF StoreInv, TypeOK
  <1>6. CASE Environment
    BY <1>2, <1>4, <1>5, <1>6 DEF Environment, Calls
  <1>7. CASE Terminate
    BY <1>3, <1>7 DEF Terminate, StoreInv, TypeOK
  <1> QED BY <1>1, <1>6, <1>7, RouterStore, ProfileStore, ManagersStore DEF Next

-----------------------------------------------------------------------------
(* The inductive invariant, one lemma for each thing a step may do to the  *)
(* messages.                                                               *)

\* TaskInOnePlace in the terms of InboxTheorems.
TaskPlaces ==
  \A r \in DOMAIN request :
    IF outcome[r] \in Busy THEN InOnePlace(inbox, Services, r)
                           ELSE Nowhere(inbox, Services, r)

\* A request is forwarded to one session, and is in no inbox until it answers.
CommandsOpen ==
  \A x \in commands : /\ outcome[x[1]] = "forwarded"
                      /\ \A y \in commands : y[1] = x[1] => y = x

\* ForwardedToOwner in the terms of ConnectedAs.
CommandsOwned == \A x \in commands : ConnectedAs(request[x[1]].manager, x[2])

\* The one reply to a request comes with the step that ends it.
RepliesInv ==
  \A r \in DOMAIN request :
    replies[r] = IF outcome[r] \in Busy \cup Unanswered THEN <<>>
                                                        ELSE <<request[r].from>>

\* Only a request that names a handler which takes no task is lost.
LostRight == \A r \in DOMAIN request : outcome[r] = "lost" => Misnames(request[r])

PlatformInv ==
  /\ StoreInv /\ RegisteredByOwner
  /\ TaskPlaces /\ CommandsOpen /\ CommandsOwned /\ RepliesInv /\ LostRight

\* Profiles and requests are only added, and a request that ended well stays so.
Extends ==
  /\ profiles \subseteq profiles'
  /\ DOMAIN request \subseteq DOMAIN request'
  /\ \A r \in DOMAIN request : /\ request'[r] = request[r]
                               /\ outcome[r] = "ok" => outcome'[r] = "ok"

LEMMA FitStable ==
  ASSUME Extends, NEW s, NEW m, Fit(s, m)
  PROVE  Fit(s, m)'
  <1>1. CASE m.r \in DOMAIN request
    <2>1. m.r \in DOMAIN request' /\ request'[m.r] = request[m.r]
      BY <1>1 DEF Extends
    <2>2. Authenticated(request[m.r].key) => Authenticated(request[m.r].key)'
      BY <2>1 DEF Authenticated, Extends
    <2> QED BY <1>1, <2>1, <2>2 DEF Fit, Invokes, Misplaced, Misnames, Keyed
  <1>2. CASE m.r \notin DOMAIN request
    BY <1>2 DEF Fit, Misplaced, Plain
  <1> QED BY <1>1, <1>2

LEMMA MailStable ==
  ASSUME MailInv, Extends,
         \A s \in Services : \A m : Waits(inbox', s, m) => Waits(inbox, s, m) \/ Fit(s, m)'
  PROVE  MailInv'
  <1> SUFFICES ASSUME NEW s \in Services, NEW m, Waits(inbox', s, m)
               PROVE  Fit(s, m)'
    BY DEF MailInv
  <1>1. CASE Waits(inbox, s, m)
    <2>1. Fit(s, m)
      BY <1>1 DEF MailInv
    <2> QED BY <2>1, FitStable
  <1> QED BY <1>1

LEMMA ConnectedStable ==
  ASSUME Extends, NEW k, NEW t, ConnectedAs(k, t)
  PROVE  ConnectedAs(k, t)'
  <1>1. PICK i \in DOMAIN request :
          /\ Invokes(request[i], "managers", "connect")
          /\ request[i].from = t /\ request[i].mkey = k
          /\ Authenticated(request[i].key) /\ request[i].key[1] = k[1]
          /\ outcome[i] = "ok"
    BY DEF ConnectedAs
  <1>2. i \in DOMAIN request' /\ request'[i] = request[i] /\ outcome'[i] = "ok"
    BY <1>1 DEF Extends
  <1>3. Authenticated(request[i].key)'
    BY <1>1, <1>2 DEF Authenticated, Extends
  <1> QED BY <1>1, <1>2, <1>3 DEF ConnectedAs, Invokes

\* The registrations and the requests that have been forwarded keep the
\* connect they come from.
LEMMA OwnersStable ==
  ASSUME PlatformInv, StoreStep, Extends,
         \A x \in commands' : x \in commands \/
           (x[1] \in DOMAIN request /\ ConnectedAs(request[x[1]].manager, x[2]))
  PROVE  RegisteredByOwner' /\ CommandsOwned'
  <1>1. RegisteredByOwner'
    <2> SUFFICES ASSUME NEW k \in ManagerKeys, reg'[k] # None
                 PROVE  ConnectedAs(k, reg[k])'
      BY DEF RegisteredByOwner
    <2>1. PICK t \in Transports : t = reg'[k]
      BY DEF StoreStep, StoreType
    <2>2. ConnectedAs(k, t)'
      <3>1. CASE reg[k] = t
        <4>1. ConnectedAs(k, t)
          BY <2>1, <3>1, PlatformAssumption DEF PlatformInv, RegisteredByOwner, Bad
        <4> QED BY <4>1, ConnectedStable
      <3> QED BY <2>1, <3>1 DEF StoreStep
    <2> QED BY <2>1, <2>2 DEF ConnectedAs
  <1>2. CommandsOwned'
    <2> SUFFICES ASSUME NEW x \in commands'
                 PROVE  ConnectedAs(request[x[1]].manager, x[2])'
      BY DEF CommandsOwned
    <2>1. x[1] \in DOMAIN request /\ ConnectedAs(request[x[1]].manager, x[2])
      BY DEF PlatformInv, StoreInv, TypeOK, CommandsOwned
    <2>2. PICK k : k = request[x[1]].manager
      OBVIOUS
    <2>3. ConnectedAs(k, x[2])'
      BY <2>1, <2>2, ConnectedStable
    <2>4. request'[x[1]].manager = k
      BY <2>1, <2>2 DEF Extends
    <2> QED BY <2>3, <2>4 DEF ConnectedAs
  <1> QED BY <1>1, <1>2

\* A request whose task is being handled is busy, and its task nowhere else.
LEMMA HeadBusy ==
  ASSUME TypeOK, TaskPlaces, NEW s \in Services, inbox[s] # <<>>,
         Head(inbox[s]).r \in DOMAIN request
  PROVE  /\ outcome[Head(inbox[s]).r] \in Busy
         /\ InOnePlace(inbox, Services, Head(inbox[s]).r)
  <1>1. inbox \in [Services -> Seq(Message)]
    BY DEF TypeOK
  <1>2. 1 \in DOMAIN inbox[s] /\ inbox[s][1] = Head(inbox[s])
    BY <1>1, TakeShape
  <1>3. ~Nowhere(inbox, Services, Head(inbox[s]).r)
    BY <1>2, NowhereElim
  <1> QED BY <1>3 DEF TaskPlaces

LEMMA SameRequests ==
  ASSUME StoreStep, UNCHANGED <<request, outcome>>
  PROVE  Extends
  BY DEF Extends, StoreStep

\* Steps that only move messages.
LEMMA MoveStep ==
  ASSUME PlatformInv, StoreStep, UNCHANGED <<request, outcome, replies, commands>>,
         inbox' \in [Services -> Seq(Message)],
         \A s \in Services : \A m : Waits(inbox', s, m) => Waits(inbox, s, m) \/ Fit(s, m)',
         TaskPlaces'
  PROVE  PlatformInv'
  <1>1. Extends
    BY SameRequests
  <1>2. TypeOK'
    BY DEF PlatformInv, StoreInv, TypeOK, StoreStep, StoreType
  <1>3. MailInv'
    BY <1>1, MailStable DEF PlatformInv, StoreInv
  <1>4. RegisteredByOwner' /\ CommandsOwned'
    BY <1>1, OwnersStable
  <1>5. CommandsOpen' /\ RepliesInv' /\ LostRight'
    BY DEF PlatformInv, CommandsOpen, RepliesInv, LostRight, Misnames, Keyed
  <1> QED BY <1>2, <1>3, <1>4, <1>5 DEF PlatformInv, StoreInv, StoreStep

\* What skip reports, and the rest of the inbox of s.
LEMMA EndedBox ==
  ASSUME TypeOK, NEW s \in Services, inbox[s] # <<>>, inbox' \in Ended(s)
  PROVE  /\ inbox' \in [Services -> Seq(Message)]
         /\ \A t \in Services : \A m : Waits(inbox', t, m) =>
              \/ Waits(Take(inbox, s), t, m) /\ Waits(inbox, t, m)
              \/ m.r = 0 /\ Fit(t, m)'
         /\ \A r \in Nat \ {0} :
              /\ InOnePlace(Take(inbox, s), Services, r) => InOnePlace(inbox', Services, r)
              /\ Nowhere(Take(inbox, s), Services, r) => Nowhere(inbox', Services, r)
  <1> DEFINE box == Take(inbox, s)
  <1>1. inbox \in [Services -> Seq(Message)] /\ "router" \in Services
    BY DEF TypeOK, Services
  <1>2. box \in [Services -> Seq(Message)]
    BY <1>1, TakeShape
  <1>3. \A t \in Services : \A m : Waits(box, t, m) => Waits(inbox, t, m)
    BY <1>1, TakeWaits
  <1>4. CASE inbox' = box
    BY <1>2, <1>3, <1>4
  <1>5. CASE inbox' = Put(box, "router", Task("error", 0))
    <2>1. PICK n \in Message : n = Task("error", 0)
      BY TaskType, TypesOfHandlers
    <2>2. n.h = "error" /\ n.r = 0
      BY <2>1, TaskType, TypesOfHandlers
    <2>3. inbox' = Put(box, "router", n)
      BY <1>5, <2>1
    <2> HIDE DEF box
    <2>4. inbox' \in [Services -> Seq(Message)]
      BY <1>1, <1>2, <2>3, PutShape
    <2>5. Fit("router", n)'
      BY <2>2 DEF Fit, Plain, Misplaced
    <2>6. ASSUME NEW t \in Services, NEW m, Waits(inbox', t, m)
          PROVE  Waits(box, t, m) \/ (m.r = 0 /\ Fit(t, m)')
      <3>1. Waits(Put(box, "router", n), t, m)
        BY <2>3, <2>6
      <3>2. Waits(box, t, m) \/ (t = "router" /\ m = n)
        <4>1. box \in [Services -> Seq(Message)] /\ "router" \in Services
          BY <1>1, <1>2
        <4> QED BY <3>1, <4>1, PutWaits
      <3> QED BY <2>2, <2>5, <3>2
    <2>7. \A r \in Nat \ {0} :
            /\ InOnePlace(box, Services, r) => InOnePlace(inbox', Services, r)
            /\ Nowhere(box, Services, r) => Nowhere(inbox', Services, r)
      BY <1>1, <1>2, <2>2, <2>3, PutPlaces
    <2> QED BY <1>3, <2>4, <2>6, <2>7 DEF box
  <1> QED BY <1>4, <1>5 DEF Ended

LEMMA HopStep ==
  ASSUME PlatformInv, StoreStep, NEW s \in Services, NEW to \in Services,
         NEW m \in Message, Hop(s, to, m)
  PROVE  PlatformInv'
  <1> DEFINE box == Take(inbox, s)
  <1>0. TypeOK /\ TaskPlaces
    BY DEF PlatformInv, StoreInv
  <1>1. /\ inbox \in [Services -> Seq(Message)]
        /\ inbox[s] # <<>> /\ m.r = Head(inbox[s]).r /\ Fit(to, m)
        /\ inbox' = Put(box, to, m)
        /\ UNCHANGED <<request, outcome, replies, commands>>
    BY <1>0 DEF Hop, TypeOK
  <1>2. box \in [Services -> Seq(Message)]
    BY <1>1, TakeShape
  <1> HIDE DEF box
  <1>3. inbox' \in [Services -> Seq(Message)]
    BY <1>1, <1>2, PutShape
  <1>4. ASSUME NEW t \in Services, NEW n, Waits(inbox', t, n)
        PROVE  Waits(inbox, t, n) \/ Fit(t, n)'
    <2>1. Fit(to, m)'
      BY <1>1, SameRequests, FitStable
    <2>2. Waits(Put(box, to, m), t, n)
      BY <1>1, <1>4
    <2>3. Waits(box, t, n) \/ (t = to /\ n = m)
      BY <1>2, <2>2, PutWaits
    <2>4. Waits(box, t, n) => Waits(inbox, t, n)
      BY <1>1, TakeWaits DEF box
    <2> QED BY <2>1, <2>3, <2>4
  <1>5. TaskPlaces'
    <2>1. ASSUME NEW r \in DOMAIN request, outcome[r] \in Busy
          PROVE  InOnePlace(inbox', Services, r)
      <3>1. InOnePlace(inbox, Services, r)
        BY <1>0, <2>1 DEF TaskPlaces
      <3>2. CASE r = m.r
        <4>1. Nowhere(box, Services, r)
          BY <1>1, <3>1, <3>2, TakePlaces DEF box
        <4> QED BY <1>1, <1>2, <3>2, <4>1, PutPlaces
      <3>3. CASE r # m.r
        <4>1. InOnePlace(box, Services, r)
          BY <1>1, <3>1, <3>3, TakePlaces DEF box
        <4> QED BY <1>1, <1>2, <3>3, <4>1, PutPlaces
      <3> QED BY <3>2, <3>3
    <2>2. ASSUME NEW r \in DOMAIN request, outcome[r] \notin Busy
          PROVE  Nowhere(inbox', Services, r)
      <3>1. Nowhere(inbox, Services, r)
        BY <1>0, <2>2 DEF TaskPlaces
      <3>2. r # m.r
        BY <1>0, <1>1, <2>2, HeadBusy
      <3>3. Nowhere(box, Services, r)
        BY <1>1, <3>1, TakePlaces DEF box
      <3> QED BY <1>1, <1>2, <3>2, <3>3, PutPlaces
    <2> QED BY <1>1, <2>1, <2>2 DEF TaskPlaces
  <1> QED BY <1>1, <1>3, <1>4, <1>5, MoveStep

\* Messages without a request come and go without an effect on the others.
LEMMA PlainPlaces ==
  ASSUME PlatformInv, UNCHANGED <<request, outcome>>,
         \A r \in Nat \ {0} :
           /\ InOnePlace(inbox, Services, r) => InOnePlace(inbox', Services, r)
           /\ Nowhere(inbox, Services, r) => Nowhere(inbox', Services, r)
  PROVE  TaskPlaces'
  <1>1. \A r \in DOMAIN request : r \in Nat \ {0}
    BY RequestType DEF PlatformInv, StoreInv
  <1> QED BY <1>1 DEF PlatformInv, TaskPlaces

LEMMA DropStep ==
  ASSUME PlatformInv, StoreStep, NEW s \in Services, Drop(s)
  PROVE  PlatformInv'
  <1>1. /\ inbox \in [Services -> Seq(Message)] /\ inbox[s] # <<>>
        /\ Head(inbox[s]).r = 0 /\ inbox' = Take(inbox, s)
        /\ UNCHANGED <<request, outcome, replies, commands>>
    BY DEF Drop, PlatformInv, StoreInv, TypeOK
  <1>2. inbox' \in [Services -> Seq(Message)]
    BY <1>1, TakeShape
  <1>3. \A t \in Services : \A m : Waits(inbox', t, m) => Waits(inbox, t, m)
    BY <1>1, TakeWaits
  <1>4. TaskPlaces'
    BY <1>1, TakePlaces, PlainPlaces
  <1> QED BY <1>1, <1>2, <1>3, <1>4, MoveStep

LEMMA PostStep ==
  ASSUME PlatformInv, StoreStep, NEW m \in Message, Post(m)
  PROVE  PlatformInv'
  <1>1. /\ inbox \in [Services -> Seq(Message)] /\ m.r = 0 /\ Fit("router", m)
        /\ inbox' = Put(inbox, "router", m)
        /\ UNCHANGED <<request, outcome, replies, commands>>
        /\ "router" \in Services
    BY DEF Post, PlatformInv, StoreInv, TypeOK, Services
  <1>2. inbox' \in [Services -> Seq(Message)]
    BY <1>1, PutShape
  <1>3. Fit("router", m)'
    BY <1>1, SameRequests, FitStable
  <1>4. ASSUME NEW t \in Services, NEW n, Waits(inbox', t, n)
        PROVE  Waits(inbox, t, n) \/ Fit(t, n)'
    <2>1. Waits(Put(inbox, "router", m), t, n)
      BY <1>1, <1>4
    <2>2. Waits(inbox, t, n) \/ (t = "router" /\ n = m)
      BY <1>1, <2>1, PutWaits
    <2> QED BY <1>3, <2>2
  <1>5. TaskPlaces'
    BY <1>1, PutPlaces, PlainPlaces
  <1> QED BY <1>1, <1>2, <1>4, <1>5, MoveStep

LEMMA FinishStep ==
  ASSUME PlatformInv, StoreStep, NEW s \in Services, NEW what \in Results, Finish(s, what)
  PROVE  PlatformInv'
  <1> DEFINE r == Head(inbox[s]).r
             Outcomes == Results \cup Busy
  <1>0. TypeOK /\ MailInv /\ TaskPlaces /\ CommandsOpen /\ RepliesInv /\ LostRight
    BY DEF PlatformInv, StoreInv
  <1>1. /\ inbox \in [Services -> Seq(Message)]
        /\ inbox[s] # <<>> /\ r \in DOMAIN request
        /\ inbox' \in Ended(s)
        /\ outcome' = [outcome EXCEPT ![r] = what]
        /\ IF what \in Unanswered
             THEN UNCHANGED replies
             ELSE replies' = [replies EXCEPT ![r] = Append(@, request[r].from)]
        /\ what = "lost" => Misnames(request[r])
        /\ UNCHANGED request
        /\ outcome \in [DOMAIN request -> Outcomes]
        /\ replies \in [DOMAIN request -> Seq(Transports)]
        /\ commands \subseteq (DOMAIN request) \X Transports
    BY <1>0 DEF Finish, TypeOK, Results, Busy
  <1>2. \/ UNCHANGED commands
        \/ /\ what = "forwarded"
           /\ \E t \in Transports : /\ ConnectedAs(request[r].manager, t)
                                    /\ commands' = commands \cup {<<r, t>>}
    BY DEF Finish
  <1>3. outcome[r] \in Busy /\ InOnePlace(inbox, Services, r)
    BY <1>0, <1>1, HeadBusy
  <1>4. /\ outcome'[r] = what /\ what \notin Busy
        /\ \A x \in DOMAIN request : x # r => outcome'[x] = outcome[x]
        /\ outcome' \in [DOMAIN request -> Outcomes]
    BY <1>1 DEF Results, Busy
  <1>5. \A x \in commands : x[1] # r
    BY <1>0, <1>3 DEF CommandsOpen, Busy
  <1>6. Extends
    BY <1>1, <1>3, <1>4 DEF Extends, Busy, StoreStep
  <1>7. request[r].from \in Transports
    BY <1>0, <1>1, RequestType DEF Call
  <1>8. /\ \A x \in DOMAIN request : x # r => replies'[x] = replies[x]
        /\ replies'[r] = IF what \in Unanswered THEN <<>> ELSE <<request[r].from>>
        /\ replies' \in [DOMAIN request -> Seq(Transports)]
    <2>1. replies[r] = <<>>
      BY <1>0, <1>1, <1>3 DEF RepliesInv
    <2>2. Append(<<>>, request[r].from) = <<request[r].from>>
      OBVIOUS
    <2>3. CASE what \in Unanswered
      BY <1>1, <2>1, <2>3
    <2>4. CASE what \notin Unanswered
      <3>1. Append(replies[r], request[r].from) \in Seq(Transports)
        BY <1>1, <1>7
      <3> QED BY <1>1, <2>1, <2>2, <2>4, <3>1
    <2> QED BY <2>3, <2>4
  <1> HIDE DEF r
  <1> DEFINE box == Take(inbox, s)
  <1>9. /\ inbox' \in [Services -> Seq(Message)]
        /\ \A t \in Services : \A n : Waits(inbox', t, n) => Waits(inbox, t, n) \/ Fit(t, n)'
        /\ \A x \in DOMAIN request :
             /\ InOnePlace(box, Services, x) => InOnePlace(inbox', Services, x)
             /\ Nowhere(box, Services, x) => Nowhere(inbox', Services, x)
    BY <1>0, <1>1, EndedBox, RequestType
  <1>10. /\ InOnePlace(inbox, Services, r) => Nowhere(box, Services, r)
        /\ \A x : /\ x # r /\ InOnePlace(inbox, Services, x) => InOnePlace(box, Services, x)
                  /\ Nowhere(inbox, Services, x) => Nowhere(box, Services, x)
    <2>1. inbox \in [Services -> Seq(Message)] /\ inbox[s] # <<>>
      BY <1>1
    <2> QED BY <2>1, TakePlaces DEF r, box
  <1> HIDE DEF box
  <1>11. TypeOK'
    <2>1. commands' \subseteq (DOMAIN request) \X Transports
      BY <1>1, <1>2
    <2> QED BY <1>0, <1>1, <1>4, <1>8, <1>9, <2>1 DEF TypeOK, StoreStep, StoreType, Results, Busy
  <1>12. MailInv'
    BY <1>0, <1>6, <1>9, MailStable
  <1>13. TaskPlaces'
    <2> SUFFICES ASSUME NEW x \in DOMAIN request
                 PROVE  IF outcome'[x] \in Busy
                          THEN InOnePlace(inbox', Services, x)
                          ELSE Nowhere(inbox', Services, x)
      BY <1>1 DEF TaskPlaces
    <2>1. CASE x = r
      <3>1. Nowhere(inbox', Services, r)
        BY <1>1, <1>3, <1>9, <1>10
      <3> QED BY <1>4, <2>1, <3>1
    <2>2. CASE x # r
      <3>1. outcome'[x] = outcome[x]
        BY <1>4, <2>2
      <3>2. /\ InOnePlace(inbox, Services, x) => InOnePlace(inbox', Services, x)
            /\ Nowhere(inbox, Services, x) => Nowhere(inbox', Services, x)
        BY <1>9, <1>10, <2>2
      <3> QED BY <1>0, <3>1, <3>2 DEF TaskPlaces
    <2> QED BY <2>1, <2>2
  <1>14. CommandsOpen'
    <2>1. \A x \in commands : /\ outcome'[x[1]] = "forwarded"
                              /\ \A y \in commands : y[1] = x[1] => y = x
      BY <1>0, <1>1, <1>4, <1>5 DEF CommandsOpen
    <2>2. CASE UNCHANGED commands
      BY <2>1, <2>2 DEF CommandsOpen
    <2>3. ASSUME NEW t \in Transports, what = "forwarded", commands' = commands \cup {<<r, t>>}
          PROVE  CommandsOpen'
      BY <1>4, <1>5, <2>1, <2>3 DEF CommandsOpen
    <2> QED BY <1>2, <2>2, <2>3
  <1>15. RepliesInv'
    <2> SUFFICES ASSUME NEW x \in DOMAIN request
                 PROVE  replies'[x] = IF outcome'[x] \in Busy \cup Unanswered
                                        THEN <<>> ELSE <<request[x].from>>
      BY <1>1 DEF RepliesInv
    <2>1. CASE x = r
      BY <1>4, <1>8, <2>1
    <2>2. CASE x # r
      BY <1>0, <1>4, <1>8, <2>2 DEF RepliesInv
    <2> QED BY <2>1, <2>2
  <1>16. LostRight'
    <2> SUFFICES ASSUME NEW x \in DOMAIN request, outcome'[x] = "lost"
                 PROVE  Misnames(request[x])
      BY <1>1 DEF LostRight, Misnames, Keyed
    <2>1. CASE x = r
      BY <1>1, <1>4, <2>1
    <2>2. CASE x # r
      BY <1>0, <1>4, <2>2 DEF LostRight
    <2> QED BY <2>1, <2>2
  <1>17. RegisteredByOwner' /\ CommandsOwned'
    <2>1. ASSUME NEW x \in commands'
          PROVE  x \in commands \/
                 (x[1] \in DOMAIN request /\ ConnectedAs(request[x[1]].manager, x[2]))
      BY <1>1, <1>2, <2>1
    <2> QED BY <1>6, <2>1, OwnersStable
  <1> QED BY <1>11, <1>12, <1>13, <1>14, <1>15, <1>17, <1>16 DEF PlatformInv, StoreInv, StoreStep

LEMMA ArriveStep ==
  ASSUME PlatformInv, StoreStep, NEW c \in Calls, Arrive(c)
  PROVE  PlatformInv'
  <1> DEFINE Outcomes == Results \cup Busy
  <1>0. TypeOK /\ MailInv /\ TaskPlaces /\ CommandsOpen /\ RepliesInv /\ LostRight
    BY DEF PlatformInv, StoreInv
  <1>1. /\ inbox \in [Services -> Seq(Message)]
        /\ request \in Seq(Calls) /\ outcome \in [DOMAIN request -> Outcomes]
        /\ replies \in [DOMAIN request -> Seq(Transports)]
        /\ request' = Append(request, c)
        /\ outcome' = Append(outcome, "working")
        /\ replies' = Append(replies, <<>>)
        /\ UNCHANGED commands
        /\ commands \subseteq (DOMAIN request) \X Transports
        /\ "router" \in Services
    BY <1>0 DEF Arrive, TypeOK, net, Services, Results, Busy
  <1>2. PICK r \in Nat : r = Len(request) + 1
    BY <1>1
  <1>3. /\ r \in Nat \ {0} /\ r \notin DOMAIN request
        /\ request' \in Seq(Calls) /\ DOMAIN request' = DOMAIN request \cup {r}
        /\ \A x \in DOMAIN request : request'[x] = request[x]
    BY <1>1, <1>2
  <1>4. /\ Len(request) \in Nat /\ DOMAIN request = 1..Len(request)
        /\ DOMAIN request' = 1..r
    BY <1>1, <1>2
  <1>5. /\ outcome' \in [DOMAIN request' -> Outcomes]
        /\ \A x \in DOMAIN request : outcome'[x] = outcome[x]
        /\ outcome'[r] = "working"
    <2>1. \A n \in Nat : \A f \in [1..n -> Outcomes] : f \in Seq(Outcomes) /\ Len(f) = n
      OBVIOUS
    <2>2. outcome \in Seq(Outcomes) /\ Len(outcome) = Len(request)
      BY <1>1, <1>4, <2>1
    <2>3. "working" \in Outcomes
      BY DEF Busy
    <2> HIDE DEF Outcomes
    <2>4. /\ outcome' \in Seq(Outcomes) /\ Len(outcome') = r
          /\ \A x \in 1..Len(request) : outcome'[x] = outcome[x]
          /\ outcome'[r] = "working"
      BY <1>1, <1>2, <2>2, <2>3
    <2> QED BY <1>4, <2>4
  <1>6. /\ replies' \in [DOMAIN request' -> Seq(Transports)]
        /\ \A x \in DOMAIN request : replies'[x] = replies[x]
        /\ replies'[r] = <<>>
    <2> DEFINE S == Seq(Transports)
    <2>1. replies \in [1..Len(request) -> S] /\ <<>> \in S
      BY <1>1, <1>4
    <2> HIDE DEF S
    <2>2. \A n \in Nat : \A f \in [1..n -> S] : f \in Seq(S) /\ Len(f) = n
      OBVIOUS
    <2>3. replies \in Seq(S) /\ Len(replies) = Len(request)
      BY <1>4, <2>1, <2>2
    <2>4. /\ replies' \in Seq(S) /\ Len(replies') = r
          /\ \A x \in 1..Len(request) : replies'[x] = replies[x]
          /\ replies'[r] = <<>>
      BY <1>1, <1>2, <2>1, <2>3
    <2>5. replies' \in [1..r -> S]
      BY <2>4
    <2> QED BY <1>4, <2>4, <2>5 DEF S
  <1>7. PICK m \in Message :
          m = Task("dispatcher", r) /\ m.h = "dispatcher" /\ m.r = r
    <2>1. "dispatcher" \in MessageTypes
      BY TypesOfHandlers
    <2> QED BY <2>1, TaskMessage
  <1>8. inbox' = Put(inbox, "router", m)
    BY <1>2, <1>7 DEF Arrive, ToRouter, Put
  <1>9. Extends
    BY <1>3, <1>5 DEF Extends, StoreStep
  <1>10. TypeOK'
    <2>1. inbox' \in [Services -> Seq(Message)]
      BY <1>1, <1>8, PutShape
    <2>2. commands' \subseteq (DOMAIN request') \X Transports
      BY <1>1, <1>3
    <2> QED BY <1>3, <1>5, <1>6, <2>1, <2>2 DEF TypeOK, StoreStep, StoreType, Results, Busy
  <1>11. MailInv'
    <2>1. Fit("router", m)'
      BY <1>3, <1>7 DEF Fit, Plain, Keyless, Misplaced, TakesNoTask, Standard
    <2>2. ASSUME NEW t \in Services, NEW n, Waits(inbox', t, n)
          PROVE  Waits(inbox, t, n) \/ Fit(t, n)'
      <3>1. Waits(Put(inbox, "router", m), t, n)
        BY <1>8, <2>2
      <3>2. Waits(inbox, t, n) \/ (t = "router" /\ n = m)
        <4>1. inbox \in [Services -> Seq(Message)] /\ "router" \in Services
          BY <1>1
        <4> QED BY <3>1, <4>1, PutWaits
      <3> QED BY <2>1, <3>2
    <2> QED BY <1>0, <1>9, <2>2, MailStable
  <1>12. Nowhere(inbox, Services, r)
    <2>1. ASSUME NEW t \in Services, NEW i \in DOMAIN inbox[t], inbox[t][i].r = r
          PROVE  FALSE
      <3>1. Fit(t, inbox[t][i])
        BY <1>0 DEF MailInv, Waits
      <3> QED BY <1>3, <2>1, <3>1 DEF Fit
    <2> QED BY <2>1, NowhereElim
  <1>13. TaskPlaces'
    <2> SUFFICES ASSUME NEW x \in DOMAIN request'
                 PROVE  IF outcome'[x] \in Busy
                          THEN InOnePlace(inbox', Services, x)
                          ELSE Nowhere(inbox', Services, x)
      BY DEF TaskPlaces
    <2>1. CASE x = r
      <3>1. InOnePlace(inbox', Services, r)
        <4>1. /\ inbox \in [Services -> Seq(Message)] /\ "router" \in Services
              /\ Nowhere(inbox, Services, m.r) /\ m.r = r
          BY <1>1, <1>7, <1>12
        <4>2. InOnePlace(Put(inbox, "router", m), Services, m.r)
          BY <4>1, PutPlaces
        <4> QED BY <1>8, <4>1, <4>2
      <3> QED BY <1>5, <2>1, <3>1 DEF Busy
    <2>2. CASE x # r
      <3>1. x \in DOMAIN request /\ outcome'[x] = outcome[x] /\ x # m.r
        BY <1>3, <1>5, <1>7, <2>2
      <3>2. /\ InOnePlace(inbox, Services, x) => InOnePlace(inbox', Services, x)
            /\ Nowhere(inbox, Services, x) => Nowhere(inbox', Services, x)
        BY <1>1, <1>8, <3>1, PutPlaces
      <3> QED BY <1>0, <3>1, <3>2 DEF TaskPlaces
    <2> QED BY <2>1, <2>2
  <1>14. CommandsOpen'
    BY <1>0, <1>1, <1>5 DEF CommandsOpen
  <1>15. RepliesInv'
    <2> SUFFICES ASSUME NEW x \in DOMAIN request'
                 PROVE  replies'[x] = IF outcome'[x] \in Busy \cup Unanswered
                                        THEN <<>> ELSE <<request'[x].from>>
      BY DEF RepliesInv
    <2>1. CASE x = r
      BY <1>5, <1>6, <2>1 DEF Busy
    <2>2. CASE x # r
      <3>1. /\ x \in DOMAIN request /\ outcome'[x] = outcome[x]
            /\ request'[x] = request[x] /\ replies'[x] = replies[x]
        BY <1>3, <1>5, <1>6, <2>2
      <3> QED BY <1>0, <3>1 DEF RepliesInv
    <2> QED BY <2>1, <2>2
  <1>16. LostRight'
    BY <1>0, <1>3, <1>5 DEF LostRight, Misnames, Keyed
  <1>17. RegisteredByOwner' /\ CommandsOwned'
    BY <1>1, <1>9, OwnersStable
  <1> QED BY <1>10, <1>11, <1>13, <1>14, <1>15, <1>17, <1>16 DEF PlatformInv, StoreInv, StoreStep

LEMMA AnswerStep ==
  ASSUME PlatformInv, StoreStep, NEW t \in Transports, NEW r \in DOMAIN request,
         ManagerAnswer(r, t)
  PROVE  PlatformInv'
  <1> DEFINE Outcomes == Results \cup Busy
  <1>0. TypeOK /\ MailInv /\ TaskPlaces /\ CommandsOpen /\ RepliesInv /\ LostRight
    BY DEF PlatformInv, StoreInv
  <1>1. /\ inbox \in [Services -> Seq(Message)]
        /\ outcome \in [DOMAIN request -> Outcomes]
        /\ commands \subseteq (DOMAIN request) \X Transports
        /\ <<r, t>> \in commands
        /\ outcome' = [outcome EXCEPT ![r] = "answering"]
        /\ commands' = commands \ {<<r, t>>}
        /\ UNCHANGED <<request, replies>>
        /\ "router" \in Services
    BY <1>0 DEF ManagerAnswer, TypeOK, Services, Results, Busy
  <1>2. outcome[r] = "forwarded" /\ \A y \in commands : y[1] = r => y = <<r, t>>
    BY <1>0, <1>1 DEF CommandsOpen
  <1>3. Nowhere(inbox, Services, r)
    BY <1>0, <1>2 DEF TaskPlaces, Busy
  <1>4. PICK to \in Transports : to = request[r].from
    BY <1>0, RequestType DEF Call
  <1>5. PICK m \in Message :
          /\ m = Answer("response", r, to, t) /\ m.h = "response"
          /\ m.r = r /\ m.to = to /\ m.from = t
    <2>1. "response" \in MessageTypes /\ r \in Nat
      BY <1>0, RequestType, TypesOfHandlers
    <2> QED BY <2>1, AnswerMessage
  <1>6. inbox' = Put(inbox, "router", m)
    BY <1>4, <1>5 DEF ManagerAnswer, ToRouter, Put, Answer
  <1>7. /\ outcome' \in [DOMAIN request -> Outcomes]
        /\ \A x \in DOMAIN request : x # r => outcome'[x] = outcome[x]
        /\ outcome'[r] = "answering"
    BY <1>1 DEF Busy
  <1>8. Extends
    BY <1>1, <1>2, <1>7 DEF Extends, StoreStep
  <1>9. TypeOK'
    <2>1. inbox' \in [Services -> Seq(Message)]
      BY <1>1, <1>6, PutShape
    <2>2. commands' \subseteq (DOMAIN request) \X Transports
      BY <1>1
    <2> QED BY <1>0, <1>1, <1>7, <2>1, <2>2 DEF TypeOK, StoreStep, StoreType, Results, Busy
  <1>10. MailInv'
    <2>1. Fit("router", m)
      <3>1. ~Misplaced(m)
        BY <1>5, PlatformAssumption DEF Misplaced, Bad
      <3> QED BY <1>4, <1>5, <3>1 DEF Fit, Plain
    <2>2. Fit("router", m)'
      BY <1>8, <2>1, FitStable
    <2>3. ASSUME NEW u \in Services, NEW n, Waits(inbox', u, n)
          PROVE  Waits(inbox, u, n) \/ Fit(u, n)'
      <3>1. Waits(Put(inbox, "router", m), u, n)
        BY <1>6, <2>3
      <3>2. Waits(inbox, u, n) \/ (u = "router" /\ n = m)
        BY <1>1, <3>1, PutWaits
      <3> QED BY <2>2, <3>2
    <2> QED BY <1>0, <1>8, <2>3, MailStable
  <1>11. TaskPlaces'
    <2> SUFFICES ASSUME NEW x \in DOMAIN request
                 PROVE  IF outcome'[x] \in Busy
                          THEN InOnePlace(inbox', Services, x)
                          ELSE Nowhere(inbox', Services, x)
      BY <1>1 DEF TaskPlaces
    <2>1. CASE x = r
      <3>1. InOnePlace(inbox', Services, r)
        <4>1. /\ inbox \in [Services -> Seq(Message)] /\ "router" \in Services
              /\ Nowhere(inbox, Services, m.r) /\ m.r = r
          BY <1>1, <1>3, <1>5
        <4>2. InOnePlace(Put(inbox, "router", m), Services, m.r)
          BY <4>1, PutPlaces
        <4> QED BY <1>6, <4>1, <4>2
      <3> QED BY <1>7, <2>1, <3>1 DEF Busy
    <2>2. CASE x # r
      <3>1. outcome'[x] = outcome[x] /\ x # m.r
        BY <1>5, <1>7, <2>2
      <3>2. /\ InOnePlace(inbox, Services, x) => InOnePlace(inbox', Services, x)
            /\ Nowhere(inbox, Services, x) => Nowhere(inbox', Services, x)
        BY <1>1, <1>6, <3>1, PutPlaces
      <3> QED BY <1>0, <3>1, <3>2 DEF TaskPlaces
    <2> QED BY <2>1, <2>2
  <1>12. CommandsOpen'
    <2>1. \A x \in commands' : x \in commands /\ x[1] # r /\ x[1] \in DOMAIN request
      BY <1>1, <1>2
    <2> QED BY <1>0, <1>7, <2>1 DEF CommandsOpen
  <1>13. RepliesInv'
    <2> SUFFICES ASSUME NEW x \in DOMAIN request
                 PROVE  replies[x] = IF outcome'[x] \in Busy \cup Unanswered
                                       THEN <<>> ELSE <<request[x].from>>
      BY <1>1 DEF RepliesInv
    <2>1. CASE x = r
      BY <1>0, <1>2, <1>7, <2>1 DEF RepliesInv, Busy, Unanswered
    <2>2. CASE x # r
      BY <1>0, <1>7, <2>2 DEF RepliesInv
    <2> QED BY <2>1, <2>2
  <1>14. LostRight'
    BY <1>0, <1>1, <1>7 DEF LostRight, Misnames, Keyed
  <1>15. RegisteredByOwner' /\ CommandsOwned'
    BY <1>1, <1>8, OwnersStable
  <1> QED BY <1>9, <1>10, <1>11, <1>12, <1>13, <1>15, <1>14 DEF PlatformInv, StoreInv, StoreStep

LEMMA PlatformInit == Init => PlatformInv
  <1> SUFFICES ASSUME Init PROVE PlatformInv
    OBVIOUS
  <1>1. PICK p \in Persisted :
          /\ profiles = p.profiles /\ auth = {} /\ rows = p.rows
          /\ reg = [k \in ManagerKeys |-> None]
    BY DEF Init, ProfileStartup, ManagersStartup
  <1>2. p.profiles \subseteq Logins \X Passwords /\ p.rows \subseteq ManagerKeys
    BY PlatformAssumption
  <1>3. /\ process = "running"
        /\ inbox = [s \in Services |-> <<>>] /\ request = <<>> /\ outcome = <<>>
        /\ replies = <<>> /\ commands = {} /\ told = {} /\ notes = 0 /\ trusted = {}
        /\ session = [t \in Transports |-> "new"]
    BY DEF Init
  <1>4. TypeOK
    <2>1. /\ inbox \in [Services -> Seq(Message)]
          /\ request \in Seq(Calls)
          /\ commands \subseteq (DOMAIN request) \X Transports
          /\ told \subseteq Transports /\ trusted \subseteq Logins \X ManagerKeys
          /\ notes \in 0..MaxNotify
          /\ session \in [Transports -> {"new", "open", "dead", "gone"}]
      BY <1>3, PlatformAssumption
    <2>2. \A S : outcome \in [DOMAIN request -> S] /\ replies \in [DOMAIN request -> S]
      BY <1>3
    <2> QED BY <1>1, <1>2, <1>3, <2>1, <2>2 DEF TypeOK
  <1>5. \A s \in Services : DOMAIN inbox[s] = {}
    BY <1>3
  <1>6. MailInv
    BY <1>5 DEF MailInv, Waits
  <1>7. AuthRight /\ RegisteredHasRow /\ TrustedHasRow /\ RegisteredByOwner
    BY <1>1, <1>3 DEF AuthRight, RegisteredHasRow, TrustedHasRow, RegisteredByOwner
  <1>8. TaskPlaces /\ CommandsOpen /\ CommandsOwned /\ RepliesInv /\ LostRight
    BY <1>3 DEF TaskPlaces, CommandsOpen, CommandsOwned, RepliesInv, LostRight
  <1> QED BY <1>4, <1>6, <1>7, <1>8 DEF PlatformInv, StoreInv

LEMMA PlatformStep == PlatformInv /\ [Next]_vars => PlatformInv'
  <1> SUFFICES ASSUME PlatformInv, [Next]_vars PROVE PlatformInv'
    OBVIOUS
  <1>1. StoreStep
    BY EveryStoreStep DEF PlatformInv
  <1>2. Shape
    BY StepShape DEF PlatformInv, StoreInv
  <1>3. CASE UNCHANGED <<inbox, request, outcome, replies, commands>>
    <2>1. inbox' \in [Services -> Seq(Message)]
      BY <1>3 DEF PlatformInv, StoreInv, TypeOK
    <2>2. TaskPlaces'
      BY <1>3 DEF PlatformInv, TaskPlaces
    <2> QED BY <1>1, <1>3, <2>1, <2>2, MoveStep
  <1> QED
    BY <1>1, <1>2, <1>3, HopStep, FinishStep, DropStep, PostStep, ArriveStep,
       AnswerStep DEF Shape

-----------------------------------------------------------------------------
(* The theorems. *)

\* The types of the state of the platform's services, for any number of
\* sessions, owners, managers and requests: among them, a handler of managers
\* never runs without the login that it takes from the task.
THEOREM PlatformTypeCorrect == Spec => []TypeOK
  <1>1. PlatformInv => TypeOK
    BY DEF PlatformInv, StoreInv
  <1> QED BY <1>1, PlatformInit, PlatformStep, PTL DEF Spec

\* No request is doubled, on any way through the services, out to a manager and
\* back, and none is lost but one that names a handler which takes no task.
THEOREM NoRequestLost == Spec => []TaskInOnePlace
  <1>1. PlatformInv => TaskInOnePlace
    <2>1. \A r : Places(r) = PlacesIn(inbox, Services, r)
      BY DEF Places, PlacesIn
    <2> QED BY <2>1 DEF PlatformInv, TaskPlaces, TaskInOnePlace, LostRight, InOnePlace, Nowhere, Busy
  <1> QED BY <1>1, PlatformInit, PlatformStep, PTL DEF Spec

\* A client gets at most one reply to a request and nobody else gets it, also
\* when the reply comes from a manager: the session that travels with the
\* request is the one that its answer brings back.
THEOREM OneReplyToAsker == Spec => []RepliesReachAsker
  <1>1. PlatformInv => RepliesReachAsker
    <2> SUFFICES ASSUME PlatformInv, NEW r \in DOMAIN request
                 PROVE  /\ Len(replies[r]) <= 1
                        /\ \A i \in DOMAIN replies[r] : replies[r][i] = request[r].from
      BY DEF RepliesReachAsker
    <2>1. replies[r] = <<>> \/ replies[r] = <<request[r].from>>
      BY DEF PlatformInv, RepliesInv
    <2>2. \A x : /\ Len(<<x>>) = 1 /\ DOMAIN <<x>> = {1} /\ <<x>>[1] = x
      OBVIOUS
    <2>3. CASE replies[r] = <<>>
      BY <2>3
    <2>4. CASE replies[r] = <<request[r].from>>
      BY <2>2, <2>4
    <2> QED BY <2>1, <2>3, <2>4
  <1> QED BY <1>1, PlatformInit, PlatformStep, PTL DEF Spec

\* managers_reg never has a manager without a row, whoever adds, deletes,
\* connects and disconnects it, in any order.
THEOREM RegisteredManagersHaveRows == Spec => []RegisteredHasRow
  <1>1. PlatformInv => RegisteredHasRow
    BY DEF PlatformInv, StoreInv
  <1> QED BY <1>1, PlatformInit, PlatformStep, PTL DEF Spec

\* The HTTP server never trusts the url of a manager without a row, or of
\* another owner's manager.
THEOREM TrustedUrlsHaveRows == Spec => []TrustedHasRow
  <1>1. PlatformInv => TrustedHasRow
    BY DEF PlatformInv, StoreInv
  <1> QED BY <1>1, PlatformInit, PlatformStep, PTL DEF Spec

\* A request for a manager only goes to a session whose request to connect as
\* that manager was accepted, with a key of its owner that profile.auth accepts.
THEOREM OnlyOwnersAreForwardedTo == Spec => []ForwardedToOwner
  <1>1. PlatformInv => ForwardedToOwner
    BY DEF PlatformInv, CommandsOwned, ConnectedAs, ForwardedToOwner
  <1> QED BY <1>1, PlatformInit, PlatformStep, PTL DEF Spec
=============================================================================
