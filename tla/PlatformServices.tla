-------------------------- MODULE PlatformServices --------------------------
(***************************************************************************)
(* The services of stream-platform: router, profile, managers and          *)
(* manager_info, over FIFO inboxes (ActorDelivery), with the sessions of   *)
(* the websocket server and the trusted urls of the HTTP server, both      *)
(* called on the thread of the sender.  Owners sign up and register        *)
(* managers; a manager connects under its key; a request that names a      *)
(* manager is forwarded to it with the session of the client, and the      *)
(* answer of the manager brings that session back.  A handler that throws  *)
(* ends the process, for nothing between it and the worker's thread        *)
(* catches.                                                                *)
(***************************************************************************)
EXTENDS Naturals, Sequences, FiniteSets

CONSTANTS
  Transports,           \* ids of websocket sessions
  Logins, Passwords,
  Names,                \* names of managers
  LongNames,            \* those of more than six characters
  Scenes,               \* what clients and managers send: sets of requests that
                        \* are sent together, with a bound on them and on the
                        \* notifications
  MaxCalls, MaxNotify,  \* bounds: requests, notifications of managers
  Persisted,            \* the contents the database may have at startup
  Rests,                \* what may follow the second dot of a key
  Empty,                \* the empty string, which may be a login, a password, ...
  Wrong,                \* a parameter that is there and is not a string
  None                  \* an absent parameter; no entry in a map

\* A profile_key is split on its dots: the first part, the second (None in a
\* key without a dot) and what follows.  Logins and passwords have no dot in
\* them: no key names one that has.
Keys == {k \in Logins \X (Passwords \cup {None}) \X (Rests \cup {None}) :
           k[2] = None => k[3] = None}

ManagerKeys == Logins \X Names     \* key: profile_login + "." + name

Services == {"router", "profile", "managers", "manager"}

\* The handlers that local_actor gives every actor.
Standard == {"sync_contacts", "skip", "add_channel"}

\* message_types() of the services a request may name.
Handlers(s) ==
  Standard \cup
  (CASE s = "profile"  -> {"signup", "login", "auth"}
     [] s = "managers" -> {"add", "delete", "list", "connect", "disconnect",
                           "request", "response"}
     [] s = "manager"  -> {"info"}
     [] OTHER          -> {})

\* The handlers that do not take a task.
TakesNoTask == Standard \cup {"response"}

Bad == {None, Wrong}

\* key and manager are the metadata profile-key and manager-key; the others
\* are parameters.  A method is the sequence of its parts between dots, empty
\* when it is not a string.
Call == [from : Transports, method : Seq(STRING),
         key : Keys \cup Bad, manager : ManagerKeys \cup Bad,
         login : Logins \cup Bad, password : Passwords \cup Bad,
         name : Names \cup Bad, mkey : ManagerKeys \cup {Empty} \cup Bad]

Calls == UNION {scene.calls : scene \in Scenes}

ASSUME PlatformAssumption ==
  /\ LongNames \subseteq Names
  /\ Calls \subseteq Call
  /\ \A p \in Persisted :
       /\ p.profiles \subseteq Logins \X Passwords /\ p.rows \subseteq ManagerKeys
       /\ \A k, l \in p.profiles : k[1] = l[1] => k = l
  /\ MaxCalls \in Nat /\ MaxNotify \in Nat
  /\ \A scene \in Scenes : scene.max \in 0..MaxCalls /\ scene.notifies \in 0..MaxNotify
  /\ Bad \cap (Keys \cup ManagerKeys \cup Logins \cup Passwords \cup Rests
              \cup Names \cup Transports) = {}
  /\ Empty \notin Bad \cup ManagerKeys

VARIABLES
  process,    \* "running", or "terminated" by an exception
  inbox,      \* inbox[s]: the messages service s has not handled yet
  request,    \* the requests that arrived, in the order of arrival
  outcome,    \* outcome[r]: what became of request r
  replies,    \* replies[r]: the sessions a reply to request r was written to
  session,    \* session[t]: the connection, and its entry in ws_listener
  commands,   \* <<r, t>>: session t of a manager has been sent request r
  told,       \* the sessions of managers that were sent disconnect
  notes,      \* the number of notifications managers have sent
  profiles,   \* table profile: <<login, password>>, one row per login
  rows,       \* table managers: the keys
  auth,       \* profiles_auth: the keys that have been authenticated
  reg,        \* managers_reg: the session of a connected manager
  trusted     \* trusted_url of the HTTP server: <<login, key>>

net == <<process, session, commands, told, notes>>
caches == <<auth, reg, trusted>>
tables == <<profiles, rows>>
vars == <<inbox, request, outcome, replies, net, tables, caches>>

Contents(q) == {q[i] : i \in DOMAIN q}

\* The handlers of the router, the errors and notifications that sessions
\* send it, and the handlers that a request may name.
MessageTypes ==
  {"dispatcher", "service", "error", "notify"}
    \cup UNION {Handlers(s) : s \in Services}

\* A message between services: r is the request of a task or of an answer,
\* to is metadata.transport of an answer, from the session of an answer or of
\* an error.
Message == [h : MessageTypes, r : Nat, to : Transports \cup {None},
            from : Transports \cup {None}]

Task(h, r) == [h |-> h, r |-> r, to |-> None, from |-> None]

Busy == {"working", "answering"}

TypeOK ==
  /\ process \in {"running", "terminated"}
  /\ inbox \in [Services -> Seq(Message)]
  /\ request \in Seq(Calls)
  /\ outcome \in [DOMAIN request -> Busy \cup {"ok", "error", "forwarded", "answered",
                                              "silent", "lost"}]
  /\ replies \in [DOMAIN request -> Seq(Transports)]
  /\ session \in [Transports -> {"new", "open", "dead", "gone"}]
  /\ commands \subseteq (DOMAIN request) \X Transports
  /\ told \subseteq Transports
  /\ notes \in 0..MaxNotify
  /\ profiles \subseteq Logins \X Passwords /\ auth \subseteq Keys
  /\ rows \subseteq ManagerKeys
  /\ reg \in [ManagerKeys -> Transports \cup {None}]
  /\ trusted \subseteq Logins \X ManagerKeys

\* startup of profile and managers: a table is created unless the database
\* has it, the caches are new.
ProfileStartup(p) == profiles = p.profiles /\ auth = {}

ManagersStartup(p) == rows = p.rows /\ reg = [k \in ManagerKeys |-> None]

Init ==
  /\ process = "running"
  /\ inbox = [s \in Services |-> <<>>]
  /\ request = <<>> /\ outcome = <<>> /\ replies = <<>>
  /\ session = [t \in Transports |-> "new"]
  /\ commands = {} /\ told = {} /\ notes = 0
  /\ \E p \in Persisted : ProfileStartup(p) /\ ManagersStartup(p)
  /\ trusted = {}

-----------------------------------------------------------------------------
(* Receiving, forwarding and replying. *)

\* The request of the task that s handles.
Params(s) == request[Head(inbox[s]).r]

\* The parameters that a handler reads as strings.
Reads(q, s, h) ==
  CASE s = "profile" /\ h \in {"signup", "login"}                -> {q.login, q.password}
    [] s = "managers" /\ h = "add"                               -> {q.name}
    [] s = "managers" /\ h \in {"delete", "connect", "disconnect"} -> {q.mkey}
    [] s = "managers" /\ h = "request"                           -> {q.manager}
    [] OTHER                                                     -> {}

\* A task has got to a handler that does not take one.
Misplaced(m) == m.h \in TakesNoTask /\ m.r # 0 /\ m.from = None

\* The handler of the next message reads a value that is absent, or not what
\* it should be, where nothing catches the exception.
Throws(s) ==
  LET m == Head(inbox[s])
      q == Params(s)
  IN  \/ m.h = "response" /\ m.r = 0 /\ m.to = None
      \/ /\ m.r # 0
         /\ \/ m.h = "dispatcher" /\ q.method = <<>>
            \/ m.h = "auth" /\ q.key = Wrong
            \/ Reads(q, s, m.h) \cap Bad # {}

\* Service s handles a message of type h.
Received(s, h) ==
  /\ process = "running"
  /\ inbox[s] # <<>> /\ Head(inbox[s]).h = h
  /\ ~Misplaced(Head(inbox[s])) /\ ~Throws(s)

Done(s) == inbox' = [inbox EXCEPT ![s] = Tail(@)]

\* ctx->addresses(to)->send(message), the last thing handlers do.
Forward(s, to, m) ==
  /\ inbox' = [inbox EXCEPT ![s] = Tail(@), ![to] = Append(@, m)]
  /\ UNCHANGED <<outcome, replies>>

\* ws_response->body = ...; addresses("ws")->send("write"): a reply to the
\* session of the task.  ws_listener drops it if it does not know the session.
Reply(s, what) ==
  LET r == Head(inbox[s]).r IN
  /\ Done(s)
  /\ outcome' = [outcome EXCEPT ![r] = what]
  /\ replies' = [replies EXCEPT ![r] = Append(@, request[r].from)]

\* A string that is not empty.
Filled(x) == x \notin Bad \cup {Empty}

\* A handler that only reads: an answer, or the error of an empty parameter,
\* of the comparison or of the database.
Query(s, h, possible) ==
  /\ Received(s, h)
  /\ \/ possible /\ Reply(s, "ok")
     \/ Reply(s, "error")
  /\ UNCHANGED <<request, net, tables, caches>>

-----------------------------------------------------------------------------
(* router *)

GuestMethods ==
  {<<"profile", "signup">>, <<"profile", "login">>, <<"manager", "info">>}

\* A request: a manager-key goes to managers whatever the method, a
\* profile-key is authenticated, without either only guest methods pass.
RouterRequest ==
  /\ Received("router", "dispatcher")
  /\ LET r == Head(inbox["router"]).r
         q == Params("router")
     IN  \/ /\ q.manager # None
            /\ Forward("router", "managers", Task("request", r))
         \/ /\ q.manager = None /\ q.key # None /\ Len(q.method) > 1
            /\ Forward("router", "profile", Task("auth", r))
         \/ /\ q.manager = None /\ q.key = None /\ q.method \in GuestMethods
            /\ Forward("router", q.method[1], Task(q.method[2], r))
         \/ /\ q.manager = None
            /\ Len(q.method) > 1 => q.key = None /\ q.method \notin GuestMethods
            /\ Reply("router", "error")
  /\ UNCHANGED <<request, net, tables, caches>>

\* The answer or the notification of a manager goes to managers as it is.
RouterFromManager ==
  /\ \E h \in {"response", "notify"} : Received("router", h)
  /\ Forward("router", "managers",
             [Head(inbox["router"]) EXCEPT !.h = "response"])
  /\ UNCHANGED <<request, net, tables, caches>>

\* An authenticated task: the service and its handler must exist.
RouterService ==
  /\ Received("router", "service")
  /\ LET q == Params("router") IN
       IF /\ q.method[1] \in Services \ {"router"}
          /\ q.method[2] \in Handlers(q.method[1])
         THEN Forward("router", q.method[1],
                      Task(q.method[2], Head(inbox["router"]).r))
         ELSE Reply("router", "error")
  /\ UNCHANGED <<request, net, tables, caches>>

\* A read error: the session is removed from ws_listener, closed first unless
\* the peer has reset it.  What skip sends holds no transport (see Undefined).
RouterError ==
  /\ Received("router", "error")
  /\ session' = [t \in Transports |->
                   IF t = Head(inbox["router"]).from THEN "gone" ELSE session[t]]
  /\ Done("router")
  /\ UNCHANGED <<process, request, outcome, replies, commands, told, notes, tables,
                 caches>>

ManagerInfo == Received("manager", "info") /\ Reply("manager", "ok")
               /\ UNCHANGED <<request, net, tables, caches>>

-----------------------------------------------------------------------------
(* profile *)

\* login is the primary key of the table.
ProfileSignup ==
  /\ Received("profile", "signup")
  /\ LET q == Params("profile") IN
       \/ /\ Filled(q.login) /\ Filled(q.password)
          /\ \A k \in profiles : k[1] # q.login
          /\ profiles' = profiles \cup {<<q.login, q.password>>}
          /\ Reply("profile", "ok")
       \/ UNCHANGED profiles /\ Reply("profile", "error")
  /\ UNCHANGED <<request, net, rows, caches>>

ProfileLogin ==
  LET q == Params("profile") IN
    Query("profile", "login",
          /\ Filled(q.login) /\ Filled(q.password)
          /\ <<q.login, q.password>> \in profiles)

\* profile[1] is the password of profile[0]'s row, or empty when there is no
\* row; in a key without a dot it is read out of bounds and may be anything.
Matches(k) ==
  \/ <<k[1], k[2]>> \in profiles
  \/ k[2] = Empty /\ \A row \in profiles : row[1] # k[1]
  \/ k[2] = None

\* Mutant: the return after a failed comparison is missing.
ProfileAuthFallsThrough ==
  /\ Received("profile", "auth")
  /\ LET r == Head(inbox["profile"]).r
         k == request[r].key
     IN  /\ inbox' = [inbox EXCEPT !["profile"] = Tail(@),
                        !["router"] = Append(@, Task("service", r))]
         /\ \/ Matches(k) /\ auth' = auth \cup {k} /\ UNCHANGED outcome
            \/ UNCHANGED auth /\ outcome' = [outcome EXCEPT ![r] = "error"]
  /\ UNCHANGED <<request, replies, net, tables, reg, trusted>>

\* Mutant: an error of the database is swallowed.
ProfileAuthSilent ==
  /\ Received("profile", "auth")
  /\ LET k == Params("profile").key
         pass == Forward("profile", "router",
                         Task("service", Head(inbox["profile"]).r))
     IN  \/ k \in auth /\ pass /\ UNCHANGED auth
         \/ /\ k \notin auth
            /\ \/ Matches(k) /\ auth' = auth \cup {k} /\ pass
               \/ /\ Done("profile")
                  /\ UNCHANGED <<auth, outcome, replies>>
  /\ UNCHANGED <<request, net, tables, reg, trusted>>

\* A cached key passes; in any other the login and the password are compared.
ProfileAuth ==
  /\ Received("profile", "auth")
  /\ LET k == Params("profile").key
         pass == Forward("profile", "router",
                         Task("service", Head(inbox["profile"]).r))
     IN  \/ k \in auth /\ pass /\ UNCHANGED auth
         \/ /\ k \notin auth
            /\ \/ Matches(k) /\ auth' = auth \cup {k} /\ pass
               \/ UNCHANGED auth /\ Reply("profile", "error")
  /\ UNCHANGED <<request, net, tables, reg, trusted>>

-----------------------------------------------------------------------------
(* managers *)

\* storage["profile.login"], which profile.auth has added to the task.
OwnerOf(q) == q.key[1]

\* add_trusted_url and remove_trusted_url of the HTTP server, which runs them
\* on the thread of the sender.
AddTrustedUrl(login, k) == trusted' = trusted \cup {<<login, k>>}

RemoveTrustedUrl(login, k) == trusted' = trusted \ {<<login, k>>}

\* Inserts the row and tells the HTTP server.
ManagersAdd ==
  /\ Received("managers", "add")
  /\ LET q == Params("managers")
         key == <<OwnerOf(q), q.name>>
     IN  \/ /\ Filled(q.name) /\ q.name \notin LongNames
            /\ key \notin rows
            /\ rows' = rows \cup {key}
            /\ AddTrustedUrl(OwnerOf(q), key)
            /\ Reply("managers", "ok")
         \/ UNCHANGED <<rows, trusted>> /\ Reply("managers", "error")
  /\ UNCHANGED <<request, net, profiles, auth, reg>>

\* remove_reg_manager
Unregister(k) == reg' = [j \in ManagerKeys |-> IF j = k THEN None ELSE reg[j]]

\* Mutant: the registration outlives the row.
ManagersDeleteRowOnly ==
  /\ Received("managers", "delete")
  /\ LET q == Params("managers") IN
       \/ /\ q.mkey # Empty
          /\ rows' = {k \in rows : k = q.mkey => k[1] # OwnerOf(q)}
          /\ RemoveTrustedUrl(OwnerOf(q), q.mkey)
          /\ Reply("managers", "ok")
       \/ UNCHANGED <<rows, trusted>> /\ Reply("managers", "error")
  /\ UNCHANGED <<request, net, profiles, auth, reg>>

\* Mutant: the HTTP server is not told.
ManagersDeleteKeepsUrl ==
  /\ Received("managers", "delete")
  /\ LET q == Params("managers") IN
       \/ /\ q.mkey # Empty
          /\ rows' = {k \in rows : k = q.mkey => k[1] # OwnerOf(q)}
          /\ Unregister(q.mkey)
          /\ Reply("managers", "ok")
       \/ UNCHANGED <<rows, reg>> /\ Reply("managers", "error")
  /\ UNCHANGED <<request, net, profiles, auth, trusted>>

\* Deletes the caller's row of that key, the url, and (whoever owns the key)
\* the registration; a registered manager is written the disconnect command,
\* which makes it close its connection.
ManagersDelete ==
  /\ Received("managers", "delete")
  /\ LET q == Params("managers") IN
       \/ /\ q.mkey # Empty
          /\ rows' = {k \in rows : k = q.mkey => k[1] # OwnerOf(q)}
          /\ RemoveTrustedUrl(OwnerOf(q), q.mkey)
          /\ told' = told \cup ({reg[q.mkey]} \ {None})
          /\ Unregister(q.mkey)
          /\ Reply("managers", "ok")
       \/ /\ UNCHANGED <<rows, trusted, told, reg>>
          /\ Reply("managers", "error")
  /\ UNCHANGED <<process, request, session, commands, notes, profiles, auth>>

ManagersList == Query("managers", "list", TRUE)

\* Mutant: whose manager it is is not asked.
OwnsAny(q) == q.mkey \in rows

\* count(*) where key = ? and profile_login = ?
Owns(q) == q.mkey \in rows /\ q.mkey[1] = OwnerOf(q)

\* add_reg_manager: emplace keeps an entry that is there.
Emplaced(k, t) == IF reg[k] = None THEN [reg EXCEPT ![k] = t] ELSE reg

ManagersConnect ==
  /\ Received("managers", "connect")
  /\ LET q == Params("managers") IN
       \/ /\ Owns(q)
          /\ reg' = Emplaced(q.mkey, q.from)
          /\ Reply("managers", "ok")
       \/ UNCHANGED reg /\ Reply("managers", "error")
  /\ UNCHANGED <<request, net, tables, auth, trusted>>

\* Removes the registration of the key and answers nothing.
ManagersDisconnect ==
  /\ Received("managers", "disconnect")
  /\ Unregister(Params("managers").mkey)
  /\ Done("managers")
  /\ outcome' = [outcome EXCEPT ![Head(inbox["managers"]).r] = "silent"]
  /\ UNCHANGED <<request, replies, net, tables, auth, trusted>>

\* The request goes to the session the manager is registered with, which has
\* it if the connection is still there.
ManagersRequest ==
  /\ Received("managers", "request")
  /\ LET q == Params("managers")
         r == Head(inbox["managers"]).r
         t == reg[q.manager]
     IN  \/ /\ t # None
            /\ Done("managers")
            /\ outcome' = [outcome EXCEPT ![r] = "forwarded"]
            /\ commands' = IF session[t] = "open" THEN commands \cup {<<r, t>>}
                                                  ELSE commands
            /\ UNCHANGED replies
         \/ /\ t = None
            /\ Reply("managers", "error")
            /\ UNCHANGED commands
  /\ UNCHANGED <<process, request, session, told, notes, tables, caches>>

\* Mutant: the answer goes to the session that it came from.
ManagersResponseBack ==
  /\ Received("managers", "response")
  /\ LET m == Head(inbox["managers"]) IN
       IF m.r = 0 THEN UNCHANGED <<outcome, replies>>
       ELSE /\ outcome' = [outcome EXCEPT ![m.r] = "answered"]
            /\ replies' = [replies EXCEPT ![m.r] = Append(@, m.from)]
  /\ Done("managers")
  /\ UNCHANGED <<request, net, tables, caches>>

\* Writes the answer, without its metadata, to metadata.transport.
ManagersResponse ==
  /\ Received("managers", "response")
  /\ LET m == Head(inbox["managers"]) IN
       IF m.r = 0 THEN UNCHANGED <<outcome, replies>>
       ELSE /\ outcome' = [outcome EXCEPT ![m.r] = "answered"]
            /\ replies' = [replies EXCEPT ![m.r] = Append(@, m.to)]
  /\ Done("managers")
  /\ UNCHANGED <<request, net, tables, caches>>

-----------------------------------------------------------------------------
(* Sessions of the websocket server, clients and managers. *)

\* main_pipe_->send(...) in ws_session.
ToRouter(m) == inbox' = [inbox EXCEPT !["router"] = Append(@, m)]

Accept(t) ==
  /\ session[t] = "new"
  /\ session' = [session EXCEPT ![t] = "open"]
  /\ UNCHANGED <<process, inbox, request, outcome, replies, commands, told, notes,
                 tables, caches>>

\* A session reads a request.
Arrive(c) ==
  /\ session[c.from] = "open"
  /\ request' = Append(request, c)
  /\ outcome' = Append(outcome, "working")
  /\ replies' = Append(replies, <<>>)
  /\ ToRouter(Task("dispatcher", Len(request) + 1))
  /\ UNCHANGED <<net, tables, caches>>

\* A connection ends by a close handshake: on_read returns and tells nobody.
CloseHandshake(t) ==
  /\ session[t] = "open"
  /\ session' = [session EXCEPT ![t] = "dead"]
  /\ UNCHANGED <<process, inbox, request, outcome, replies, commands, told, notes,
                 tables, caches>>

\* A connection breaks: on_read tells the router.
ReadError(t) ==
  /\ session[t] = "open"
  /\ session' = [session EXCEPT ![t] = "dead"]
  /\ ToRouter([Task("error", 0) EXCEPT !.from = t])
  /\ UNCHANGED <<process, request, outcome, replies, commands, told, notes, tables,
                 caches>>

\* A manager answers a request it was sent.  It was sent metadata.transport
\* with it, and platform::write of stream-manager puts it into the answer.
ManagerAnswer(r, t) ==
  /\ <<r, t>> \in commands
  /\ session[t] = "open"
  /\ commands' = commands \ {<<r, t>>}
  /\ outcome' = [outcome EXCEPT ![r] = "answering"]
  /\ ToRouter([Task("response", r) EXCEPT !.to = request[r].from, !.from = t])
  /\ UNCHANGED <<process, request, replies, session, told, notes, tables, caches>>

\* A notification for a client, whoever sends it; its metadata may not say for
\* which client.
ManagerNotify(t, to) ==
  /\ session[t] = "open"
  /\ notes' = notes + 1
  /\ ToRouter([Task("notify", 0) EXCEPT !.to = to, !.from = t])
  /\ UNCHANGED <<process, request, outcome, replies, session, commands, told, tables,
                 caches>>

-----------------------------------------------------------------------------
(* What ends a task without a reply, or ends the process *)

\* A handler that takes no task gets one: nobody answers it.  The handler skip
\* reports it to the sender, the router, in a message without a transport.
LoseTask(s) ==
  /\ process = "running"
  /\ inbox[s] # <<>> /\ Misplaced(Head(inbox[s]))
  /\ LET m == Head(inbox[s]) IN
       /\ outcome' = [outcome EXCEPT ![m.r] = "lost"]
       /\ \/ m.h # "skip" /\ Done(s)
          \/ m.h = "skip" /\ inbox' = [inbox EXCEPT ![s] = Tail(@),
                                          !["router"] = Append(@, Task("error", 0))]
  /\ UNCHANGED <<request, replies, net, tables, caches>>

\* The handler of the next message casts its body to what it is not, or reads
\* past the parts of a key: it may go on, or crash.
Undefined(s) ==
  LET m == Head(inbox[s])
  IN  \/ Misplaced(m) /\ m.h # "skip"
      \/ m.h = "error" /\ m.from = None
      \/ /\ m.h = "auth" /\ ~Throws(s)
         /\ Params(s).key \notin auth /\ Params(s).key[2] = None

Terminate ==
  /\ process = "running"
  /\ \E s \in Services : inbox[s] # <<>> /\ (Throws(s) \/ Undefined(s))
  /\ process' = "terminated"
  /\ UNCHANGED <<inbox, request, outcome, replies, session, commands, told, notes,
                 tables, caches>>

-----------------------------------------------------------------------------

RouterStep == RouterRequest \/ RouterFromManager \/ RouterService \/ RouterError

ProfileStep == ProfileSignup \/ ProfileLogin \/ ProfileAuth \/ LoseTask("profile")

ManagersStep ==
  \/ ManagersAdd \/ ManagersDelete \/ ManagersList
  \/ ManagersConnect \/ ManagersDisconnect
  \/ ManagersRequest \/ ManagersResponse
  \/ LoseTask("managers")

ManagerStep == ManagerInfo \/ LoseTask("manager")

Environment ==
  /\ process = "running"
  /\ \/ \E scene \in Scenes :
          /\ Contents(request) \subseteq scene.calls /\ notes <= scene.notifies
          /\ \/ /\ Len(request) < scene.max
                /\ \E c \in scene.calls : Arrive(c)
             \/ /\ notes < scene.notifies
                /\ \E t \in Transports, to \in Transports \cup {None} : ManagerNotify(t, to)
     \/ \E t \in Transports :
          \/ Accept(t) \/ CloseHandshake(t) \/ ReadError(t)
          \/ \E r \in DOMAIN request : ManagerAnswer(r, t)

Next ==
  \/ RouterStep \/ ProfileStep \/ ManagersStep \/ ManagerStep
  \/ Terminate \/ Environment

Spec == Init /\ [][Next]_vars

\* Every service with a message runs (Delivered of ActorRuntime), and what it
\* throws is not caught.
Fairness ==
  /\ WF_vars(RouterStep) /\ WF_vars(ProfileStep)
  /\ WF_vars(ManagersStep) /\ WF_vars(ManagerStep)
  /\ WF_vars(Terminate)

FairSpec == Spec /\ Fairness

-----------------------------------------------------------------------------
(* Properties *)

\* The first two parts of a method are the service and its handler.
Invokes(q, s, h) == Len(q.method) > 1 /\ q.method[1] = s /\ q.method[2] = h

\* Where the task of request r, or the answer of a manager to it, is waiting.
Places(r) ==
  UNION {{<<s, i>> : i \in {j \in DOMAIN inbox[s] : inbox[s][j].r = r}} :
         s \in Services}

\* The router sends the request to profile, to authenticate it.
Keyed(q) == q.manager = None /\ q.key # None /\ Len(q.method) > 1

\* A request with a profile-key names a handler that takes no task.
Misnames(q) == Keyed(q) /\ q.method[2] \in TakesNoTask

\* No request is lost or doubled on its way through the services of the
\* platform, out to a manager and back: while it is being worked on or its
\* answer relayed it is in exactly one inbox, otherwise in none.  Only a
\* request that names a handler which takes no task is lost.
TaskInOnePlace ==
  \A r \in DOMAIN request :
    /\ IF outcome[r] \in Busy
         THEN \E p \in Places(r) : Places(r) = {p}
         ELSE Places(r) = {}
    /\ outcome[r] = "lost" => Misnames(request[r])

\* A client gets at most one reply to a request, and no other client gets it,
\* also when the reply has gone to a manager and back.
RepliesReachAsker ==
  \A r \in DOMAIN request :
    /\ Len(replies[r]) <= 1
    /\ \A i \in DOMAIN replies[r] : replies[r][i] = request[r].from

\* The cache of connected managers is not ahead of the table: a manager that
\* requests are forwarded to has a row.
RegisteredHasRow == \A k \in ManagerKeys : reg[k] # None => k \in rows

\* The HTTP server trusts the url of a manager only while it has a row.
TrustedHasRow == \A u \in trusted : u[2] \in rows /\ u[1] = u[2][1]

\* What profile.auth accepts: the login and the password of a row, an empty
\* password (that of a login without a row), and whatever a key without a dot
\* is taken for.
Authenticated(k) ==
  /\ k \in Keys
  /\ <<k[1], k[2]>> \in profiles \/ k[2] \in {Empty, None}

\* A request for a manager is passed only to a session whose request to connect
\* as that manager has been accepted, with an authenticated key of the profile
\* that owns it.
ForwardedToOwner ==
  \A x \in commands :
    \E i \in DOMAIN request :
      /\ Invokes(request[i], "managers", "connect") /\ outcome[i] = "ok"
      /\ request[i].from = x[2]
      /\ request[i].mkey = request[x[1]].manager
      /\ Authenticated(request[i].key)
      /\ request[i].key[1] = request[x[1]].manager[1]

\* Every request is eventually answered, forwarded or (disconnect) dropped,
\* unless it, or one before it, ends the process.  Two requests with a
\* profile-key are not: for a handler that takes no task, and for profile.auth,
\* which the router and profile pass to each other for ever.
Answered ==
  \A r \in 1..MaxCalls :
    /\ r \in DOMAIN request
    /\ ~Misnames(request[r])
    /\ ~(Keyed(request[r]) /\ Invokes(request[r], "profile", "auth"))
    ~>
    \/ process = "terminated"
    \/ r \in DOMAIN request /\ outcome[r] \notin Busy \cup {"lost"}
=============================================================================
