-------------------------- MODULE ManagerServices --------------------------
(***************************************************************************)
(* The services of stream-manager: router, users, groups, subscriptions,   *)
(* connections, devices and manager_info.  Each is an actor with a FIFO    *)
(* inbox (what ActorDelivery promises) and handles one message at a time.  *)
(* A request hops from service to service; the service that ends it writes *)
(* the reply to the websocket provider, which runs on the caller's thread. *)
(* Each handler is one action.  A handler that throws ends the process, for *)
(* nothing between it and the worker's thread catches.  The tables live in *)
(* the manager's database and outlive the process; the caches of the       *)
(* services start empty.                                                   *)
(***************************************************************************)
EXTENDS Naturals, Sequences, FiniteSets

CONSTANTS
  Transports,  \* ids of websocket sessions
  Remote,      \* those of clients that are connected to the platform
  Logins, Passwords, Devices, Groups,
  ProfileKey,  \* the key of the manager's owner, who is its administrator
  Scenes,      \* what clients and devices send: sets of requests that are sent
               \* together, with a bound on them and on the notifications
  MaxCalls,    \* bound: requests in one behaviour
  MaxNotify,   \* bound: notifications of devices in one behaviour
  Persisted,   \* the contents the database may have at startup
  Rests,       \* what may follow the second dot of a key
  Empty,       \* the empty string, which may be a login, a password, ...
  Wrong,       \* a parameter that is there and is not a string
  None         \* an absent parameter; no entry in a map

\* A user_key is split on its dots: the first part, the second (None in a key
\* without a dot) and what follows.  Logins and passwords have no dot in them:
\* no key names one that has.
Keys == {k \in Logins \X (Passwords \cup {None}) \X (Rests \cup {None}) :
           k[2] = None => k[3] = None}

Services == {"router", "users", "groups", "subscriptions", "connections",
             "devices", "manager"}

\* The handlers that local_actor gives every actor.
Standard == {"sync_contacts", "skip", "add_channel"}

\* message_types() of the services a request may name.
Handlers(s) ==
  Standard \cup
  (CASE s = "users"         -> {"add", "delete", "list", "login", "auth"}
     [] s = "groups"        -> {"add", "delete", "list"}
     [] s = "subscriptions" -> {"add", "delete", "list", "devices", "groups",
                                "on", "off", "emit"}
     [] s = "connections"   -> {"add", "delete", "list", "groups", "devices",
                                "subscribe", "unsubscribe"}
     [] s = "devices"       -> {"add", "delete", "list", "detail", "control",
                                "connect", "disconnect", "request", "response",
                                "notify", "subscribe", "unsubscribe"}
     [] OTHER               -> {})

\* The handlers that do not take a task.
TakesNoTask == Standard \cup {"emit", "response", "notify"}

Bad == {None, Wrong}

\* A method is the sequence of its parts between dots, empty when it is not a
\* string.  detail is what else a handler reads: the action of a command, the
\* name of a group, the lists of a device (odd: one holds more than strings);
\* groups are the device-groups, or for connections.groups the parameters.
Call == [from : Transports, method : Seq(STRING), key : Keys \cup Bad,
         login : Logins \cup Bad, password : Passwords \cup Bad,
         device : Devices \cup Bad, group : Groups \cup Bad,
         detail : {"some", "odd", Empty} \cup Bad,
         groups : [Groups -> Nat] \cup {None}]

Calls == UNION {scene.calls : scene \in Scenes}

ASSUME ManagerAssumption ==
  /\ Remote \subseteq Transports
  /\ ProfileKey \in Keys
  /\ Calls \subseteq Call
  /\ \A p \in Persisted :
       /\ p.users \subseteq Logins \X Passwords /\ p.groups \subseteq Groups
       /\ p.subs \in [Groups \X Logins -> Nat]
       /\ p.conns \in [Groups \X Devices -> Nat]
       /\ p.devices \subseteq Devices
       /\ \A k, l \in p.users : k[1] = l[1] => k = l
  /\ MaxCalls \in Nat
  /\ \A scene \in Scenes : scene.max \in 0..MaxCalls /\ scene.notifies \in 0..MaxNotify
  /\ MaxNotify \in Nat
  /\ Bad \cap (Keys \cup Logins \cup Passwords \cup Rests \cup Devices
              \cup Groups \cup Transports) = {}
  /\ None \notin [Groups -> Nat]
  /\ Empty \notin Bad \cup {"some", "odd"}

VARIABLES
  process,      \* "running", or "terminated" by an exception
  inbox,        \* inbox[s]: the messages service s has not handled yet
  request,      \* the requests that arrived, in the order of arrival
  outcome,      \* outcome[r]: what became of request r
  commands,     \* <<r, t>>: session t was sent the command of request r
  session,      \* session[t]: the connection, and its entry in ws_listener
  notified,     \* <<t, d>>: session t was sent a notification of device d
  notifies,     \* the number of notifications devices have sent
  users,        \* table users: <<login, password>>, one row per login
  groups,       \* table groups: the keys
  subs,         \* table subscriptions: how often it has row <<group, login>>
  conns,        \* table connections: how often it has row <<group, device>>
  devices,      \* table devices: the keys
  auth,         \* users_auth: <<key that was authenticated, its login>>
  reg,          \* devices_reg: the session of a connected device
  subscribers,  \* device_subscribe_transport_reg
  enrolled,     \* history: every row that users has held
  granted,      \* history: every row that subs has held
  attached      \* history: every row that conns has held

tables == <<users, groups, subs, conns, devices, enrolled, granted, attached>>
caches == <<auth, reg, subscribers>>
net == <<process, commands, session, notified, notifies>>
vars == <<inbox, request, outcome, net, tables, caches>>

Contents(q) == {q[i] : i \in DOMAIN q}

\* The tables subscriptions and connections have no key: a row may be there
\* several times.
Rows(table) == {row \in DOMAIN table : table[row] > 0}

\* The keys of groups that a query returned, and how often each.
NoGroups == [g \in Groups |-> 0]

MessageTypes ==
  {"dispatcher", "service", "error", "info"} \cup UNION {Handlers(s) : s \in Services}

\* A message between services.  Tasks carry their request; the answer of a
\* device carries the request it answers; from is the session of an error.
Message == [h : MessageTypes, r : Nat, device : Devices \cup {None},
            from : Transports \cup {None}, groups : [Groups -> Nat] \cup {None}]

Task(h, r) ==
  [h |-> h, r |-> r, device |-> None, from |-> None, groups |-> NoGroups]

Busy == {"working", "answering"}

Outcome == [what : Busy \cup {"ok", "error", "denied", "command", "answered",
                              "mixed", "silent", "lost"},
            via : {"session", "lost", "platform", None}]

TypeOK ==
  /\ process \in {"running", "terminated"}
  /\ inbox \in [Services -> Seq(Message)]
  /\ request \in Seq(Calls)
  /\ outcome \in [DOMAIN request -> Outcome]
  /\ commands \subseteq (DOMAIN request) \X Transports
  /\ session \in [Transports -> {"new", "open", "dead", "gone", "remote"}]
  /\ notified \subseteq Transports \X Devices
  /\ notifies \in 0..MaxNotify
  /\ users \subseteq Logins \X Passwords /\ enrolled \subseteq Logins \X Passwords
  /\ groups \subseteq Groups
  /\ subs \in [Groups \X Logins -> Nat] /\ granted \subseteq Groups \X Logins
  /\ conns \in [Groups \X Devices -> Nat] /\ attached \subseteq Groups \X Devices
  /\ devices \subseteq Devices
  /\ auth \subseteq Keys \X (Logins \cup {Empty})
  /\ reg \in [Devices -> Transports \cup {None}]
  /\ subscribers \in [Devices -> (SUBSET Transports) \cup {None}]

\* startup of the services: the tables are created unless the database has
\* them, the caches are new.
UsersStartup(p) == users = p.users /\ enrolled = p.users /\ auth = {}

GroupsStartup(p) == groups = p.groups

ConnectionsStartup(p) == conns = p.conns /\ attached = Rows(p.conns)

SubscriptionsStartup(p) ==
  /\ subs = p.subs /\ granted = Rows(p.subs)
  /\ subscribers = [d \in Devices |-> None]

DevicesStartup(p) == devices = p.devices /\ reg = [d \in Devices |-> None]

Init ==
  /\ process = "running"
  /\ inbox = [s \in Services |-> <<>>]
  /\ request = <<>>
  /\ outcome = <<>>
  /\ commands = {}
  /\ session = [t \in Transports |-> IF t \in Remote THEN "remote" ELSE "new"]
  /\ notified = {}
  /\ notifies = 0
  /\ \E p \in Persisted :
       /\ UsersStartup(p) /\ GroupsStartup(p) /\ ConnectionsStartup(p)
       /\ SubscriptionsStartup(p) /\ DevicesStartup(p)

-----------------------------------------------------------------------------
(* Receiving, forwarding and replying. *)

\* The request of the task that s handles.
Params(s) == request[Head(inbox[s]).r]

\* is_reg_device
Registered(d) == d \notin Bad /\ reg[d] # None

\* The parameters that a handler reads as what they should be.
Reads(q, s, h) ==
  CASE s = "users" /\ h \in {"add", "login"}         -> {q.login, q.password}
    [] s = "users" /\ h = "delete"                   -> {q.login}
    [] s = "groups" /\ h = "add"                     -> {q.group, q.detail}
    [] s = "groups" /\ h = "delete"                  -> {q.group}
    [] s = "connections" /\ h \in {"add", "delete"}  -> {q.group, q.device}
    [] s = "subscriptions" /\ h \in {"add", "delete"} -> {q.group, q.login}
    [] s \in {"connections", "subscriptions"} /\ h = "list" -> {q.group}
    [] s = "connections" /\ h \in {"devices", "subscribe", "unsubscribe"} -> {q.device}
    [] s = "subscriptions" /\ h \in {"on", "off"}    -> {q.device}
    [] s = "devices" /\ h = "connect"                -> {q.device, q.detail}
    [] s = "devices" /\ h \in {"add", "delete", "detail", "disconnect",
                               "request", "subscribe", "unsubscribe"} -> {q.device}
    [] OTHER                                         -> {}

\* A task has got to a handler that does not take one.
Misplaced(m) == m.h \in TakesNoTask /\ m.r # 0 /\ m.from = None

\* The handler of the next message reads a value that is absent, or not what
\* it should be, where nothing catches the exception.
Throws(s) ==
  LET m == Head(inbox[s])
      q == Params(s)
  IN  \/ m.h = "notify" /\ m.r = 0 /\ s = "devices" /\ m.device = None
      \/ /\ m.r # 0
         /\ \/ m.h = "dispatcher" /\ q.method = <<>>
            \/ m.h = "auth" /\ q.key = Wrong
            \/ Reads(q, s, m.h) \cap Bad # {}
            \/ m.h = "control" /\ q.device = Wrong
            \/ m.h = "request" /\ Registered(q.device) /\ q.detail \in Bad
            \/ m.h \in {"groups", "on"} /\ m.groups = None

\* Service s handles a message of type h.
Received(s, h) ==
  /\ process = "running"
  /\ inbox[s] # <<>> /\ Head(inbox[s]).h = h
  /\ ~Misplaced(Head(inbox[s])) /\ ~Throws(s)

Done(s) == inbox' = [inbox EXCEPT ![s] = Tail(@)]

\* ctx->addresses(to)->send(message), the last thing handlers do.
Forward(s, to, m) ==
  /\ inbox' = [inbox EXCEPT ![s] = Tail(@), ![to] = Append(@, m)]
  /\ UNCHANGED outcome

\* What ws_listener::write does for session t: a session it does not know is
\* taken for one of the platform; one whose connection ended is still known.
Via(t) ==
  CASE session[t] = "open" -> "session"
    [] session[t] = "dead" -> "lost"
    [] OTHER               -> "platform"

\* A reply to the client that sent the request.
Reply(s, what) ==
  /\ Done(s)
  /\ outcome' = [outcome EXCEPT ![Head(inbox[s]).r] =
                   [what |-> what, via |-> Via(Params(s).from)]]

Admin(q) == q.key = ProfileKey

\* A string that is not empty.
Filled(x) == x \notin Bad \cup {Empty}

\* The router takes the service and the handler from the first two parts of
\* the method, and compares the whole of it with the lists of methods below.
Names(q, s, h) == Len(q.method) > 1 /\ q.method[1] = s /\ q.method[2] = h

\* The first column of the rows whose second column is x.
Select(table, x) == [g \in Groups |-> table[<<g, x>>]]

\* "group_key in (?)" with the keys joined by commas: one string, so that it
\* equals a group key (which holds no comma) only when it is made of one.
InJoined(g, gs) == gs = [NoGroups EXCEPT ![g] = 1]

\* A handler that only reads a table: an answer, or the error of an empty
\* parameter or of the database.
Query(s, h, possible) ==
  /\ Received(s, h)
  /\ \/ possible /\ Reply(s, "ok")
     \/ Reply(s, "error")
  /\ UNCHANGED <<request, net, tables, caches>>

-----------------------------------------------------------------------------
(* router *)

GuestMethods == {<<"users", "login">>, <<"manager", "info">>}

UserMethods ==
  {<<"devices", "list">>, <<"devices", "control">>, <<"devices", "detail">>,
   <<"devices", "subscribe">>, <<"subscriptions", "devices">>,
   <<"devices", "unsubscribe">>, <<"connections", "subscribe">>,
   <<"connections", "unsubscribe">>}

\* A request: authenticate its key; without a key only guest methods pass.
RouterRequest ==
  /\ Received("router", "dispatcher")
  /\ LET r == Head(inbox["router"]).r
         q == Params("router")
     IN  \/ /\ Len(q.method) > 1
            /\ q.key # None
            /\ Forward("router", "users", Task("auth", r))
         \/ /\ q.method \in GuestMethods
            /\ q.key = None
            /\ Forward("router", q.method[1], Task(q.method[2], r))
         \/ /\ Len(q.method) > 1 => q.key = None /\ q.method \notin GuestMethods
            /\ Reply("router", "error")
  /\ UNCHANGED <<request, net, tables, caches>>

\* The answer or the notification of a device goes to devices as it is.
RouterFromDevice ==
  /\ \E h \in {"response", "notify"} : Received("router", h)
  /\ Forward("router", "devices", Head(inbox["router"]))
  /\ UNCHANGED <<request, net, tables, caches>>

\* Mutant: a task that is not allowed is dropped without a reply.
RouterServiceDrops ==
  /\ Received("router", "service")
  /\ LET q == Params("router") IN
       IF /\ q.method[1] \in Services \ {"router", "manager"}
          /\ q.method[2] \in Handlers(q.method[1])
          /\ Admin(q) \/ q.method \in UserMethods
         THEN Forward("router", q.method[1],
                      [Task(q.method[2], Head(inbox["router"]).r) EXCEPT
                         !.groups = q.groups])
         ELSE Done("router") /\ UNCHANGED outcome
  /\ UNCHANGED <<request, net, tables, caches>>

\* An authenticated task: the service and its handler must exist, and the
\* handler be open to users unless the administrator calls.
RouterService ==
  /\ Received("router", "service")
  /\ LET q == Params("router")
         allowed == /\ q.method[1] \in Services \ {"router", "manager"}
                    /\ q.method[2] \in Handlers(q.method[1])
                    /\ Admin(q) \/ q.method \in UserMethods
     IN  IF allowed
           THEN Forward("router", q.method[1],
                        [Task(q.method[2], Head(inbox["router"]).r) EXCEPT
                           !.groups = q.groups])
           ELSE Reply("router", "error")
  /\ UNCHANGED <<request, net, tables, caches>>

\* A read error of a session: remove it from ws_listener, or close it first.
\* What skip sends holds no transport (see Undefined).
RouterError ==
  /\ Received("router", "error")
  /\ session' = [t \in Transports |->
                   IF t = Head(inbox["router"]).from THEN "gone" ELSE session[t]]
  /\ Done("router")
  /\ UNCHANGED <<process, request, outcome, commands, notified, notifies, tables,
                 caches>>

\* manager_info
ManagerInfo ==
  /\ Received("manager", "info")
  /\ Reply("manager", "ok")
  /\ UNCHANGED <<request, net, tables, caches>>

-----------------------------------------------------------------------------
(* users *)

UsersAdd ==
  /\ Received("users", "add")
  /\ LET q == Params("users") IN
       \/ /\ Filled(q.login) /\ Filled(q.password)
          /\ \A row \in users : row[1] # q.login
          /\ users' = users \cup {<<q.login, q.password>>}
          /\ enrolled' = enrolled \cup {<<q.login, q.password>>}
          /\ Reply("users", "ok")
       \/ UNCHANGED <<users, enrolled>> /\ Reply("users", "error")
  /\ UNCHANGED <<request, net, groups, subs, conns, devices, granted, attached,
                 caches>>

\* Mutant: the cache is not told of the deletion.
UsersDeleteRowOnly ==
  /\ Received("users", "delete")
  /\ LET q == Params("users") IN
       \/ /\ Filled(q.login)
          /\ users' = {row \in users : row[1] # q.login}
          /\ Reply("users", "ok")
       \/ UNCHANGED users /\ Reply("users", "error")
  /\ UNCHANGED <<request, net, groups, subs, conns, devices, enrolled,
                 granted, attached, caches>>

\* is_auth: the keys in the cache.
AuthKeys == {e[1] : e \in auth}

\* remove_auth_login erases the first entry that it finds for the login.
RemoveAuthLogin(login) ==
  \/ (\A e \in auth : e[2] # login) /\ UNCHANGED auth
  \/ \E e \in auth : e[2] = login /\ auth' = auth \ {e}

\* Deletes the row, then a cached key of the login.
UsersDelete ==
  /\ Received("users", "delete")
  /\ LET q == Params("users") IN
       \/ /\ Filled(q.login)
          /\ users' = {row \in users : row[1] # q.login}
          /\ RemoveAuthLogin(q.login)
          /\ Reply("users", "ok")
       \/ UNCHANGED <<users, auth>> /\ Reply("users", "error")
  /\ UNCHANGED <<request, net, groups, subs, conns, devices, enrolled,
                 granted, attached, reg, subscribers>>

UsersList == Query("users", "list", TRUE)

UsersLogin ==
  LET q == Params("users")
  IN  Query("users", "login",
            /\ Filled(q.login) /\ Filled(q.password)
            /\ \/ <<q.login, q.password>> \in users
               \/ <<q.login, q.password, None>> = ProfileKey)

\* user[1] is the password of user[0]'s row, or empty when there is no row; in
\* a key without a dot it is read out of bounds and may be anything.
Matches(k) ==
  \/ <<k[1], k[2]>> \in users
  \/ k[2] = Empty /\ \A row \in users : row[1] # k[1]
  \/ k[2] = None

\* The login that the query returns.
LoginOf(k) == IF \E row \in users : row[1] = k[1] THEN k[1] ELSE Empty

\* Mutant: key and value of users_auth are swapped.
UsersAuthByLogin ==
  /\ Received("users", "auth")
  /\ LET k == Params("users").key
         pass == Forward("users", "router",
                         Task("service", Head(inbox["users"]).r))
     IN  \/ /\ k \in AuthKeys \cup {ProfileKey}
            /\ pass
            /\ UNCHANGED auth
         \/ /\ k \notin AuthKeys \cup {ProfileKey}
            /\ \/ Matches(k) /\ auth' = auth \cup {<<LoginOf(k), k>>} /\ pass
               \/ UNCHANGED auth /\ Reply("users", "error")
  /\ UNCHANGED <<request, net, tables, reg, subscribers>>

\* A cached key or the administrator's passes; any other is looked up.
UsersAuth ==
  /\ Received("users", "auth")
  /\ LET k == Params("users").key
         pass == Forward("users", "router",
                         Task("service", Head(inbox["users"]).r))
     IN  \/ /\ k \in AuthKeys \cup {ProfileKey}
            /\ pass
            /\ UNCHANGED auth
         \/ /\ k \notin AuthKeys \cup {ProfileKey}
            /\ \/ Matches(k) /\ auth' = auth \cup {<<k, LoginOf(k)>>} /\ pass
               \/ UNCHANGED auth /\ Reply("users", "error")
  /\ UNCHANGED <<request, net, tables, reg, subscribers>>

-----------------------------------------------------------------------------
(* groups *)

GroupsAdd ==
  /\ Received("groups", "add")
  /\ LET q == Params("groups") IN
       \/ /\ Filled(q.group) /\ Filled(q.detail) /\ q.group \notin groups
          /\ groups' = groups \cup {q.group}
          /\ Reply("groups", "ok")
       \/ UNCHANGED groups /\ Reply("groups", "error")
  /\ UNCHANGED <<request, net, users, subs, conns, devices, enrolled,
                 granted, attached, caches>>

GroupsDelete ==
  /\ Received("groups", "delete")
  /\ LET q == Params("groups") IN
       \/ Filled(q.group) /\ groups' = groups \ {q.group} /\ Reply("groups", "ok")
       \/ UNCHANGED groups /\ Reply("groups", "error")
  /\ UNCHANGED <<request, net, users, subs, conns, devices, enrolled,
                 granted, attached, caches>>

GroupsList == Query("groups", "list", TRUE)

-----------------------------------------------------------------------------
(* connections: which devices are in which groups *)

ConnectionsAdd ==
  /\ Received("connections", "add")
  /\ LET q == Params("connections")
         row == <<q.group, q.device>>
     IN  \/ /\ Filled(q.group) /\ Filled(q.device)
            /\ conns' = [conns EXCEPT ![row] = @ + 1]
            /\ attached' = attached \cup {row}
            /\ Reply("connections", "ok")
         \/ UNCHANGED <<conns, attached>> /\ Reply("connections", "error")
  /\ UNCHANGED <<request, net, users, groups, subs, devices, enrolled,
                 granted, caches>>

ConnectionsDelete ==
  /\ Received("connections", "delete")
  /\ LET q == Params("connections") IN
       \/ /\ Filled(q.group) /\ Filled(q.device)
          /\ conns' = [conns EXCEPT ![<<q.group, q.device>>] = 0]
          /\ Reply("connections", "ok")
       \/ UNCHANGED conns /\ Reply("connections", "error")
  /\ UNCHANGED <<request, net, users, groups, subs, devices, enrolled,
                 granted, attached, caches>>

ConnectionsList ==
  Query("connections", "list", Filled(Params("connections").group))

\* The devices of a list of groups, for subscriptions.devices.
ConnectionsGroups ==
  Query("connections", "groups", Head(inbox["connections"]).groups # NoGroups)

\* Mutant: the handler does not return after it has passed the task on, and
\* replies as if the device had no groups.
WithDeviceGroupsFallsThrough(h, next) ==
  /\ Received("connections", h)
  /\ LET m == Head(inbox["connections"])
         gs == Select(conns, request[m.r].device)
         task == [Task(next, m.r) EXCEPT !.groups = gs]
     IN  /\ inbox' = [inbox EXCEPT !["connections"] = Tail(@),
                                   !["subscriptions"] = Append(@, task)]
         /\ outcome' = [outcome EXCEPT ![m.r] =
                          [what |-> "error", via |-> Via(request[m.r].from)]]
  /\ UNCHANGED <<request, net, tables, caches>>

\* Add the groups of the request's device to the task and pass it on to
\* handler next of subscriptions.
WithDeviceGroups(h, next) ==
  /\ Received("connections", h)
  /\ LET q == Params("connections")
         gs == Select(conns, q.device)
     IN  \/ /\ Filled(q.device) /\ gs # NoGroups
            /\ Forward("connections", "subscriptions",
                 [Task(next, Head(inbox["connections"]).r) EXCEPT !.groups = gs])
         \/ Reply("connections", "error")
  /\ UNCHANGED <<request, net, tables, caches>>

ConnectionsDevices == WithDeviceGroups("devices", "groups")

ConnectionsSubscribe == WithDeviceGroups("subscribe", "on")

ConnectionsUnsubscribe ==
  /\ Received("connections", "unsubscribe")
  /\ IF Filled(Params("connections").device)
       THEN Forward("connections", "subscriptions",
                    Task("off", Head(inbox["connections"]).r))
       ELSE Reply("connections", "error")
  /\ UNCHANGED <<request, net, tables, caches>>

-----------------------------------------------------------------------------
(* subscriptions: which users are in which groups, who listens to whom *)

SubscriptionsAdd ==
  /\ Received("subscriptions", "add")
  /\ LET q == Params("subscriptions")
         row == <<q.group, q.login>>
     IN  \/ /\ Filled(q.group) /\ Filled(q.login)
            /\ subs' = [subs EXCEPT ![row] = @ + 1]
            /\ granted' = granted \cup {row}
            /\ Reply("subscriptions", "ok")
         \/ UNCHANGED <<subs, granted>> /\ Reply("subscriptions", "error")
  /\ UNCHANGED <<request, net, users, groups, conns, devices, enrolled,
                 attached, caches>>

SubscriptionsDelete ==
  /\ Received("subscriptions", "delete")
  /\ LET q == Params("subscriptions") IN
       \/ /\ Filled(q.group) /\ Filled(q.login)
          /\ subs' = [subs EXCEPT ![<<q.group, q.login>>] = 0]
          /\ Reply("subscriptions", "ok")
       \/ UNCHANGED subs /\ Reply("subscriptions", "error")
  /\ UNCHANGED <<request, net, users, groups, conns, devices, enrolled,
                 granted, attached, caches>>

SubscriptionsList ==
  Query("subscriptions", "list", Filled(Params("subscriptions").group))

SubscriptionsDevices ==
  /\ Received("subscriptions", "devices")
  /\ LET gs == Select(subs, Params("subscriptions").key[1]) IN
       \/ Forward("subscriptions", "connections",
            [Task("groups", Head(inbox["subscriptions"]).r) EXCEPT !.groups = gs])
       \/ Reply("subscriptions", "error")
  /\ UNCHANGED <<request, net, tables, caches>>

\* Mutant: the number of common groups is compared with >= 0.
HasAccessAlways(q, gs) == q.key \in Keys

\* The user is in the groups of the device, as the query finds out, or is
\* the administrator.
HasAccess(q, gs) ==
  \/ \E g \in Groups : InJoined(g, gs) /\ subs[<<g, q.key[1]>>] > 0
  \/ Admin(q)

\* The check of devices.control.
SubscriptionsGroups ==
  /\ Received("subscriptions", "groups")
  /\ LET m == Head(inbox["subscriptions"])
         q == Params("subscriptions")
     IN  \/ /\ m.groups # NoGroups /\ HasAccess(q, m.groups)
            /\ Forward("subscriptions", "devices", Task("request", m.r))
         \/ /\ m.groups # NoGroups /\ ~HasAccess(q, m.groups)
            /\ Reply("subscriptions", "denied")
         \/ Reply("subscriptions", "error")
  /\ UNCHANGED <<request, net, tables, caches>>

\* get_device_subscribes; a device without a list has no listeners.
Listeners(d) == IF subscribers[d] = None THEN {} ELSE subscribers[d]

\* Start to listen to a device: the list of the device is made on demand.
SubscriptionsOn ==
  /\ Received("subscriptions", "on")
  /\ LET m == Head(inbox["subscriptions"])
         q == Params("subscriptions")
         known == Listeners(q.device)
     IN  \/ /\ m.groups # NoGroups /\ HasAccess(q, m.groups)
            /\ subscribers' = [subscribers EXCEPT ![q.device] = known \cup {q.from}]
            /\ Reply("subscriptions",
                     IF q.from \in known THEN "error" ELSE "ok")
         \/ /\ m.groups # NoGroups /\ ~HasAccess(q, m.groups)
            /\ Reply("subscriptions", "denied")
            /\ UNCHANGED subscribers
         \/ Reply("subscriptions", "error") /\ UNCHANGED subscribers
  /\ UNCHANGED <<request, net, tables, auth, reg>>

\* Stop to listen.  The reply to a session that is not in the list holds both
\* an error and a result.
SubscriptionsOff ==
  /\ Received("subscriptions", "off")
  /\ LET q == Params("subscriptions") IN
       IF q.from \in Listeners(q.device)
         THEN /\ subscribers' = [subscribers EXCEPT ![q.device] = @ \ {q.from}]
              /\ Reply("subscriptions", "ok")
         ELSE /\ Reply("subscriptions",
                       IF subscribers[q.device] = None THEN "error" ELSE "mixed")
              /\ UNCHANGED subscribers
  /\ UNCHANGED <<request, net, tables, auth, reg>>

\* A notification of a device is written to every session that listens.
SubscriptionsEmit ==
  /\ Received("subscriptions", "emit")
  /\ LET d == Head(inbox["subscriptions"]).device IN
       notified' = notified \cup (Listeners(d) \X {d})
  /\ Done("subscriptions")
  /\ UNCHANGED <<process, request, outcome, commands, session, notifies, tables,
                 caches>>

-----------------------------------------------------------------------------
(* devices: the devices of the manager and the sessions they are on *)

DevicesAdd ==
  /\ Received("devices", "add")
  /\ LET q == Params("devices") IN
       \/ /\ Filled(q.device) /\ q.device \notin devices
          /\ devices' = devices \cup {q.device}
          /\ Reply("devices", "ok")
       \/ UNCHANGED devices /\ Reply("devices", "error")
  /\ UNCHANGED <<request, net, users, groups, subs, conns, enrolled,
                 granted, attached, caches>>

\* The row only: the device stays registered.
DevicesDelete ==
  /\ Received("devices", "delete")
  /\ LET q == Params("devices") IN
       \/ /\ Filled(q.device)
          /\ devices' = devices \ {q.device}
          /\ Reply("devices", "ok")
       \/ UNCHANGED devices /\ Reply("devices", "error")
  /\ UNCHANGED <<request, net, users, groups, subs, conns, enrolled,
                 granted, attached, caches>>

DevicesList == Query("devices", "list", TRUE)

DevicesDetail ==
  Query("devices", "detail", Registered(Params("devices").device))

\* Pass a task about a registered device on to handler next of connections.
IfRegistered(h, next) ==
  /\ Received("devices", h)
  /\ IF Registered(Params("devices").device)
       THEN Forward("devices", "connections",
                    Task(next, Head(inbox["devices"]).r))
       ELSE Reply("devices", "error")
  /\ UNCHANGED <<request, net, tables, caches>>

DevicesControl == IfRegistered("control", "devices")

DevicesSubscribe == IfRegistered("subscribe", "subscribe")

\* Mutant: a short cut past connections, which adds nothing to the task.
DevicesUnsubscribeShortcut ==
  /\ Received("devices", "unsubscribe")
  /\ IF Registered(Params("devices").device)
       THEN Forward("devices", "subscriptions",
                    Task("off", Head(inbox["devices"]).r))
       ELSE Reply("devices", "error")
  /\ UNCHANGED <<request, net, tables, caches>>

DevicesUnsubscribe == IfRegistered("unsubscribe", "unsubscribe")

\* add_reg_device emplaces: an entry that is there stays.
AddReg(d, t) == [reg EXCEPT ![d] = IF @ = None THEN t ELSE @]

\* remove_reg_device
RemoveReg(d) == [e \in Devices |-> IF e = d THEN None ELSE reg[e]]

\* The reply is the same whether or not the device was registered before.  An
\* element that is not a string throws after the result has been set.
DevicesConnect ==
  /\ Received("devices", "connect")
  /\ LET q == Params("devices") IN
       \/ /\ q.device \in devices /\ q.detail = "some"
          /\ reg' = AddReg(q.device, q.from)
          /\ Reply("devices", "ok")
       \/ /\ q.device \in devices /\ q.detail = "odd"
          /\ UNCHANGED reg /\ Reply("devices", "mixed")
       \/ UNCHANGED reg /\ Reply("devices", "error")
  /\ UNCHANGED <<request, net, tables, auth, subscribers>>

\* There is no reply.
DevicesDisconnect ==
  /\ Received("devices", "disconnect")
  /\ LET m == Head(inbox["devices"]) IN
       /\ reg' = RemoveReg(request[m.r].device)
       /\ outcome' = [outcome EXCEPT ![m.r] = [what |-> "silent", via |-> None]]
  /\ Done("devices")
  /\ UNCHANGED <<request, net, tables, auth, subscribers>>

\* The command is written to the session the device is registered with.
DevicesRequest ==
  /\ Received("devices", "request")
  /\ LET m == Head(inbox["devices"])
         d == Params("devices").device
     IN  \/ /\ Registered(d)
            /\ Done("devices")
            /\ outcome' = [outcome EXCEPT ![m.r] =
                             [what |-> "command", via |-> Via(reg[d])]]
            /\ commands' = IF Via(reg[d]) = "session"
                             THEN commands \cup {<<m.r, reg[d]>>} ELSE commands
         \/ /\ ~Registered(d)
            /\ Reply("devices", "error")
            /\ UNCHANGED commands
  /\ UNCHANGED <<process, request, session, notified, notifies, tables, caches>>

\* The answer of a registered device is written to the client's session.
DevicesResponse ==
  /\ Received("devices", "response")
  /\ LET m == Head(inbox["devices"]) IN
       IF Registered(m.device)
         THEN Reply("devices", "answered")
         ELSE /\ Done("devices")
              /\ outcome' = [outcome EXCEPT ![m.r] = [what |-> "silent", via |-> None]]
  /\ UNCHANGED <<request, net, tables, caches>>

DevicesNotify ==
  /\ Received("devices", "notify")
  /\ LET m == Head(inbox["devices"]) IN
       IF Registered(m.device)
         THEN Forward("devices", "subscriptions", [m EXCEPT !.h = "emit"])
         ELSE Done("devices") /\ UNCHANGED outcome
  /\ UNCHANGED <<request, net, tables, caches>>

-----------------------------------------------------------------------------
(* Sessions: the websocket provider, its clients and the devices *)

ToRouter(m) == inbox' = [inbox EXCEPT !["router"] = Append(@, m)]

\* ws_listener::on_accept.
Accept(t) ==
  /\ session[t] = "new"
  /\ session' = [session EXCEPT ![t] = "open"]
  /\ UNCHANGED <<process, inbox, request, outcome, commands, notified, notifies,
                 tables, caches>>

\* ws_session::on_read of a request, or the platform service's dispatcher
\* for the request of a remote client.
Arrive(c) ==
  /\ session[c.from] \in {"open", "remote"}
  /\ request' = Append(request, c)
  /\ outcome' = Append(outcome, [what |-> "working", via |-> None])
  /\ ToRouter(Task("dispatcher", Len(request) + 1))
  /\ UNCHANGED <<net, tables, caches>>

\* A connection ends by a close handshake: on_read returns and tells nobody.
CloseHandshake(t) ==
  /\ session[t] = "open"
  /\ session' = [session EXCEPT ![t] = "dead"]
  /\ UNCHANGED <<process, inbox, request, outcome, commands, notified, notifies,
                 tables, caches>>

\* A connection breaks: on_read tells the router.
ReadError(t) ==
  /\ session[t] = "open"
  /\ session' = [session EXCEPT ![t] = "dead"]
  /\ ToRouter([Task("error", 0) EXCEPT !.from = t])
  /\ UNCHANGED <<process, request, outcome, commands, notified, notifies, tables,
                 caches>>

\* A device answers a command it was sent.
DeviceAnswer(r, t) ==
  /\ <<r, t>> \in commands
  /\ session[t] = "open"
  /\ commands' = commands \ {<<r, t>>}
  /\ outcome' = [outcome EXCEPT ![r] = [what |-> "answering", via |-> None]]
  /\ ToRouter([Task("response", r) EXCEPT !.device = request[r].device, !.from = t])
  /\ UNCHANGED <<process, request, session, notified, notifies, tables, caches>>

\* A notification of a device, whoever sends it; its metadata may not say
\* which device.
DeviceNotify(t, d) ==
  /\ session[t] = "open"
  /\ notifies' = notifies + 1
  /\ ToRouter([Task("notify", 0) EXCEPT !.device = d])
  /\ UNCHANGED <<process, request, outcome, commands, session, notified, tables,
                 caches>>

-----------------------------------------------------------------------------
(* What ends a task without a reply, or ends the process *)

\* A handler that takes no task gets one: nobody answers it.  The handler skip
\* reports it to the sender, the router, in a message without a transport.
LoseTask(s) ==
  /\ process = "running"
  /\ inbox[s] # <<>> /\ Misplaced(Head(inbox[s]))
  /\ LET m == Head(inbox[s]) IN
       /\ outcome' = [outcome EXCEPT ![m.r] = [what |-> "lost", via |-> None]]
       /\ \/ m.h # "skip" /\ Done(s)
          \/ m.h = "skip" /\ inbox' = [inbox EXCEPT ![s] = Tail(@),
                                          !["router"] = Append(@, Task("error", 0))]
  /\ UNCHANGED <<request, net, tables, caches>>

\* The handler of the next message casts its body to what it is not, or reads
\* past the parts of a key: it may go on, or crash.
Undefined(s) ==
  LET m == Head(inbox[s])
  IN  \/ Misplaced(m) /\ m.h # "skip"
      \/ m.h = "error" /\ m.from = None
      \/ /\ m.h = "auth" /\ ~Throws(s)
         /\ Params(s).key \notin AuthKeys \cup {ProfileKey}
         /\ Params(s).key[2] = None

Terminate ==
  /\ process = "running"
  /\ \E s \in Services : inbox[s] # <<>> /\ (Throws(s) \/ Undefined(s))
  /\ process' = "terminated"
  /\ UNCHANGED <<inbox, request, outcome, commands, session, notified, notifies,
                 tables, caches>>

-----------------------------------------------------------------------------

RouterStep == RouterRequest \/ RouterFromDevice \/ RouterService \/ RouterError

UsersStep ==
  \/ UsersAdd \/ UsersDelete \/ UsersList \/ UsersLogin \/ UsersAuth
  \/ LoseTask("users")

GroupsStep == GroupsAdd \/ GroupsDelete \/ GroupsList \/ LoseTask("groups")

ConnectionsStep ==
  \/ ConnectionsAdd \/ ConnectionsDelete \/ ConnectionsList
  \/ ConnectionsGroups \/ ConnectionsDevices
  \/ ConnectionsSubscribe \/ ConnectionsUnsubscribe
  \/ LoseTask("connections")

SubscriptionsStep ==
  \/ SubscriptionsAdd \/ SubscriptionsDelete \/ SubscriptionsList
  \/ SubscriptionsDevices \/ SubscriptionsGroups
  \/ SubscriptionsOn \/ SubscriptionsOff \/ SubscriptionsEmit
  \/ LoseTask("subscriptions")

DevicesStep ==
  \/ DevicesAdd \/ DevicesDelete \/ DevicesList \/ DevicesDetail
  \/ DevicesControl \/ DevicesSubscribe \/ DevicesUnsubscribe
  \/ DevicesConnect \/ DevicesDisconnect
  \/ DevicesRequest \/ DevicesResponse \/ DevicesNotify
  \/ LoseTask("devices")

Environment ==
  /\ process = "running"
  /\ \/ \E scene \in Scenes :
          /\ Contents(request) \subseteq scene.calls /\ notifies <= scene.notifies
          /\ \/ /\ Len(request) < scene.max
                /\ \E c \in scene.calls : Arrive(c)
             \/ /\ notifies < scene.notifies
                /\ \E t \in Transports, d \in Devices \cup {None} : DeviceNotify(t, d)
     \/ \E t \in Transports :
          \/ Accept(t) \/ CloseHandshake(t) \/ ReadError(t)
          \/ \E r \in DOMAIN request : DeviceAnswer(r, t)

Next ==
  \/ RouterStep \/ UsersStep \/ GroupsStep \/ ConnectionsStep
  \/ SubscriptionsStep \/ DevicesStep \/ ManagerInfo
  \/ Terminate \/ Environment

Spec == Init /\ [][Next]_vars

\* Every service with a message runs (Delivered of ActorRuntime), and what it
\* throws is not caught.
Fairness ==
  /\ WF_vars(RouterStep) /\ WF_vars(UsersStep) /\ WF_vars(GroupsStep)
  /\ WF_vars(ConnectionsStep) /\ WF_vars(SubscriptionsStep)
  /\ WF_vars(DevicesStep) /\ WF_vars(ManagerInfo)
  /\ WF_vars(Terminate)

FairSpec == Spec /\ Fairness

-----------------------------------------------------------------------------
(* Properties *)

\* Where the task of request r, or the answer to its command, is waiting.
Places(r) ==
  UNION {{<<s, i>> : i \in {j \in DOMAIN inbox[s] : inbox[s][j].r = r}} :
         s \in Services}

\* The request of an administrator that names a handler which takes no task.
Misnames(q) == Admin(q) /\ Len(q.method) > 1 /\ q.method[2] \in TakesNoTask

\* No request is lost or answered twice on its way through the services: one
\* that is being worked on is in exactly one inbox, and one that has been
\* answered, passed to a device or dropped by disconnect is in none.  Only an
\* administrator's request for a handler that takes no task is lost.
TaskInOnePlace ==
  \A r \in DOMAIN request :
    /\ IF outcome[r].what \in Busy
         THEN \E p \in Places(r) : Places(r) = {p}
         ELSE Places(r) = {}
    /\ outcome[r].what = "lost" => Misnames(request[r])

\* What users.auth accepts: the owner's key, the login and the password of a
\* row that the table has held, an empty password (that of a login without a
\* row), and whatever a key without a dot is taken for.
Authenticated(k) ==
  /\ k \in Keys
  /\ \/ k = ProfileKey
     \/ <<k[1], k[2]>> \in enrolled
     \/ k[2] \in {Empty, None}

\* The user of request q and its device have been in a common group.
Shared(q) ==
  \E g \in Groups : /\ <<g, q.key[1]>> \in granted
                    /\ <<g, q.device>> \in attached

\* A command reaches a device only for the administrator, or for devices
\* .control of an authenticated user who has been in a common group with the
\* device, although the groups of the device and those of the user are read
\* by two services at two times.
CommandAuthorized ==
  \A r \in DOMAIN request :
    outcome[r].what \in {"command", "answering", "answered"} =>
      /\ Authenticated(request[r].key)
      /\ \/ Admin(request[r])
         \/ Names(request[r], "devices", "control") /\ Shared(request[r])

\* The requests that end at subscriptions.on; the last is the administrator's.
Subscribes(q) ==
  \/ Names(q, "devices", "subscribe") \/ Names(q, "connections", "subscribe")
  \/ Names(q, "subscriptions", "on")

\* Who listens to a device, or has been sent a notification of it, has had a
\* request to subscribe to it accepted, with an authenticated key and with the
\* access that devices.control asks for.
ListenersAuthorized ==
  \A d \in Devices, t \in Transports :
    \/ subscribers[d] # None /\ t \in subscribers[d]
    \/ <<t, d>> \in notified
    =>
    \E r \in DOMAIN request :
      /\ Subscribes(request[r]) /\ outcome[r].what = "ok"
      /\ request[r].from = t /\ request[r].device = d
      /\ Authenticated(request[r].key)
      /\ Admin(request[r]) \/ Shared(request[r])

\* A key as users.login makes it, of a login and a password that are not empty.
Issued(k) == k[2] \notin {Empty, None} /\ k[3] = None

\* For a login that is only used with keys of the form that users.login hands
\* out, the cache of authenticated keys is never ahead of the table: a cached
\* key is the login and the password of an existing user.  (A key with a third
\* part or an empty password is cached too, as another entry, and deleting the
\* user removes one entry.)
AuthCacheFresh ==
  \A login \in Logins :
    (\A i \in DOMAIN request :
       request[i].key \in Keys /\ request[i].key[1] = login => Issued(request[i].key))
    => \A k \in AuthKeys : k[1] = login => <<k[1], k[2]>> \in users

\* No request takes away what subscribe q found, or is a subscribe of the same
\* session to the same device after j.
Undisturbed(q, j) ==
  \A i \in DOMAIN request :
    /\ ~(Names(request[i], "devices", "disconnect") /\ request[i].device = q.device)
    /\ ~(Names(request[i], "users", "delete") /\ request[i].login = q.key[1])
    /\ Subscribes(request[i]) =>
         i < j \/ request[i].from # q.from \/ request[i].device # q.device

\* An unsubscribe does not overtake the subscribe before it on the way through
\* the services, and does not fail when that has succeeded: when both are done
\* the session does not listen any more, unless it subscribed again, or the
\* device was disconnected or the user deleted in between.
UnsubscribeIsFinal ==
  \A i, j \in DOMAIN request :
    LET q == request[i]
    IN  /\ i < j
        /\ Names(q, "devices", "subscribe")
        /\ request[j].method = <<"devices", "unsubscribe">>
        /\ request[j].from = q.from /\ request[j].device = q.device
        /\ request[j].key = q.key
        /\ outcome[i].what = "ok" /\ outcome[j].what \notin Busy
        /\ Undisturbed(q, j)
        => subscribers[q.device] = None \/ q.from \notin subscribers[q.device]

\* Every request is eventually answered, passed to a device or (disconnect)
\* dropped, unless it, or one before it, ends the process.  Two requests of an
\* administrator are not: for a handler that takes no task, and for users.auth,
\* which the router and users pass to each other for ever.
Answered ==
  \A r \in 1..MaxCalls :
    /\ r \in DOMAIN request
    /\ ~Misnames(request[r]) /\ ~(Admin(request[r]) /\ Names(request[r], "users", "auth"))
    ~>
    \/ process = "terminated"
    \/ r \in DOMAIN request /\ outcome[r].what \notin Busy \cup {"lost"}

\* devices.cpp: a command needs "at least one" common group of user and
\* device.  For tables that do not change while the manager runs.
AnyGroupSuffices ==
  \A r \in DOMAIN request :
    outcome[r].what = "denied" => ~Shared(request[r])
=============================================================================
