# A TLA+ verification of stream-cloud

stream-cloud connects devices, the managers that own them and a platform that
makes managers reachable. The three programs (`stream-device`,
`stream-manager`, `stream-platform`) share an actor runtime (`stream-core`), an
environment that wires services together (`stream-config`), websocket and HTTP
providers (`stream-providers`) and a websocket client (`stream-client`). They
exchange JSON-RPC messages over websockets.

This directory holds the TLA+ model of the runtime, of the three programs built
on it, of their websocket and HTTP connections and of the libraries under them
(JSON, JSON-RPC, base64, the wrapper of SQLite), the TLC configurations that
check them on small instances, and TLAPS proofs. `PROJECT.json` is the index:
components, runs, mutants, the map from definitions to source lines, findings,
hazards, theorems.

## Inventory

| Component | State | Operations | Talks to |
|---|---|---|---|
| Actor runtime (`stream-core` actor, messaging, executor) | job queue, mailbox of three queues per actor, worker threads | `send` (put, submit), `run`, `dequeue`, `enqueue` | every service; the io thread sends too |
| Groups and wiring (`stream-core/environment`) | one table of actors with layers, contacts and channels of each actor, the turn of each group | `add`, `add_shared`, `join`, `send`, `broadcast`; `sync_contacts`, `add_channel` | services |
| Environment (`stream-config`) | configuration, services, providers, io loop | load or generate, constructors, startup, shutdown on SIGINT/SIGTERM | everything |
| Manager services (`stream-manager`) | tables users, groups, subscriptions, connections, devices; caches `users_auth`, `devices_reg`, `device_subscribe_transport_reg` | JSON-RPC methods | each other by messages, the websocket provider by call |
| Manager's platform service | none of its own | dispatcher, handshake, error, write | websocket client, router |
| Websocket client | one stream, write queue, closing message | run, write, close, reconnect | platform service by messages |
| Websocket server | registry of sessions, a write queue each | accept, read, write, close, remove | router by messages |
| HTTP server | pipeline of at most 8 responses, a timer; trusted urls | accept, read, answer, write, timer | files; managers of the platform fill the urls |
| Upgraded session of the HTTP server | ping state, timer | echo, ping, close | nobody yet: its creation is commented out |
| Platform services (`stream-platform`) | tables profile, managers; caches of keys and `managers_reg` | JSON-RPC methods, forwarding to managers and back | websocket server, HTTP server |
| Device agent (`stream-device`) | status of the control | on, off, status, the link to the manager | websocket client |
| JSON, JSON-RPC, settings (`stream-api`, `stream-settings`) | documents | edit, write, parse; serialize, classify, parse a message | all services |
| Base64 (`stream-crypt`) | none | encode, decode | nobody yet |
| Storage (`stream-storage`) | connection, statement, next index | prepare, bind, execute, rows | all services with tables |

What is hard here:

* **Concurrency.** A message and its job are published under two mutexes; one
  actor may be queued several times; part of the mailbox has no lock; the io
  thread and the worker threads use sessions together.
* **Many hops.** A request of a client is a task that is moved through up to
  eight messages between services; every handler has several early returns, and
  must forward or reply exactly once. Access is decided from two tables that
  two services read at two times.
* **Failure.** Connections break at any time, the link sleeps and reconnects,
  writes fail, the process stops between two steps.
* **Caches beside tables.** Authenticated keys, connected devices and managers,
  trusted urls, listeners.
* **Bounded pipelines and timers.** An HTTP session stops reading at eight
  responses and has to start again; its timer is moved and cancelled by every
  read.
* **Order of the start.** Actors learn names from messages; a handler that looks
  up a name too early throws. Constructors read keys a configuration need not
  have.
* **Conversions.** The parser is narrower than the writer, and reading a member
  of a document can change the document.

The properties that make each part correct are those below; every hazard is
listed in `PROJECT.json` at its line, with the property that covers it or the
reason why none does.

## Modules

| Module | Models | Kind |
|---|---|---|
| `ActorDelivery` | what the runtime promises: exactly-once handling, FIFO per actor | abstract specification |
| `ActorRuntime` | `async_actor`, `blocking_mail_queue`, `work_sharing`, `worker` | component, refines `ActorDelivery` |
| `ActorRuntimeProofs` | theorems about `ActorRuntime`, with any number of workers and with one | proofs |
| `ManagerServices` | router, users, groups, subscriptions, connections, devices, manager_info, the sessions of the websocket server | composition of seven services over FIFO inboxes |
| `ManagerServicesProofs` | theorems about `ManagerServices` | proofs |
| `PlatformServices` | router, profile, managers, manager_info, the trusted urls of the HTTP server | composition of four services over FIFO inboxes |
| `PlatformServicesProofs` | theorems about `PlatformServices` | proofs |
| `InboxTheorems` | inboxes of services: what taking, forwarding and adding a message does to the places of a request | lemmas for the two above |
| `PlatformLink` | client `ws_session` and `ws_client`, the manager's platform service, shutdown | composition of the io thread and an actor |
| `PlatformLinkProofs` | theorems about `PlatformLink` | proofs |
| `SessionLife` | what the services may assume of a websocket session | abstract specification |
| `IoLoop` | the one io loop of a program and its end | shared state of the servers |
| `WsServer` | `ws_listener`, `ws_session`, `ws_server` | component, refines `SessionLife` |
| `HttpServer` | `listener`, `http_session` with its queue, `http_server` | component |
| `UpgradedSession` | `websocket_session` of the HTTP server | component |
| `Providers` | the three above on one loop | composition |
| `ProvidersProofs` | theorems about `WsServer` and `HttpServer` inside `Providers` | proofs |
| `Wiring` | environment, groups, storage, standard handlers | component |
| `Programs` | `main`, `init_service` and the configuration of the three programs, what their handlers look up | the inputs of `Wiring` |
| `DeviceAgent` | manager and control of `stream-device`, the client as they use it | composition of two services and the client |
| `ProgramProofs` | theorems about `DeviceAgent` and `Wiring` | proofs |
| `Json`, `JsonRpc` | the JSON library, the messages and the settings service | components; `JsonRpc` extends `Json` |
| `Base64` | `base64.cpp` | pure functions with their inputs |
| `Statement` | `database` and `database_binder` | component |
| `LibraryProofs` | theorems about `Statement` and `Base64` | proofs |
| `MCActorRuntime`, `MCManagerServices`, `MCPlatformServices`, `MCProviders`, `MCProgram`, `MCLibrary` | instances for TLC | model checking |

Definitions whose comment starts with "Mutant" are plausible bugs. No
specification uses them; each shows that a property notices it.

### ActorRuntime

A thread sends in two steps, `Put` (the mailbox mutex) and `Submit` (the job
queue mutex). A worker is a program counter through `worker::run` and
`async_actor::run`; each critical section, and each unlocked access of the
cache, is one step:

| Location | Code |
|---|---|
| `dequeue`, `waiting` | `work_sharing::dequeue` and its condition variable |
| `pop`, `erase` | the two halves of `pop_to_cache` (`front`, `pop_front`) |
| `next`, `handler` | `next_message` and the reaction in the loop of `run` |
| `drain`, `drain_push` | the loop that moves the mailbox to the cache |
| `has_next`, `has_next_push` | `has_next_message` |
| `resume` | `resume_job_later` |

`get` refills `local_queue` from `mail_queue` when it is empty (`Synced`,
`TakeMail`). A handler may send while it runs. The condition variable wakes one
waiter per notification and may wake spuriously. Two unsynchronised operations
on one cache are undefined behaviour; `Crash` is the outcome that ends the
process, and the ordinary steps are the outcome where it survives.

Two things worth knowing follow from the code as it is modelled. With
`max_throughput_param_worker` 0, which the configuration accepts, the loop of
`run` handles nothing and `run` returns `resume` for ever. With more than one
worker the cache is shared (run `runtime_race`), and a message that one worker
has cached can be left behind when another one ends the last job of the actor:
`NoStrandedMessage` is true for one worker only, and all shipped configurations
start one.

### ManagerServices

Each service is an actor; its inbox is a FIFO queue, which is what
`ActorDelivery` promises and `Refinement` proves of the runtime, and its
handler is one atomic action, because one worker runs one handler at a time.
The providers are called synchronously on that thread, so a reply is part of
the action that makes it. `outcome[r]` records what became of request `r`, and
`via` where `ws_listener::write` sent it: to a session it knows, to one whose
connection has ended, or, for an id it does not know, to the platform.

Conventions:

* A message is a record with the fields the handlers look at; the contents of
  replies are left out. Logins and passwords contain no dot, and group keys no
  comma.
* A `user-key` is what `users.auth` makes of it by splitting it at its dots: the
  first part, the second, and the rest (`Keys`). Only the second is compared with
  the password, which is the empty string for a login that has no row
  (`Matches`); the whole key is cached, with the login of the row (`LoginOf`). A
  key without a dot is read past its end: the comparison may then go either way,
  or the process may crash (`Undefined`).
* Every actor has the handlers `sync_contacts`, `skip` and `add_channel`
  (`Standard`), and `message_types()` lists them, as it lists `emit`, `response`
  and `notify`. A request that names one of these is forwarded, and its task is
  lost (`LoseTask`): `skip` sends the router an error whose body is a string,
  the others read the task as another type (`Misplaced`). Reading a body as what
  it is not either does nothing or ends the process (`Undefined`).
* A parameter is a value, `None` when it is absent, or `Wrong` when it is not a
  string. Where a handler reads one of the last two outside every `try`
  (`Reads`, `Throws`), the exception ends the process (`Terminate`), because
  nothing between the handler and the worker's thread catches it. `odd` stands for a
  list of a device that holds more than strings.
* Every access to the database may fail, and is then answered with an error:
  the second disjunct of most handlers. Uniqueness violations of name columns
  that the model does not have are among these errors.
* `subs` and `conns` have no key in the database: a row may be there several
  times, and the table is a function from rows to how often (its order is seen
  by nobody but the client of a list). `users`, `groups` and `devices` have a
  primary key and are sets. A query for the groups of a device gives such a
  function too; `granted` and `attached` remember every row there has been.
* `group_key in (?)` with the keys joined by commas compares with one string:
  `InJoined` says when it is one group key, which takes exactly one row.
* The router takes service and handler from the first two parts of a method
  (`Names`), but compares the whole method with its lists: `devices.control.x`
  names a handler that only the administrator reaches by it.
* An administrator may name every handler, those meant for other services
  included: `users.auth` then goes round between router and users for ever.
* Devices answer a command once, in any order, and send notifications after
  they have asked to connect, as `stream-device` does.
* `UnsubscribeIsFinal` speaks of a subscribe that succeeded and a later
  unsubscribe of the same session with the same key, and excludes only what
  really takes their basis away (`Undisturbed`): a disconnect of the device, the
  deletion of the user, another subscribe after the unsubscribe.
* A session is `new`, `open`, `dead` (the connection has ended, `ws_listener`
  still knows it), `gone` (removed), or `remote`, a client of the platform.

### PlatformLink

`ops` holds the operations of the chain resolve, connect, handshake, read that
are outstanding; every one completes once, successfully or not. `writes` holds
the outstanding `async_write`s with the connection (`epoch`) they were started
on. `posted` is the strand's queue, `que` the session's, `sent` what was written
to which connection, `accepted` the history of everything given to `write`.
`Break` is the environment. `ErrorGone` and `Reconnect` are the two halves of
the error handler around its ten seconds' sleep, during which the service
handles nothing else. `shutdown` runs twice, from the signal handler and after
the io loop has returned; no handler of the io thread runs after the first.

### PlatformServices

The conventions are those of `ManagerServices`. A key of a manager is
`profile_login.name`. `managers.add` refuses long
names; `delete` changes the table, the trusted urls and the registry in one
handler. Its one statement on the database may fail, and nothing is changed then;
what follows are sends to actors that are always known and an erasure, so it
is done completely or not at all. A request that names a manager is forwarded with the session of the client in its
metadata, and the manager's answer brings the id back; `replies`
and `commands` are the histories that `RepliesReachAsker` and
`ForwardedToOwner` speak about: the latter asks that a session that is sent a
request has sent a `managers.connect` for that manager which was answered with
`ok`, with a key whose login is the owner's and which `profile.auth` accepts
(`Authenticated`). The manager behind the session is the environment: it answers once, in any order.

The code keeps two things less tightly than one might expect, and the model
follows it: `add_reg_manager` emplaces, so a manager that connects again without
having said good-bye keeps its old session in the registry; and `router::error`
does not remove a registration.

### WsServer, SessionLife

A service's `write` is two steps, the lookup in `storage_sessions` and the post
to the strand, because the io thread may insert a session in between: the map
has no lock. A lookup that an insertion overlaps may miss or end the process
(`loop = "crashed"`). `Stop` is the environment's shutdown. `ImplementsSessions`
is the refinement `WsServer => SessionLife`: requests come from open sessions
only, an end is reported at most once, nothing is heard after it. That is what
`ManagerServices` and `PlatformServices` take for granted of a session. Ids of
sessions are microseconds of a clock and are assumed distinct.

### HttpServer, UpgradedSession

`items` is the queue of an HTTP session, `busy` the writes, `reads` the reads
under way, `wait` and `due` the timer. `Statuses` is the answer of
`listener::operator()` by method, target, host and file; for a request without a
Host field `req.at` throws (`Throws`), and the exception ends the process. In `UpgradedSession` a ping, its completion,
a control frame and the timer race on `ping_state_`; the `BOOST_ASSERT` of
`on_ping` can fail when a ping takes longer than the timer and a control frame
comes before it is written, which the model has as an end of the process.

### Wiring, Programs

A program is a list of calls (`Programs`) with what its actors look up and its
configuration (`program`); the calls are executed one by one (`at`) before
anything runs. The table of actors is the one of `storage_space`: an id is a
position, and the layer below an entry point is a sorted vector of ids, into
which `node::add` inserts (`NodeAdd`). A call puts messages into mailboxes (`sync_contacts`,
`add_channel`); from `Startup` on the actors read them. `HandleWork` stands for
all handlers of a service: it looks one of the names of `uses` up and sends
there. Runs of standard messages are one step (`Introduce`), because they write
only the actor's own tables.

`WiringAssumption` says what a list of calls is: a group is used after
`add_service` returned it, and actors have distinct names. A lookup of a name
that is not among the contacts throws and ends the process (`LookupThrows`);
`failed` remembers whose lookup of which name it was. `AnnouncedIsFound` states
that this never happens for a name that some call announces to the actor
(`Announces`), whatever the order of these calls and of the messages they send.
Every name that the manager and the platform look up is announced; the device's
manager also looks up `ws`, to refuse a command it does not know, and nobody
announces that: there the lookup throws. `MCProgram` has TLC evaluate which
programs announce what they use (`Announced`), for the three programs and for
the 24 orders of wiring a group.

The configuration is the set of its keys. `Reads` fails for a key that is not
there, and the process ends (`ConstructorThrows`, `StartupThrows`). Worth
knowing: no `config.json` of the repository has `ws-ip` or `http-ip`, and
`generate_config` makes neither `ws-ip` nor `http-dir` nor `device-key`, so the
manager and the platform end in the constructor of a provider with all of these
configurations, and the device with the generated one. The runs reach the
running programs through files an operator has completed.

### DeviceAgent

Two mailboxes and the client. `status` of the control is not initialised by the
code: `initial` is what it happens to hold. An unknown method makes the manager
look up `ws`, which it does not have, and the process ends. A request named
after a handler that every actor has (`control.skip`) is forwarded and never
answered, and its task is read as another type (`DispatchBuiltIn`). A connection
may be lost, or fail to come about (`ConnectFails`), of which the services hear
only when it is the connect that fails. The write queue of the client is the one
of `PlatformLink`; here a frame is done with once it is handed over.

### Json, JsonRpc, Base64, Statement

Values, documents and texts are sequences of symbols, one per character that
matters. The parser is the recursive function of the code over such a text. Its
integers are `IntBits` wide (`atoi`), those of a value `LongBits`. A real is
counted in quarters, and a text has digits for halves. A whole real below
`Exponent` (10^6 in the code) is written like an integer and becomes one. The
parser reads the others with `strtof`: beyond `FloatMax` they are `Infinity`,
which is written as the word `inf` and read back as `false`, and `-inf` in an
array as two elements, 0 and `false`. `TextRoundTrip` therefore states what
survives, everything but what `Narrowed` says of numbers. Reading a missing member of a constant map adds a null; `RpcMeaning` states that
the kind and content of a message do not depend on it.

In `Base64` the text and the bytes that the two loops append are given by
position: the character or byte at a position is that of its group of three
bytes or four characters, the last one filled with zeros, as the small arrays of
the code are. `Base64Inverse` covers the padding too: a text may lose any part
of it, and what follows it is never read.

`Statement` is the binder in all the ways it can be used: as the temporary of
one expression, as the services do, and kept and executed again. SQLite is
external: it keeps parameters until they are cleared, refuses a bind while a
statement is not reset, and gives the parameters back as a row. A string is a
sequence of characters, bound with the length -1, and so only up to its first
NUL (`BeforeNul`): that is what a row gives back (`ReadBack`).

## Runs

| Run | Question | Result |
|---|---|---|
| `runtime_pool` | two workers, two actors, three messages: is a wakeup of a worker or of an actor ever lost? | `WorkConserving` and `InboxHasRunner` hold |
| `runtime_sole` | one worker, a yield after every message, three messages: exactly once, in order, none stranded, each handled? | `ImplementsDelivery`, `NoStrandedMessage` and `Delivered` hold |
| `runtime_race` | do two workers use one cache at once? | yes: `CacheNotShared` is violated |
| `manager` | nine groups of requests that meet each other: commands while the device comes and goes, commands while its groups change, or the user's, listening and its end, users deleted and added while their keys are used, keys of other forms, what only the administrator may name, absent and wrong parameters, the rest: is a request lost, answered twice, a command or a notification let through to who may not have it? | `TaskInOnePlace`, `CommandAuthorized`, `ListenersAuthorized`, `UnsubscribeIsFinal`, `AuthCacheFresh` hold |
| `manager_live` | the same requests, two at a time: is each answered, unless the process ends or it names a handler that cannot answer it? | `Answered` holds |
| `manager_any_group` | a user in one of a device's two groups | `AnyGroupSuffices` is violated |
| `platform_link` | failures, disconnect commands, reconnects, shutdown | `OneChain`, `OneWrite`, `WritesInOrder` hold |
| `platform_stall` | is `managers.connect` written on every connection? | no: `ConnectCommandSent` is violated |
| `platform_route` | clients ask a manager through the platform while it connects, breaks off and is deleted, and another profile tries to connect as it; the other methods, keys of other forms, handlers that take no task, absent parameters | `TaskInOnePlace`, `RepliesReachAsker`, `RegisteredHasRow`, `TrustedHasRow`, `ForwardedToOwner`, `Answered` hold |
| `providers` | two websocket sessions, or an HTTP client with a pipeline, or an upgraded session, until the loop ends | `SentInOrder`, `PipelineBounded`, `ResponsesInOrder`, `KeepsReading`, `ImplementsSessions`, `ReportedIsRemoved`, `FramesAreSent`, `SessionReleased`, `SilentIsClosed` hold |
| `program` | the three programs from `main` to a signal under every configuration, a group with a layer wired in every order, the device program with its commands | `AnnouncedIsFound`, `LayerKnowsShared`, `TurnsAreEven`, `AnswersInOrder` hold |
| `library` | documents, messages, bytes and statements | `TextRoundTrip`, `RpcMeaning`, `Base64Inverse`, `ExecutionSeesItsBinds` hold |

### Bounds

* Runtime: two workers are what a lost notification and a shared cache need, a
  third worker adds no new pair of roles. `MaxThroughput` 1 makes every message
  a yield, so that cache, `local_queue` and `mail_queue` are all in use with
  three messages to two actors. Workers, actors and messages are symmetric in `runtime_pool`,
  which checks invariants only.
* Manager: a user, the owner, one device, two groups, three databases (shared
  group, no shared group, a device in two groups), one third part of a key, and
  two to four requests per behaviour, all of one of nine scenes
  (`MCManagerServices`): requests that do not touch the same state need not
  meet. Three requests are a device that connects and two requests that
  race; four are needed to authenticate, delete, add and authenticate again.
  `MaxNotify` 1: notifications do not change state that another one reads.
* Link: two connections and three attempts, so that an old connection's write
  and error meet the new one; two pieces of data; `MaxInbox` bounds messages of
  the platform only, never the reports of the session.

* Platform: one manager and a second one with a name that is too long, an
  owner, another profile and a new one, eight scenes of one to three requests: a
  connect, what changes the row, and a request that is forwarded. Notifications
  of a manager, which change no state, have a scene of their own
  (`MaxNotify` 1).
* Providers: `Limit` 2 instead of 8 with four requests of one client, so that
  the pipeline is full, stops reading and starts again; a request that closes
  the connection in every place. Two websocket sessions share the map, and
  three frames are queue, strand and write at once. One kind of connection per
  behaviour: they share nothing but the loop and its end.
* Program: `MaxWork` 3 messages from outside and to groups; `MaxReads` 4
  commands and one lost connection for the device; the group has a layer of
  two, a shared actor and a joined group, wired in all 24 orders. About three
  million states.
* Library: `MaxEdits` 3 operations, enough for a map in an array in a map; two
  hops of a message; up to four bytes, all lengths modulo 3; two parameters and
  six calls on one binder. `IntBits` 17 and `LongBits` 20 keep the UTF-16 units
  whole while a value still has more bits than an int. `FloatMax`, `Infinity`
  and `Exponent` are small numbers in the order of the real ones, with reals on
  both sides of each.

Deadlock is checked in `runtime_sole`, where a worker can always wake up. In the
other runs a state in which all bounded inputs are used up and everything is
done, or the process has ended, has no successor.

### Fairness

* `ActorRuntime!FairSpec`: each worker thread is scheduled, and a thread inside
  `send` goes on to `submit`. Nobody is obliged to send, and spurious wakeups
  are not fair.
* `ManagerServices!FairSpec`, `PlatformServices!FairSpec`: every service with a
  message runs. This is `Delivered` of the runtime. Clients, devices and
  managers are not fair: a command to a device, or a request forwarded to a
  manager, counts as done when it has been handed over, because there is no
  timeout for the answer.
* `PlatformLink!FairSpec`: what was posted and what has completed runs on the
  io thread, and the service runs. Messages of the platform, failures and
  connections are not fair; `ConnectCommandSent` excuses a connection that
  closes again and a process that stops.
* `Providers!FairSpec`: the loop runs what is ready, clocks go on, and an
  operation on a socket that this side has closed completes. Clients owe
  nothing: no read or write of an open connection has to end.

## Findings

1. `async_actor.cpp:26` — the cache, declared not thread safe, is used by two
   workers at once as soon as there are two.
2. `subscriptions.cpp:273` — a device in two groups denies every user.
3. client `ws_session.cpp:26` — a failed write blocks the queue for good, so a
   reply written while the link is down keeps `managers.connect` from ever
   being sent.

Behaviour the models have, and that nothing in the repository promises
otherwise, is described with the modules above and with the hazards that carry
a note instead of a property.

## Proofs

TLAPS proves the following for every value of the constants that satisfies the
named assumptions: any number of sessions, users, devices, managers, requests,
frames and rows, and any bound.

### Runtime (`ActorRuntimeProofs`, from `RuntimeAssumption`)

* `TypeCorrect`, `NoLostWakeup` (`InboxHasRunner`) and `JobsHaveWorkers`
  (`WorkConserving`), for any finite set of workers and any `MaxThroughput`.
  `InboxHasRunner` is inductive with the types: a run that ends at `next` or
  `has_next` saw an empty mailbox in the same critical section, and a message
  that comes later brings its own submission. `WorkConserving` counts: each
  enqueue adds one job and, if anyone waits, one awake worker; each dequeue
  removes one of each.
* Under `SoleWorker`: `NothingStranded` (`NoStrandedMessage`) and `Refinement`
  (`ImplementsDelivery`). `SoleInv` adds that the process has not crashed, that
  the cache belongs to the run (`CacheOwned`: the front that was copied is the
  one that is erased, and the mailbox is asked only when the cache is empty) and
  that what is cached is scheduled (`CacheScheduled`: the message that
  `has_next_message` found arrived after the drain, so its submission is still
  to come). The refinement mapping makes one queue of cache, carried message,
  `local_queue` and `mail_queue`; every step of the code is an `Accept`, a
  `Handle` or a stutter of it.

### Manager (`ManagerServicesProofs`, from `ManagerAssumption`)

Every action has one of seven shapes (`Shape`): a service passes
the request of its message on, ends it, or handles a message without a request;
a request arrives, a device answers, a session posts a message; or nothing of
this changes. `StepShape` shows this once per action, with what the handler has
checked when it passes a request on (`Passes`, `Fit`) or ends it (`Ends`); what
follows is proved per shape, with the lemmas of `InboxTheorems` about the places
of a request.

* `ManagerInv` is the inductive invariant of `ManagerTypeCorrect` (`TypeOK`),
  `NoTaskLost` (`TaskInOnePlace`) and `OnlyAllowedCommands`
  (`CommandAuthorized`). Besides these three it needs
  * `MailInv`: what each waiting message carries (`Fit`). Past `users.auth` its
    key is `Authenticated`; a task at a handler that takes none was misnamed by
    the administrator; and without it the last hop of a command would not know
    that the first ones were made for `devices.control` with rights to the
    device;
  * `OutcomesRight`: what became of a request agrees with it, so that only a
    misnamed one is `lost` and only one that was `Allowed` is a command;
  * `HistoryInv`: the tables are part of their histories, and each cached key
    is `Authenticated`. The groups of the
    device and those of the user are read at two times, and the rows may be gone
    when the command is written: what remains true is that both have existed;
  * `CommandsOpen`: a request is sent to one device and is then in no inbox, so
    that its answer puts it in one place again.
* `OnlyAllowedListeners` (`ListenersAuthorized`): the listeners and those that
  were notified change in three handlers only; the invariant holds with
  `ManagerInv` before the step, and a request that ended `ok` never changes.
* `AuthCacheIsFresh` (`AuthCacheFresh`) with `AuthInv`: delete removes one cached
  key of a login, the first that is found. That is enough exactly when every
  request with a key of the login has an issued one (`OnlyIssued`): a login has one row
  (`OneRowPerLogin`), hence one such key, and it is cached under its own login.
  With keys that have a third part the property would be false, which is why it
  has that condition.
* `UnsubscribeEndsListening` (`UnsubscribeIsFinal`). A subscribe and an
  unsubscribe go through six inboxes (`Stage`). `WayInv` ties the place of a
  task to its request; `OrderInv` says that an unsubscribe is never ahead of an
  earlier subscribe, in stage or in the queue; `ReachedInv` that what a subscribe
  has found (a known key, a registered device) is still there as long as nothing
  takes it away, so that the unsubscribe behind it cannot fail; `FinalInv` that
  the unsubscribe is on its way or has left the session silent, with no earlier
  subscribe on its way. `OrderInv` is why the shortcut of the mutant, an
  unsubscribe that leaves one inbox out, breaks the property.

### Platform (`PlatformServicesProofs`, from `PlatformAssumption`)

The same shapes and lemmas. `PlatformInv` proves `PlatformTypeCorrect`,
`NoRequestLost` (`TaskInOnePlace`), `OneReplyToAsker` (`RepliesReachAsker`),
`RegisteredManagersHaveRows` (`RegisteredHasRow`), `TrustedUrlsHaveRows`
(`TrustedHasRow`) and `OnlyOwnersAreForwardedTo` (`ForwardedToOwner`). It adds
`MailInv` (the answer of a manager carries the session that asked; what reaches
a handler of managers has the key that `profile.auth` checked), `AuthRight`
(each cached key is one that it accepts), `LostRight` (only a request that names
a handler which takes no task is lost), `RegisteredByOwner` (a registration, unlike the connection, outlives its
session; what stays is the request it came from), `CommandsOpen` as above, and
`RepliesInv` (the one reply comes with the step that ends the request).

### Link (`PlatformLinkProofs`, from `LinkAssumption`)

`LinkTypeCorrect`, `OneWriteAtATime` (`OneWrite`), `WritesKeepOrder`
(`WritesInOrder`) and `LinkHasOneChain` (`OneChain`). `LinkInv` joins the types,
`OneWrite` and the fact that an open websocket has been counted: a completed
write takes the front of the queue, which therefore must not be empty.
`OneChain` is inductive with the types: it is stated with the positions of the
failures in the inbox, and only the service, waking from the sleep that a
failure began, starts a new chain.

### Servers (`ProvidersProofs`, from `WsAssumption` and `HttpAssumption`)

* `FramesKeepOrder` (`SentInOrder`), with the types of the frames (`FrameInv`):
  the frame a completed write records is the front of a queue that is not empty.
* `PipelinesAreBounded` (`PipelineBounded`), `ResponsesKeepOrder`
  (`ResponsesInOrder`), `ReadsGoOn` (`KeepsReading`), for every limit. Both
  `on_read` and `on_write` start reads; that there are never two, and that one
  is always there unless the queue is full, is inductive only together with the
  room that a read has (`Room`). The order of what has been written needs the
  numbers of what is queued (`Queued`) and their sum (`Counted`).
* `SessionsAreImplemented` (`ImplementsSessions`): every step of `WsServer`, of
  the HTTP server and of the loop is a step of `SessionLife` or a stutter under
  the mapping `Life`. `LifeInv` says that a session that reads or shakes hands is
  in the map as long as the loop runs (else the services would see a request of
  a session that is gone), and that an error on its way to the router is of a
  session that has ended and been reported.

### Programs (`ProgramProofs`, from `DeviceAssumption` and `WiringAssumption`)

* `DeviceTypeCorrect` and `DeviceAnswersInOrder` (`AnswersInOrder`), for any
  number of commands and lost connections. `DeviceInv` names two numbers, the
  commands that manager has dispatched and those that control has handled
  (`Stage`). The commands between them are exactly what the mailbox of control
  holds, `status` is what the handled ones make of it, the commands not yet
  dispatched are in the mailbox of manager in their order (`CommandStream`), and
  the frames of the handled ones are one stream (`FrameStream`): those given to
  the client, then those that wait as writes in the mailbox of manager. Without
  the second half a frame that is due could be in neither place, or be overtaken
  by one that control wrote later.
* `WiringTypeCorrect`: ids are positions of the table, layers are sorted and
  share no actor, every actor of a group has a mailbox, and the groups are those
  of the calls made (`WiringTypeOK`).
* `GroupsServeEvenly` (`TurnsAreEven`), for layers of every size. `Turns` says
  where the difference of at most one comes from: the cursor of a group splits
  its layer into those that have had one message more and the rest. That layers
  share no actor is needed for one group's turn to leave the others alone.
* `SharedIsToldToAll` (`LayerKnowsShared`) and `NoAnnouncedLookupThrows`
  (`AnnouncedIsFound`), for every list of calls within `WiringAssumption`. An actor
  is `Aware` of a name when it is among its contacts, or is told in its mailbox
  before anything that is not an introduction. `Introduced` says that before the
  workers start the mailboxes hold introductions only (`OnlyIntroductions`), that
  every actor of a group is aware of what the group shares (`SharedKnown`), what
  the calls have left in the tables (`CallsDone`) and whom they have told
  (`CallsTold`). When all calls are made every announced name is in front of
  the first message that could look it up; the mailbox is read in order, so
  awareness is never lost. This is where the theorem rests on
  `dynamic_environment::start` coming after `init_service`.

### Libraries (`LibraryProofs`, from `StatementAssumption` and `Base64Assumption`)

* `ExecutionsSeeTheirBinds` (`ExecutionSeesItsBinds`), for any number of
  parameters, any values with a C++ type and any calls. Between two calls SQLite
  may still hold the parameters of the execution before; `ReadyInv` adds that
  the next `_next_index` resets the statement and clears them then (`Resets`),
  and `TemporaryInv` follows the binder of one expression to its destructor.
* `Base64Correct` (`Base64Inverse`), for bytes of every length: the lemma
  `EveryInput` states it for every sequence of bytes. Three bytes are what
  their four sextets make (`TripleSextets`); the lengths of text and bytes fit,
  for each remainder (`Lengths`); and a byte needs only the characters that are
  there before the padding (`Places`, `DecodePrefix`). No induction is used,
  because text and bytes are given by position.

### Only model-checked

* `Delivered`, `Answered`, `ConnectCommandSent`, `ReportedIsRemoved`,
  `FramesAreSent`, `SessionReleased` and `SilentIsClosed` are liveness
  properties; fairness is out of the prover's reach.
* `TextRoundTrip` and `RpcMeaning` are about a writer and a parser of nested
  documents. They are recursive operators, as in the code, and what they compute
  for every document needs an induction over data.

## Not modelled, and why

`stream-broker` has interfaces only; blocking actors are created by no program.
Of the SQLite wrapper, user-defined SQL functions, variants, the error log and
sqlcipher are used by nobody; `sqlite3.h` declares the external library.
`json_rpc::context` and `created_entry_group`, `created_end_group` and `link`
of `cooperation` have no caller. The examples are not part of the programs. The
internals of Boost.Asio and Beast are external: the models state what the code
relies on, and data races inside them (a synchronous `close` while the io
thread reads) are listed as hazards. Bodies of messages are not typed in
`Wiring`: `any::as` is an unchecked cast, and every handler casts to what its
senders put in.

## Plan

The system is modelled as far as its programs use it. Every safety invariant,
action property and refinement that a run checks and that holds is proved, apart
from the two of the list above, which the prover cannot reach. What is left is
a run of `UpgradedSession` on its own that states when the assertion of
`on_ping` can fail.
