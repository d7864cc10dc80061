----------------------------- MODULE Programs ------------------------------
(***************************************************************************)
(* The three programs of the repository as lists of calls on the           *)
(* environment, the names the handlers of their services look up and the   *)
(* keys of the configuration they read.                                    *)
(***************************************************************************)
EXTENDS Sequences, SequencesExt

\* One call for each name, in order.
Each(names, F(_)) == [i \in DOMAIN names |-> F(names[i])]

----------------------------------------------------------------------------
(* The configuration, as the set of its keys *)

\* generate_config, when there is no file.
GeneratedConfig ==
    {"http-port", "http-ip", "num_worker_threads", "max_throughput_param_worker",
     "ws-port", "profile-key", "manager-key", "db", "client"}

\* The config.json kept beside each program; the device's has one key more.
ShippedConfig ==
    {"http-port", "num_worker_threads", "http-dir", "max_throughput_param_worker",
     "ws-port", "profile-key", "manager-key", "client"}

\* load_or_generate_config: the file in the directory of the program, which its
\* operator may have completed or left empty, or the generated one.
LoadOrGenerate(shipped, completed) ==
    {{}, GeneratedConfig, shipped, shipped \cup completed}

\* What the constructors of the environment and of each provider read.
EnvironmentReads == {"num_worker_threads", "max_throughput_param_worker"}

WsReads == {"ws-ip", "ws-port"}

HttpReads == {"http-ip", "http-port", "http-dir"}

ProviderReads == [ws |-> WsReads, http |-> HttpReads, client |-> {}]

\* What startup reads without asking first whether it is there: the client its
\* peer, the services their keys.  manager_info asks.
RouterReads == {"profile-key", "manager-key"}

LinkReads == {"profile-key", "manager-key"}

ManagerStartup == {"client"} \cup RouterReads \cup LinkReads

PlatformStartup == {}

DeviceStartup == {"client", "device-key", "profile-key", "manager-key"}

----------------------------------------------------------------------------
(* The calls *)

\* The constructor of dynamic_environment.
Environment == <<[op |-> "environment", reads |-> EnvironmentReads]>>

\* dynamic_environment::add_service<...>() for each name.
Services(names) == Each(names, LAMBDA n : [op |-> "service", name |-> n])

\* dynamic_environment::add_data_provider<...>(address) for each name.
DataProviders(names) ==
    Each(names, LAMBDA n : [op |-> "provider", name |-> n, reads |-> ProviderReads[n]])

\* g->add_shared(provider.address()) for each name.
Shares(g, names) == Each(names, LAMBDA n : [op |-> "shared", group |-> g, name |-> n])

\* g->join(h) for each name.
Joins(g, names) == Each(names, LAMBDA n : [op |-> "join", group |-> g, name |-> n])

\* g->add(actor) for each name.
Adds(g, names) == Each(names, LAMBDA n : [op |-> "add", group |-> g, name |-> n])

\* init_service of the manager program.
ManagerCalls ==
    LET rest == <<"subscriptions", "connections", "devices">>
    IN  Services(<<"router", "users", "groups", "subscriptions", "connections",
                   "devices", "platform", "manager">>)
        \o DataProviders(<<"client", "ws", "http">>)
        \o Shares("users", <<"ws", "client">>)
        \o Joins("users", <<"router", "groups">> \o rest)
        \o Shares("groups", <<"ws", "client">>)
        \o Joins("groups", <<"router", "users">> \o rest)
        \o Shares("subscriptions", <<"ws", "client">>)
        \o Joins("subscriptions", <<"router", "users", "groups", "connections", "devices">>)
        \o Shares("connections", <<"ws", "client">>)
        \o Joins("connections", <<"router", "users", "groups", "subscriptions", "devices">>)
        \o Shares("devices", <<"ws", "client">>)
        \o Joins("devices", <<"router", "users", "groups", "subscriptions", "connections">>)
        \o Shares("platform", <<"ws", "client">>)
        \o Joins("platform", <<"router", "users", "groups", "subscriptions", "connections">>)
        \o Shares("router", <<"http", "ws", "client">>)
        \o Joins("router", <<"users", "groups">> \o rest \o <<"manager">>)
        \o Shares("manager", <<"ws">>)
        \o Joins("manager", <<"router">>)

\* init_service of the platform program.
PlatformCalls ==
    Services(<<"router">>) \o DataProviders(<<"http", "ws">>)
    \o Services(<<"profile", "managers", "manager">>)
    \o Shares("profile", <<"ws">>) \o Joins("profile", <<"router">>)
    \o Shares("managers", <<"ws", "http">>) \o Joins("managers", <<"router">>)
    \o Shares("router", <<"http", "ws">>)
    \o Joins("router", <<"profile", "managers", "manager">>)
    \o Shares("manager", <<"ws">>) \o Joins("manager", <<"router">>)

\* init_service of the device program.
DeviceCalls ==
    Services(<<"manager", "control">>) \o DataProviders(<<"client">>)
    \o Shares("control", <<"client">>) \o Joins("control", <<"manager">>)
    \o Shares("manager", <<"client">>) \o Joins("manager", <<"control">>)

\* router::impl of the manager: get_service_list and get_quest_method_list, the
\* names its dispatcher passes on to addresses.
ManagerRoutes == {"users", "devices", "groups", "subscriptions", "connections", "manager"}

\* router::impl of the platform.
PlatformRoutes == {"profile", "managers", "manager"}

\* What the handlers of the manager program look up.
ManagerUses ==
    [entry |-> {"router", "platform"}, errors |-> {"router", "platform"},
     startup |-> ManagerStartup,
     names |-> [router        |-> {"ws"} \cup ManagerRoutes,
                users         |-> {"router", "ws"},
                groups        |-> {"ws"},
                subscriptions |-> {"connections", "devices", "ws"},
                connections   |-> {"subscriptions", "ws"},
                devices       |-> {"connections", "subscriptions", "ws"},
                platform      |-> {"client", "router"},
                manager       |-> {"ws"}]]

\* What the handlers of the platform program look up.
PlatformUses ==
    [entry |-> {"router"}, errors |-> {"router"},
     startup |-> PlatformStartup,
     names |-> [router   |-> {"ws"} \cup PlatformRoutes,
                profile  |-> {"router", "ws"},
                managers |-> {"http", "ws"},
                manager  |-> {"ws"}]]

\* What the handlers of the device program look up.  Nobody announces "ws" to
\* its manager, which looks it up to refuse a command it does not know.
DeviceUses ==
    [entry |-> {"manager"}, errors |-> {"manager"},
     startup |-> DeviceStartup,
     names |-> [manager |-> {"client", "control", "ws"}, control |-> {"manager"}]]

\* main of each program: the configuration, the environment made from it, its
\* services, then startup.
ManagerProgram ==
    {[calls |-> Environment \o ManagerCalls, uses |-> ManagerUses, config |-> c] :
        c \in LoadOrGenerate(ShippedConfig, {"ws-ip", "http-ip"})}

PlatformProgram ==
    {[calls |-> Environment \o PlatformCalls, uses |-> PlatformUses, config |-> c] :
        c \in LoadOrGenerate(ShippedConfig, {"ws-ip", "http-ip"})}

DeviceProgram ==
    {[calls |-> Environment \o DeviceCalls, uses |-> DeviceUses, config |-> c] :
        c \in LoadOrGenerate(ShippedConfig \cup {"device-key"}, {})}

\* A group with a layer of two actors, a shared actor and a joined group, its
\* calls made in the order of the sequence order.
Pool(order) ==
    [calls  |-> Environment \o Services(<<"pool", "peer">>) \o FlattenSeq(order),
     config |-> GeneratedConfig,
     uses   |-> [entry |-> {}, errors |-> {"pool"}, startup |-> {},
                 names |-> [pool |-> {"lamp"}, peer |-> {},
                            one |-> {"lamp"}, two |-> {"lamp"}]]]
=============================================================================
