------------------------------ MODULE Wiring -------------------------------
(***************************************************************************)
(* How a program is put together before its workers start, and what its    *)
(* actors know of one another when the first message from outside arrives. *)
(*                                                                         *)
(* init_service of a program is a list of calls on the environment and on  *)
(* the groups: a service becomes the entry point of a group, a provider is *)
(* shared with a group, a group joins another one, an actor is added to    *)
(* the layer of a group.  None of the calls writes contacts: each of them  *)
(* puts sync_contacts messages into mailboxes, which nobody reads before   *)
(* dynamic_environment::start.  A handler that looks up a name which is    *)
(* not yet, or never, among its contacts throws.                           *)
(***************************************************************************)
EXTENDS Naturals, Sequences, SequencesExt

CONSTANTS
    Scripts,   \* the lists of calls to choose from, see Programs
    MaxWork    \* bound on messages from outside and on messages to a group

Calls == {"environment", "service", "provider", "shared", "join", "add"}

\* The calls that make an actor, which has the name of its class.
Spawns == {"service", "add"}

\* The group g is there before the i-th call.
HasGroup(calls, i, g) ==
    \E j \in 1..(i - 1) : calls[j].op = "service" /\ calls[j].name = g

\* A group is a reference that add_service returned, and no two actors have the
\* same name.
WellFormed(calls) ==
    /\ calls \in Seq(ToSet(calls))
    /\ \A i \in DOMAIN calls :
        /\ calls[i].op \in Calls
        /\ calls[i].op \in {"shared", "join", "add"} => HasGroup(calls, i, calls[i].group)
        /\ calls[i].op = "join" => HasGroup(calls, i, calls[i].name)
        /\ calls[i].op \in Spawns =>
            \A j \in 1..(i - 1) : calls[j].op \in Spawns => calls[j].name # calls[i].name

\* Some call tells actor a of the name n: a is the entry point of the group, or
\* in its layer; a joined group is told only to the actors that are there.
Announces(calls, a, n) ==
    \E i \in DOMAIN calls :
        /\ calls[i].op \in {"shared", "join"} /\ calls[i].name = n
        /\ \/ calls[i].group = a
           \/ \E j \in DOMAIN calls :
                /\ calls[j].op = "add" /\ calls[j].name = a
                /\ calls[j].group = calls[i].group
                /\ calls[i].op = "join" => j < i

\* Every name the handlers of an actor look up is announced to it by some call
\* of init_service, the order of the calls left open.
Announced(s) ==
    \A a \in DOMAIN s.uses.names : \A n \in s.uses.names[a] : Announces(s.calls, a, n)

ASSUME WiringAssumption ==
    /\ MaxWork \in Nat
    /\ \A s \in Scripts :
        /\ WellFormed(s.calls)
        /\ \A i \in DOMAIN s.calls :
            s.calls[i].op \in Spawns => s.calls[i].name \in DOMAIN s.uses.names

VARIABLES
    program,   \* the calls of init_service, what its actors use, its configuration
    at,        \* the position of the next call
    store,     \* storage_space: the id of an actor is its position
    edges,     \* adjacency list: id |-> ids of the layer below it, sorted
    group,     \* name |-> [entry, shared, cursor]
    mailbox,   \* actor |-> messages, oldest first
    contacts,  \* actor |-> names it can look up
    channels,  \* actors that hold the channel of their group
    phase,     \* of the environment: wiring, running, down, terminated
    work,      \* messages from outside and to groups so far
    served,    \* id |-> messages of its group since the layer last grew
    failed     \* <<actor, name>>: the lookups that threw

wiringVars == <<program, at, store, edges, group, mailbox, contacts,
                channels, phase, work, served, failed>>

uses == program.uses

config == program.config

\* Handlers made by make_handler in the constructor of a service: one stands for
\* all of them, and some services have one for errors.
MadeHandlers(a) == {"work"} \cup IF a \in uses.errors THEN {"error"} ELSE {}

\* Handlers every local_actor attaches in initialize, and those of the service.
Reactions(a) == {"sync_contacts", "add_channel", "skip"} \cup MadeHandlers(a)

\* reactions::execute: what handles a message of this type.
Handler(a, command) ==
    CASE command \notin Reactions(a) -> "skip"
      [] command = "error"           -> "work"
      [] OTHER                       -> command

\* make_message; the body of the two standard messages is a name.
MakeMessage(sender, command, body) ==
    [sender |-> sender, command |-> command, body |-> body]

\* context::message: what the handler that runs was called with.
Message(a) == Head(mailbox[a])

\* An exception leaves main: nothing catches it, and the process ends.
Terminate == phase' = "terminated"

\* config()[key].as<T>() for each key: a key the configuration does not have is
\* a null, which is no T.
Reads(keys) == keys \subseteq config

\* abstract_group: the id of its entry point, the ids it shares and the turn.
NewGroup(entry) == [entry |-> entry, shared |-> <<>>, cursor |-> 0]

WiringInit ==
    /\ program \in Scripts /\ at = 1
    /\ store = <<>> /\ edges = <<>>
    /\ group = <<>> /\ mailbox = <<>> /\ contacts = <<>>
    /\ channels = {} /\ phase = "wiring" /\ work = 0
    /\ served = <<>> /\ failed = {}

----------------------------------------------------------------------------
(* storage_space: one table for all groups of the program *)

\* adjacency_list::finding_adjacency.
FindingAdjacency(id) == edges[id]

\* abstract_group::entry_point.
EntryPoint(g) == store[group[g].entry]

\* storage_space::current_layer.
CurrentLayer(id) ==
    LET ids == FindingAdjacency(id) IN [i \in DOMAIN ids |-> store[ids[i]]]

\* node: a new vertex has no edges.
NewNode == <<>>

\* stored_vertex::add_vertex: lookup finds a vertex by its position, which is
\* its id because ids are handed out one after the other.
AddVertex == edges' = Append(edges, NewNode)

\* storage_space::add: the next id and a vertex for it.
StorageAdd(a) ==
    /\ store' = Append(store, a) /\ AddVertex
    /\ served' = Append(served, 0)

\* std::upper_bound: how many elements of the sorted vector are not above id.
UpperBound(ids, id) ==
    CHOOSE n \in 0..Len(ids) :
        (\A i \in 1..n : ids[i] <= id) /\ \A i \in (n + 1)..Len(ids) : ids[i] > id

\* node::add: insert the id in its place, unless it is there.
NodeAdd(ids, id) ==
    LET n == UpperBound(ids, id) IN
    IF id \in ToSet(ids) THEN ids
    ELSE [i \in 1..(Len(ids) + 1) |->
            IF i <= n THEN ids[i] ELSE IF i = n + 1 THEN id ELSE ids[i - 1]]

\* stored_vertex::add_edge after storage_space::add of the second vertex; the
\* count of the turns of this layer starts again.
AddLink(id, a) ==
    LET new == Len(store) + 1 IN
    /\ store' = Append(store, a)
    /\ edges' = Append([edges EXCEPT ![id] = NodeAdd(@, new)], NewNode)
    /\ served' = [i \in 1..new |->
                    IF i \in ToSet(edges[id]) \cup {new} THEN 0 ELSE served[i]]

\* A new actor: its mailbox holds what it was sent on the way, it knows nobody.
Spawn(n, box) ==
    /\ mailbox' = [a \in DOMAIN mailbox \cup {n} |-> IF a = n THEN box ELSE mailbox[a]]
    /\ contacts' = [a \in DOMAIN contacts \cup {n} |-> IF a = n THEN {} ELSE contacts[a]]

\* The mailboxes after sending m to every actor of the sequence as.
Deliver(as, m) ==
    [a \in DOMAIN mailbox |->
        IF a \in ToSet(as) THEN Append(mailbox[a], m) ELSE mailbox[a]]

----------------------------------------------------------------------------
(* The calls of init_service *)

\* The next call, when there is one.
TheCall == program.calls[at]

MoreCalls == at <= Len(program.calls)

Call(op) ==
    /\ phase = "wiring"
    /\ MoreCalls /\ TheCall.op = op
    /\ at' = at + 1
    /\ UNCHANGED <<program, channels, phase, work, failed>>

\* The constructor of dynamic_environment reads the sizes of the executor.
CreateEnvironment ==
    /\ Call("environment") /\ Reads(TheCall.reads)
    /\ UNCHANGED <<store, edges, group, mailbox, contacts, served>>

\* cooperation::created_group: a group whose entry point is the next actor of
\* the table.
CreatedGroup(n) ==
    group' = [g \in DOMAIN group \cup {n} |->
        IF g = n THEN NewGroup(Len(store) + 1) ELSE group[g]]

\* add_service: created_group makes the actor the entry point of a new group,
\* and the group sends it its channel.
AddService ==
    LET n == TheCall.name IN
    /\ Call("service")
    /\ Spawn(n, <<MakeMessage(n, "add_channel", n)>>)
    /\ CreatedGroup(n)
    /\ StorageAdd(n)

\* add_data_provider: a provider is not in the table and has no mailbox, its
\* handlers run on the thread of the sender.
AddDataProvider ==
    /\ Call("provider") /\ Reads(TheCall.reads)
    /\ UNCHANGED <<store, edges, group, mailbox, contacts, served>>

\* A constructor that finds a key missing.
ConstructorThrows ==
    /\ phase = "wiring"
    /\ MoreCalls /\ TheCall.op \in {"environment", "provider"}
    /\ ~Reads(TheCall.reads)
    /\ Terminate
    /\ UNCHANGED <<program, at, store, edges, group, mailbox, contacts,
                   channels, work, served, failed>>

\* abstract_group::add_shared: the group remembers the actor and tells its
\* entry point and every actor of its layer.
AddShared ==
    LET g  == TheCall.group
        p  == TheCall.name
        e  == group[g].entry
    IN  /\ Call("shared")
        /\ StorageAdd(p)
        /\ group' = [group EXCEPT ![g].shared = Append(@, Len(store) + 1)]
        /\ mailbox' = Deliver(<<EntryPoint(g)>> \o CurrentLayer(e),
                              MakeMessage(p, "sync_contacts", p))
        /\ UNCHANGED contacts

\* abstract_group::join: one way, and nothing remembers the joined group.
Join ==
    LET g == TheCall.group
        h == TheCall.name
        e == group[g].entry
    IN  /\ Call("join")
        /\ mailbox' = Deliver(<<EntryPoint(g)>> \o CurrentLayer(e),
                              LET to == EntryPoint(h)
                              IN  MakeMessage(to, "sync_contacts", to))
        /\ UNCHANGED <<store, edges, group, contacts, served>>

\* Mutant: only actors added before add_shared learn of it.
AddUninformed ==
    LET g == TheCall.group
        n == TheCall.name
    IN  /\ Call("add")
        /\ Spawn(n, <<>>)
        /\ AddLink(group[g].entry, n)
        /\ UNCHANGED group

\* abstract_group::add: the new actor of the layer is told what the group
\* shares, before it gets its id and its edge.
Add ==
    LET g == TheCall.group
        n == TheCall.name
    IN  /\ Call("add")
        /\ Spawn(n, [i \in DOMAIN group[g].shared |->
                MakeMessage(n, "sync_contacts", store[group[g].shared[i]])])
        /\ AddLink(group[g].entry, n)
        /\ UNCHANGED group

----------------------------------------------------------------------------
(* The running program *)

\* Mutant: the workers start while the calls are still being made.
StartupEarly ==
    /\ phase = "wiring"
    /\ phase' = "running"
    /\ UNCHANGED <<program, at, store, edges, group, mailbox, contacts,
                   channels, work, served, failed>>

\* dynamic_environment::startup: providers and services start, then the
\* workers and the loop.
Startup ==
    /\ phase = "wiring" /\ ~MoreCalls /\ Reads(uses.startup)
    /\ phase' = "running"
    /\ UNCHANGED <<program, at, store, edges, group, mailbox, contacts,
                   channels, work, served, failed>>

\* The startup of a provider or a service that finds a key missing.
StartupThrows ==
    /\ phase = "wiring" /\ ~MoreCalls /\ ~Reads(uses.startup)
    /\ Terminate
    /\ UNCHANGED <<program, at, store, edges, group, mailbox, contacts,
                   channels, work, served, failed>>

\* A provider, on the io thread, sends what it read to the service it was
\* constructed with.
FromOutside(a) ==
    /\ phase = "running" /\ work < MaxWork
    /\ a \in uses.entry
    /\ \E command \in {"work", "other"} :
        mailbox' = Deliver(<<a>>, MakeMessage("provider", command, a))
    /\ work' = work + 1
    /\ UNCHANGED <<program, at, store, edges, group, contacts, channels,
                   phase, served, failed>>

\* The i-th message of a is one of the two standard ones.
IsStandard(a, i) ==
    Handler(a, mailbox[a][i].command) \in {"sync_contacts", "add_channel"}

\* How many messages at the head of a mailbox are standard ones, if any are.
StandardRun(a) ==
    {n \in 1..Len(mailbox[a]) :
        /\ \A i \in 1..n : IsStandard(a, i)
        /\ n < Len(mailbox[a]) => ~IsStandard(a, n + 1)}

\* sync_contacts::invoke and add_channel::invoke for the messages at the head
\* of the mailbox: they write the actor's own tables only, so one step stands
\* for the run of them.
Introduce(a) ==
    \E n \in StandardRun(a) :
        LET of(c) == {mailbox[a][i].body : i \in {j \in 1..n : mailbox[a][j].command = c}}
        IN  /\ phase = "running"
            /\ contacts' = [contacts EXCEPT ![a] = @ \cup of("sync_contacts")]
            /\ channels' = IF of("add_channel") = {} THEN channels ELSE channels \cup {a}
            /\ mailbox' = [mailbox EXCEPT ![a] = SubSeq(@, n + 1, Len(@))]
            /\ UNCHANGED <<program, at, store, edges, group, phase, work, served, failed>>

\* local_actor::addresses(name) is contacts.at(name).
Lookup(a, n) == n \in contacts[a]

\* A handler of a service looks one of its names up and sends there.
HandleWork(a) ==
    /\ phase = "running"
    /\ mailbox[a] # <<>> /\ Handler(a, Message(a).command) = "work"
    /\ \E n \in uses.names[a] :
        /\ Lookup(a, n)
        /\ mailbox' = [b \in DOMAIN mailbox |->
                LET rest == IF b = a THEN Tail(mailbox[b]) ELSE mailbox[b]
                IN  IF b = n /\ work < MaxWork
                    THEN Append(rest, MakeMessage(a, "work", a)) ELSE rest]
        /\ work' = IF n \in DOMAIN mailbox /\ work < MaxWork THEN work + 1 ELSE work
    /\ UNCHANGED <<program, at, store, edges, group, contacts, channels,
                   phase, served, failed>>

\* A handler looks up a name that the actor does not know: nothing catches what
\* contacts.at throws.
LookupThrows(a) ==
    /\ phase = "running"
    /\ mailbox[a] # <<>> /\ Handler(a, Message(a).command) = "work"
    /\ \E n \in uses.names[a] : ~Lookup(a, n) /\ failed' = failed \cup {<<a, n>>}
    /\ Terminate
    /\ UNCHANGED <<program, at, store, edges, group, mailbox, contacts,
                   channels, work, served>>

\* skip::invoke: a message nobody handles goes back to a sender that handles
\* errors, and is only reported otherwise.
Skip(a) ==
    LET from == Message(a).sender
        rest == [mailbox EXCEPT ![a] = Tail(@)]
    IN  /\ phase = "running"
        /\ mailbox[a] # <<>> /\ Handler(a, Message(a).command) = "skip"
        /\ mailbox' = IF from \in DOMAIN mailbox /\ "error" \in Reactions(from)
                      THEN [rest EXCEPT ![from] = Append(@, MakeMessage(a, "error", from))]
                      ELSE rest
        /\ UNCHANGED <<program, at, store, edges, group, contacts, channels,
                       phase, work, served, failed>>

\* Mutant: the turn is never passed on.
GroupSendFirst(a) ==
    LET ids   == FindingAdjacency(group[a].entry)
        layer == CurrentLayer(group[a].entry)
        c     == group[a].cursor
        to    == layer[1]
    IN  /\ phase = "running" /\ a \in channels /\ work < MaxWork
        /\ layer # <<>>
        /\ \E command \in {"work", "other"} :
            mailbox' = Deliver(<<to>>, MakeMessage(a, command, a))
        /\ group' = [group EXCEPT ![a].cursor = c]
        /\ served' = [served EXCEPT ![ids[1]] = @ + 1]
        /\ work' = work + 1
        /\ UNCHANGED <<program, at, store, edges, contacts, channels, phase, failed>>

\* abstract_group::send on the channel an actor holds: the actors of the layer
\* take turns; false, and no effect, when the layer is empty.
GroupSend(a) ==
    LET ids   == FindingAdjacency(group[a].entry)
        layer == CurrentLayer(group[a].entry)
        c     == group[a].cursor
        to    == layer[c + 1]
    IN  /\ phase = "running" /\ a \in channels /\ work < MaxWork
        /\ layer # <<>>
        /\ \E command \in {"work", "other"} :
            mailbox' = Deliver(<<to>>, MakeMessage(a, command, a))
        /\ group' = [group EXCEPT ![a].cursor =
                        IF c + 1 >= Len(layer) THEN 0 ELSE c + 1]
        /\ served' = [served EXCEPT ![ids[c + 1]] = @ + 1]
        /\ work' = work + 1
        /\ UNCHANGED <<program, at, store, edges, contacts, channels, phase, failed>>

\* abstract_group::broadcast.
GroupBroadcast(a) ==
    LET ids   == FindingAdjacency(group[a].entry)
        layer == CurrentLayer(group[a].entry)
    IN  /\ phase = "running" /\ a \in channels /\ work < MaxWork
        /\ layer # <<>>
        /\ mailbox' = Deliver(layer, MakeMessage(a, "work", a))
        /\ served' = [i \in DOMAIN served |->
                        IF i \in ToSet(ids) THEN served[i] + 1 ELSE served[i]]
        /\ work' = work + 1
        /\ UNCHANGED <<program, at, store, edges, group, contacts, channels,
                       phase, failed>>

\* A signal: dynamic_environment::shutdown stops the loop, and nothing comes
\* from outside any more.
Shutdown ==
    /\ phase = "running"
    /\ phase' = "down"
    /\ UNCHANGED <<program, at, store, edges, group, mailbox, contacts,
                   channels, work, served, failed>>

WiringNext ==
    \/ CreateEnvironment \/ AddService \/ AddDataProvider \/ ConstructorThrows
    \/ AddShared \/ Join \/ Add
    \/ Startup \/ StartupThrows \/ Shutdown
    \/ \E a \in DOMAIN mailbox :
        \/ FromOutside(a) \/ Introduce(a) \/ Skip(a)
        \/ HandleWork(a) \/ LookupThrows(a)
    \/ \E a \in DOMAIN group : GroupSend(a) \/ GroupBroadcast(a)

WiringSpec == WiringInit /\ [][WiringNext]_wiringVars

----------------------------------------------------------------------------
(* Properties *)

\* addresses(name) throws only for a name that no call of init_service announces
\* to the actor, whatever the order of the calls: what is announced has been put
\* into its contacts by messages that were in its mailbox before the first
\* message from outside.
AnnouncedIsFound ==
    \A f \in failed : ~Announces(program.calls, f[1], f[2])

\* What an actor has been told about, whether or not it has read it yet.
Told(a) ==
    contacts[a] \cup {mailbox[a][i].body : i \in
        {j \in DOMAIN mailbox[a] : mailbox[a][j].command = "sync_contacts"}}

\* Every actor of a group, the entry point and the layer, is told of everything
\* the group shares, in whatever order actors and shared actors were added.
LayerKnowsShared ==
    \A g \in DOMAIN group :
        \A a \in {EntryPoint(g)} \cup ToSet(CurrentLayer(group[g].entry)) :
            \A i \in DOMAIN group[g].shared : store[group[g].shared[i]] \in Told(a)

\* The actors of a layer are served evenly: since the layer last grew no actor
\* has had two messages more than another one, broadcasts in between or not.
TurnsAreEven ==
    \A g \in DOMAIN group :
        \A i, j \in ToSet(FindingAdjacency(group[g].entry)) : served[i] <= served[j] + 1
=============================================================================
