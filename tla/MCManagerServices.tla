------------------------- MODULE MCManagerServices -------------------------
(***************************************************************************)
(* Model-checking instances of ManagerServices: the sessions tu of a user, *)
(* td of a device and tp of the owner, who is a client of the platform;    *)
(* the databases the manager may start with; the requests of each run.     *)
(***************************************************************************)
EXTENDS ManagerServices

CONSTANTS tu, td, tp, user, owner, pw, pw2, rest, dev, g1, g2

\* The key of a login and a password.
Key(login, password) == <<login, password, None>>
OwnerKey == Key(owner, pw)
UserKey == Key(user, pw)

Blank == [from |-> tp, method |-> <<"ping">>, key |-> None, login |-> None,
          password |-> None, device |-> None, group |-> None, detail |-> None,
          groups |-> None]

By(t, k, s, h) == [Blank EXCEPT !.from = t, !.key = k, !.method = <<s, h>>]
OnDevice(c) == [c EXCEPT !.device = dev]
InGroup(c, g) == [c EXCEPT !.group = g]
Owner(s, h) == By(tp, OwnerKey, s, h)

With(c, x) == [c EXCEPT !.detail = x]

Connect(t) == With(OnDevice(By(t, OwnerKey, "devices", "connect")), "some")
Control(t, k) == With(OnDevice(By(t, k, "devices", "control")), "some")

\* A table whose rows are the given ones.
Table(S, rows) == [row \in S |-> IF row \in rows THEN 1 ELSE 0]

Database(members, links) ==
  [users |-> {<<user, pw>>}, groups |-> {g1}, devices |-> {dev},
   subs |-> Table(Groups \X Logins, members),
   conns |-> Table(Groups \X Devices, links)]

\* The user and the device share a group, or not.
Databases ==
  {Database({<<g1, user>>}, {<<g1, dev>>}),
   Database({<<g2, user>>}, {<<g1, dev>>})}

SharedDatabase == {Database({<<g1, user>>}, {<<g1, dev>>})}

\* The device is in two groups.
TwoGroups == {Database({<<g1, user>>}, {<<g1, dev>>, <<g2, dev>>})}

\* Commands to a device while it comes and goes.
ControlCalls ==
  {Connect(td), OnDevice(By(td, OwnerKey, "devices", "disconnect")),
   Control(tu, UserKey), Control(tp, OwnerKey)}

\* Commands to a device while its groups change, or those of the user.
GroupCalls ==
  {Connect(td), Control(tu, UserKey),
   InGroup(OnDevice(Owner("connections", "add")), g2),
   InGroup(OnDevice(Owner("connections", "delete")), g1)}

MemberCalls ==
  {Connect(td), Control(tu, UserKey),
   [InGroup(Owner("subscriptions", "add"), g1) EXCEPT !.login = user],
   [InGroup(Owner("subscriptions", "delete"), g1) EXCEPT !.login = user]}

\* Listening to a device.
ListenCalls ==
  {Connect(td),
   OnDevice(By(tu, UserKey, "devices", "subscribe")),
   OnDevice(By(tu, UserKey, "devices", "unsubscribe")),
   OnDevice(By(tu, UserKey, "connections", "unsubscribe"))}

\* Users: keys come and go while they are used.
UserCalls ==
  {[Owner("users", "add") EXCEPT !.login = user, !.password = pw2],
   [Owner("users", "delete") EXCEPT !.login = user],
   By(tu, UserKey, "devices", "list"), By(tu, Key(user, pw2), "devices", "list")}

\* Keys of other forms: with a third part, with an empty password, without a
\* dot, and one that is not a string.
KeyCalls ==
  {[Owner("users", "delete") EXCEPT !.login = user], Connect(td)} \cup
  {Control(tu, k) : k \in {UserKey, <<user, pw, rest>>, Key(user, Empty),
                            Key(user, None), Wrong}}

\* Every other method, and the requests that the router refuses.
OtherCalls ==
  {Blank, [Blank EXCEPT !.method = <<"manager", "info">>],
   [Blank EXCEPT !.method = <<"users", "login">>, !.login = user, !.password = pw],
   [Blank EXCEPT !.method = <<"devices", "list">>],
   By(tu, UserKey, "users", "list"), Owner("users", "list"),
   With(InGroup(Owner("groups", "add"), g2), "some"),
   InGroup(Owner("groups", "delete"), g1),
   Owner("groups", "list"), InGroup(Owner("connections", "list"), g1),
   InGroup(Owner("subscriptions", "list"), g1),
   By(tu, UserKey, "subscriptions", "devices"),
   OnDevice(By(tu, UserKey, "connections", "subscribe")),
   OnDevice(Owner("devices", "add")), OnDevice(Owner("devices", "delete")),
   OnDevice(By(tu, UserKey, "devices", "detail")),
   By(tu, UserKey, "platform", "write"), By(tu, UserKey, "devices", "fly")}

\* What only the administrator may name: the handlers that other services use,
\* and those that take no task.
InnerCalls ==
  {Connect(td), Owner("users", "auth"), OnDevice(Owner("connections", "devices")),
   With(OnDevice(Owner("devices", "request")), "some"),
   OnDevice(Owner("subscriptions", "on")), OnDevice(Owner("subscriptions", "off")),
   [OnDevice(Owner("subscriptions", "on")) EXCEPT !.groups = Table(Groups, {g2})],
   [Owner("subscriptions", "groups") EXCEPT !.groups = Table(Groups, {g2})],
   [Owner("connections", "groups") EXCEPT !.groups = Table(Groups, {})],
   By(tu, UserKey, "users", "skip"), Owner("users", "skip"),
   Owner("groups", "sync_contacts"), Owner("connections", "add_channel"),
   Owner("subscriptions", "emit"), Owner("devices", "response"),
   Owner("devices", "notify")}

\* Requests without the parameters that their handlers read, or with others.
AbsentCalls ==
  {Connect(td), With(Connect(td), "odd"), With(Connect(td), Empty),
   With(Connect(td), None), [Blank EXCEPT !.method = <<>>],
   [Blank EXCEPT !.method = <<"users", "login">>],
   Owner("users", "add"), Owner("groups", "delete"), Owner("connections", "list"),
   [InGroup(Owner("subscriptions", "add"), g1) EXCEPT !.login = Empty],
   By(tu, UserKey, "devices", "subscribe"), By(tu, UserKey, "connections", "unsubscribe"),
   By(tu, UserKey, "devices", "control"),
   [By(tu, UserKey, "devices", "control") EXCEPT !.device = Wrong],
   With(Control(tu, UserKey), None)}

Scene(calls, max, notes) == [calls |-> calls, max |-> max, notifies |-> notes]

AllScenes ==
  {Scene(ControlCalls, 3, 0), Scene(GroupCalls, 3, 0), Scene(MemberCalls, 3, 0),
   Scene(ListenCalls, 3, 1), Scene(UserCalls, 4, 0), Scene(KeyCalls, 3, 0),
   Scene(OtherCalls, 2, 0), Scene(InnerCalls, 2, 0), Scene(AbsentCalls, 2, 0)}

\* What the runs of liveness and of the violation need.
AnswerScenes == {Scene(scene.calls, 2, 0) : scene \in AllScenes}
DeviceScene == {Scene({Connect(td), Control(tu, UserKey)}, 2, 0)}
=============================================================================
