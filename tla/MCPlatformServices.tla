------------------------- MODULE MCPlatformServices -------------------------
(***************************************************************************)
(* Model-checking instances of PlatformServices: a client tc, a manager    *)
(* at tm, and the profiles of two owners.                                  *)
(***************************************************************************)
EXTENDS PlatformServices

CONSTANTS tc, tm, own, oth, new, pw, rest, mgr, longest

\* The key of a login and a password.
Key(login, password) == <<login, password, None>>
OwnKey == Key(own, pw)
OthKey == Key(oth, pw)
Home == <<own, mgr>>

Blank == [from |-> tc, method |-> <<"ping">>, key |-> None, manager |-> None,
          login |-> None, password |-> None, name |-> None, mkey |-> None]

By(t, k, s, h) == [Blank EXCEPT !.from = t, !.key = k, !.method = <<s, h>>]
OnHome(c) == [c EXCEPT !.mkey = Home]
Signup(login) == [Blank EXCEPT !.method = <<"profile", "signup">>, !.login = login,
                               !.password = pw]

Connect(t) == OnHome(By(t, OwnKey, "managers", "connect"))
Ask(t) == [Blank EXCEPT !.from = t, !.manager = Home]

\* Two profiles, and the manager of one of them.
HomeDatabase == {[profiles |-> {<<own, pw>>, <<oth, pw>>}, rows |-> {Home}]}

\* Clients ask the manager while it comes and goes.
RouteCalls ==
  {Connect(tm), Ask(tc), OnHome(By(tm, OwnKey, "managers", "disconnect"))}

\* The row of the manager is deleted while clients ask it, and added again.
Delete == OnHome(By(tc, OwnKey, "managers", "delete"))

RowCalls == {Connect(tm), Ask(tc), Delete}

AgainCalls ==
  {Connect(tm), Delete, [By(tc, OwnKey, "managers", "add") EXCEPT !.name = mgr]}

\* Keys of another profile, and of other forms: with a third part, without a
\* dot, with the empty password of a login without a row, which then signs up.
KeyCalls ==
  {OnHome(By(tc, OthKey, "managers", "connect")),
   OnHome(By(tc, <<own, pw, rest>>, "managers", "connect")),
   OnHome(By(tc, Key(own, None), "managers", "connect")),
   OnHome(By(tc, Key(own, Empty), "managers", "connect")),
   [By(tc, Key(new, Empty), "managers", "add") EXCEPT !.name = mgr],
   By(tc, Wrong, "managers", "list"), Signup(new), Ask(tc)}

\* Every other method, and the requests that are refused.
OtherCalls ==
  {Blank, [Blank EXCEPT !.method = <<"manager", "info">>],
   [Blank EXCEPT !.method = <<"managers", "list">>],
   By(tc, OwnKey, "managers", "list"), By(tc, OthKey, "managers", "fly"),
   By(tc, OwnKey, "routes", "list"), By(tc, OwnKey, "manager", "info"),
   [By(tc, OwnKey, "managers", "add") EXCEPT !.name = longest],
   [By(tc, OwnKey, "managers", "delete") EXCEPT !.mkey = Empty],
   Signup(Empty),
   [Blank EXCEPT !.method = <<"profile", "login">>, !.login = own,
                 !.password = pw]}

\* The handlers that other services use, and those that take no task.
InnerCalls ==
  {Connect(tm), By(tc, OthKey, "profile", "auth"), By(tc, OthKey, "managers", "request"),
   By(tc, OthKey, "managers", "response"), By(tc, OthKey, "managers", "skip"),
   By(tc, OthKey, "manager", "skip"), By(tc, OthKey, "profile", "sync_contacts"),
   By(tc, OthKey, "manager", "add_channel")}

\* Requests without the parameters that their handlers read.
AbsentCalls ==
  {Connect(tm), [Blank EXCEPT !.method = <<>>],
   [Blank EXCEPT !.method = <<"profile", "login">>],
   [Signup(new) EXCEPT !.password = Wrong],
   By(tc, OwnKey, "managers", "add"), By(tc, OwnKey, "managers", "delete"),
   By(tc, OwnKey, "managers", "connect"), By(tc, OwnKey, "managers", "disconnect"),
   [Ask(tc) EXCEPT !.manager = Wrong]}

Scene(calls, max, notifies) == [calls |-> calls, max |-> max, notifies |-> notifies]

AllScenes ==
  {Scene(RouteCalls, 3, 0), Scene({Ask(tc)}, 1, 1), Scene(RowCalls, 3, 0),
   Scene(AgainCalls, 3, 0), Scene(KeyCalls, 2, 0), Scene(OtherCalls, 1, 0),
   Scene(InnerCalls, 2, 0), Scene(AbsentCalls, 2, 0)}
=============================================================================
