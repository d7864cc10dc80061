---------------------------- MODULE MCProviders ----------------------------
(***************************************************************************)
(* Model-checking instance of Providers: two websocket sessions, or one    *)
(* HTTP connection with a pipeline of two responses, or one upgraded       *)
(* session; a websocket session together with an HTTP connection would     *)
(* only multiply the states, they share nothing but the end of the loop.   *)
(***************************************************************************)
EXTENDS Providers

CONSTANTS s1, s2, c1

OneAtATime == {{s1, s2}, {c1}, {Upgraded}}

\* index.html and an image for the main directory, none for the manager's.
MainFiles == {<<"main", "index">>, <<"main", "image">>}
=============================================================================
