----------------------------- MODULE MCLibrary ------------------------------
(***************************************************************************)
(* The libraries under the services, one after the other in one run: the   *)
(* JSON documents, the JSON-RPC messages, base64 and the SQLite wrapper.   *)
(* They share no state; part says which of them a behaviour is about.      *)
(***************************************************************************)
EXTENDS JsonRpc, Base64, Statement

VARIABLE part

libraryVars == <<part, docVars, rpcVars, bytes, stmtVars>>

MCKeys == {<<"a">>, <<"\"">>}

\* Values at the edges of the conversions: an integer wider than an int, a real
\* that loses digits or its fraction, one with an exponent, one beyond a float
\* and an infinite one, strings with each kind of escape.
MCLeaves ==
    {Null, Integer(100000), Real(1), Real(5), Real(100), Real(-100),
     Boolean(TRUE), Boolean(FALSE), String(<<>>), String(<<"\\", "NL">>),
     String(<<"accent", "emoji", "/">>), Map(<<>>), Array(<<>>)}

MCIds == {String(<<"7">>), Integer(100000), Null}

MCMethods == {<<"get_settings">>, <<"users.add">>}

MCConfig ==
    (<<"port">> :> Integer(90)) @@ (<<"hosts">> :> Array(<<String(<<"a">>), Null>>))

MCContents == {Null, Map(MCConfig), String(<<"\"">>)}

MCMetadata == {<<>>, (<<"user">> :> String(<<"emoji", "accent">>))}

MCBindable ==
    {<<"int", 7>>, <<"double", 3>>, <<"string", <<"x", "NUL", "z">>>>, <<"vector", <<"NUL">>>>,
     <<"optional", <<>>>>, <<"optional", <<<<"y">>>>>>, <<"null">>}

MCInit ==
    /\ part \in {"documents", "messages", "bytes", "statements"}
    /\ DocInit /\ RpcInit /\ Base64Init /\ StmtInit
    /\ part # "statements" => temporary

MCNext ==
    \/ part = "documents"  /\ DocNext    /\ UNCHANGED <<part, rpcVars, bytes, stmtVars>>
    \/ part = "messages"   /\ RpcNext    /\ UNCHANGED <<part, docVars, bytes, stmtVars>>
    \/ part = "bytes"      /\ Base64Next /\ UNCHANGED <<part, docVars, rpcVars, stmtVars>>
    \/ part = "statements" /\ StmtNext   /\ UNCHANGED <<part, docVars, rpcVars, bytes>>

MCSpec == MCInit /\ [][MCNext]_libraryVars
=============================================================================
