------------------------------ MODULE JsonRpc -------------------------------
(***************************************************************************)
(* The JSON-RPC messages the programs exchange: serialize writes one as a  *)
(* document, the receiver finds out from the document which kind it is and *)
(* parses it.  A parse reads members a message need not have, and reading  *)
(* a missing member of a const map adds it.  The settings service, which   *)
(* answers one request, is the receiver that sends something back.         *)
(***************************************************************************)
EXTENDS Json

CONSTANTS
    Ids,        \* values of id
    Methods,    \* names of methods
    Contents,   \* values of params and result
    Metadata,   \* maps of metadata
    Config,     \* the configuration of the settings service
    MaxHops     \* bound on messages of one exchange

ASSUME RpcAssumption == MaxHops \in Nat

VARIABLES
    sent,       \* the message on its way, <<>> before the first
    text,       \* what serialize made of it, <<>> once it is read
    received,   \* the message the receiver has, <<>> before it has one
    document,   \* the receiver's map after the parse
    hops        \* messages sent so far

rpcVars == <<sent, text, received, document, hops>>

\* json_rpc::error_code; server_not_initialized is one more than the code before it.
ErrorCodes == {-32700, -32600, -32601, -32602, -32603, -32099, -32000, -31999, -32001}

MethodNotFound == -32601

\* request_message, notify_message, response_message and response_error.
Request(id, method, params, metadata) ==
    [kind |-> "request", id |-> id, method |-> method, params |-> params,
     metadata |-> metadata]

Notify(method, params, metadata) ==
    [kind |-> "notify", method |-> method, params |-> params, metadata |-> metadata]

Response(id, result, metadata, error) ==
    [kind |-> "response", id |-> id, result |-> result, metadata |-> metadata,
     error |-> error]

\* response_error(code, message); data stays null.
ResponseError(code) == <<code>>

\* A member that is written only if it is there.
Member(k, v, there) == IF there THEN (<<k>> :> v) ELSE <<>>

Version == Member("jsonrpc", String(<<"2.0">>), TRUE)

\* serialize(request_message).
SerializeRequest(msg) ==
    Version @@ Member("method", String(msg.method), TRUE)
    @@ Member("params", msg.params, msg.params # Null)
    @@ Member("id", msg.id, TRUE)
    @@ Member("metadata", Map(msg.metadata), msg.metadata # <<>>)

\* serialize(notify_message).
SerializeNotify(msg) ==
    Version @@ Member("method", String(msg.method), TRUE)
    @@ Member("params", msg.params, msg.params # Null)
    @@ Member("metadata", Map(msg.metadata), msg.metadata # <<>>)

\* serialize(response_message): uint64_t(code) is an integral type, and becomes
\* the int_t it came from.
SerializeResponse(msg) ==
    LET error == (<<"code">> :> Normalize(Integer(msg.error[1] % 2^LongBits)))
                 @@ (<<"message">> :> String(<<"text">>)) @@ (<<"data">> :> Null)
    IN  Version @@ Member("result", msg.result, TRUE)
        @@ Member("error", Map(error), msg.error # <<>>)
        @@ Member("id", msg.id, TRUE)
        @@ Member("metadata", Map(msg.metadata), msg.metadata # <<>>)

Serialize(msg) ==
    CASE msg.kind = "request"  -> SerializeRequest(msg)
      [] msg.kind = "notify"   -> SerializeNotify(msg)
      [] msg.kind = "response" -> SerializeResponse(msg)

\* A peer that calls the member param, which parse accepts too, and leaves a
\* result out that is null.
Foreign(m) ==
    CASE Has(m, <<"params">>) ->
            MapErase(m, <<"params">>) @@ (<<"param">> :> m[<<"params">>])
      [] HasType(m, <<"result">>, "null") -> MapErase(m, <<"result">>)
      [] OTHER -> m

\* is_request, is_response, is_notify: what dispatchers ask, in this order.
IsRequest(m) == Has(m, <<"method">>) /\ Has(m, <<"id">>)

IsResponse(m) == ~Has(m, <<"method">>) /\ Has(m, <<"id">>)

IsNotify(m) == ~Has(m, <<"id">>)

\* Mutant: every parse reads id, which adds it to a notification.
ReadsId(m, kind) ==
    CASE kind = "response"     -> Touch(m, <<"result">>)
      [] Has(m, <<"param">>)   -> Touch(m, <<"id">>)
      [] OTHER                 -> Touch(Touch(m, <<"params">>), <<"id">>)

\* parse: the document after the reads of a message of this kind.
Reads(m, kind) ==
    CASE kind = "response"     -> Touch(m, <<"result">>)
      [] Has(m, <<"param">>)   -> m
      [] OTHER                 -> Touch(m, <<"params">>)

ParamsOf(m) == IF Has(m, <<"param">>) THEN m[<<"param">>] ELSE Touch(m, <<"params">>)[<<"params">>]

MetadataOf(m) == GetOr(m, <<"metadata">>, Map(<<>>))[2]

\* parse(request_message).
ParseRequest(m) ==
    Request(m[<<"id">>], m[<<"method">>][2], ParamsOf(m), MetadataOf(m))

\* parse(notify_message).
ParseNotify(m) == Notify(m[<<"method">>][2], ParamsOf(m), MetadataOf(m))

\* parse(response_message): an error is left in the document.
ParseResponse(m) ==
    Response(m[<<"id">>], Touch(m, <<"result">>)[<<"result">>], MetadataOf(m), <<>>)

----------------------------------------------------------------------------

RpcInit ==
    sent = <<>> /\ text = <<>> /\ received = <<>> /\ document = <<>> /\ hops = 0

Transmit(msg) ==
    /\ hops < MaxHops /\ hops' = hops + 1
    /\ sent' = msg
    /\ \E style \in {"own", "foreign"} :
        text' = Save(IF style = "own" THEN Serialize(msg) ELSE Foreign(Serialize(msg)), style)
    /\ received' = <<>> /\ document' = <<>>

\* The first message of an exchange.
SendRequest ==
    /\ sent = <<>>
    /\ \E id \in Ids, method \in Methods, params \in Contents, metadata \in Metadata :
        Transmit(Request(id, method, params, metadata))

SendNotify ==
    /\ sent = <<>>
    /\ \E method \in Methods, params \in Contents, metadata \in Metadata :
        Transmit(Notify(method, params, metadata))

SendResponse ==
    /\ sent = <<>>
    /\ \E id \in Ids, result \in Contents, metadata \in Metadata :
        \E error \in {<<>>} \cup {ResponseError(c) : c \in ErrorCodes} :
            Transmit(Response(id, result, metadata, error))

\* A dispatcher: the text becomes a map, the map tells the kind.
Receive ==
    LET m == Parse(text) IN
    /\ text # <<>>
    /\ \/ IsRequest(m)  /\ received' = ParseRequest(m)  /\ document' = Reads(m, "request")
       \/ IsResponse(m) /\ received' = ParseResponse(m) /\ document' = Reads(m, "response")
       \/ IsNotify(m)   /\ received' = ParseNotify(m)   /\ document' = Reads(m, "notify")
    /\ text' = <<>>
    /\ UNCHANGED <<sent, hops>>

\* The settings service: whatever has a method is parsed as a request,
\* get_settings is answered with the configuration, anything else with an
\* error, and always under the id "2".
SettingsAnswer ==
    /\ received # <<>> /\ received.kind # "response"
    /\ Transmit(IF received.method = <<"get_settings">>
                THEN Response(String(<<"2">>), Map(Config), <<>>, <<>>)
                ELSE Response(String(<<"2">>), String(<<>>), <<>>,
                              ResponseError(MethodNotFound)))

RpcNext == SendRequest \/ SendNotify \/ SendResponse \/ Receive \/ SettingsAnswer

----------------------------------------------------------------------------
(* Properties *)

\* What a message means after its numbers were narrowed and its error dropped.
Understood(msg) ==
    LET narrow(v) == Narrowed(v) IN
    CASE msg.kind = "request" ->
            Request(narrow(msg.id), msg.method, narrow(msg.params), narrow(Map(msg.metadata))[2])
      [] msg.kind = "notify" ->
            Notify(msg.method, narrow(msg.params), narrow(Map(msg.metadata))[2])
      [] msg.kind = "response" ->
            Response(narrow(msg.id), narrow(msg.result), narrow(Map(msg.metadata))[2], <<>>)

\* The receiver of a message takes it for the kind it was sent as and reads
\* what was sent, even when the sender left out members or named one param;
\* and the document still says the same afterwards, although parse reads
\* members that are not there: a dispatcher asks the document again.
RpcMeaning ==
    received # <<>> =>
        /\ received = Understood(sent)
        /\ IsRequest(document)  <=> sent.kind = "request"
        /\ IsResponse(document) <=> sent.kind = "response"
        /\ sent.kind = "response" =>
            /\ Has(document, <<"error">>) <=> sent.error # <<>>
            /\ Has(document, <<"error">>) =>
                document[<<"error">>][2][<<"code">>] = Integer(sent.error[1])
=============================================================================
