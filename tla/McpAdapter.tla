---------------------------- MODULE McpAdapter ----------------------------
(***************************************************************************)
(* The MCP adapter as a server: crates/proto/bondry-mcp-proto/src/lib.rs,  *)
(* over the dispatcher of crates/contract/bondry-core/src/dispatch.rs.     *)
(*                                                                         *)
(* The adapter keeps no state: an answer is a function of the request, of  *)
(* what the automation service would say, and of the outcome of the        *)
(* dispatch when the request reaches one.                                  *)
(***************************************************************************)
EXTENDS Integers, Sequences, FiniteSets

-----------------------------------------------------------------------------
(***************************************************************************)
(* MCP messages over Streamable HTTP as the client side builds and decodes *)
(* them: crates/proto/bondry-mcp-proto/src/client.rs, protocol.rs and      *)
(* version.rs.                                                             *)
(*                                                                         *)
(* A request is one record of the header fields the peer looks at and of   *)
(* the JSON-RPC message in its body; an answer is the same for a response. *)
(* A member of a JSON object that is not there is Absent.                  *)
(***************************************************************************)

Absent == "absent"
Modern == "2026-07-28"
Legacy == "2025-11-25"
Older == "2024-11-05"      \* a revision this build does not know

(* SUPPORTED_PROTOCOL_VERSIONS, most recent first. *)
SupportedVersions == <<Modern, Legacy>>
ParseVersion(v) ==
    IF \E i \in DOMAIN SupportedVersions : SupportedVersions[i] = v THEN v ELSE Absent
IsModern(v) == v = Modern

(* The error of the first check that fails, in the order of the code's      *)
(* early returns; "ok" when none does.                                      *)
FirstFailure(checks) ==
    LET failed == {i \in DOMAIN checks : checks[i][1]} IN
    IF failed = {} THEN "ok"
    ELSE checks[CHOOSE i \in failed : \A j \in failed : i <= j][2]

NoId == -1        \* no "id" member: a notification
NullId == -2      \* "id": null

-----------------------------------------------------------------------------
(* Requests *)

(* params: the revision and the rest of "_meta", the members of initialize, *)
(* of tools/list and of tools/call.                                         *)
NoParams == [shape |-> "none", meta |-> Absent, metaOk |-> FALSE,
             version |-> Absent, initOk |-> FALSE, cursor |-> FALSE,
             name |-> Absent, args |-> Absent]
EmptyParams == [NoParams EXCEPT !.shape = "object"]

(* modern_metadata *)
WithMetadata(params, version) ==
    [params EXCEPT !.shape = "object", !.meta = version, !.metaOk = TRUE]

(* encoded_name_header, and decode_header_value behind single_header: a     *)
(* value is <<>> when the header is not there, else how it is written and   *)
(* what that stands for.  A repeated one or broken Base64 stands for        *)
(* nothing.                                                                 *)
EncodedName(name) == <<"base64", name>>
DecodedName(value) ==
    IF value = <<>> \/ value[1] \in {"many", "malformed"} THEN Absent ELSE value[2]

(* McpClientRequest::new: routing headers only when a revision was          *)
(* negotiated, and the ones naming method and tool only when it is modern.  *)
ClientRequest(id, method, params, version, shape, max) ==
    [http |-> [verb |-> "POST", type |-> "json",
               accept |-> {"json", "event_stream"}, version |-> version,
               method |-> IF IsModern(version) THEN method ELSE Absent,
               name |-> IF IsModern(version) /\ method = "tools/call"
                        THEN EncodedName(params.name) ELSE <<>>,
               kind |-> IF id = NoId THEN "notification" ELSE "request",
               id |-> id, rpc |-> method,
               params |-> IF IsModern(version) /\ id # NoId
                          THEN WithMetadata(params, version) ELSE params],
     decoder |-> [id |-> id, version |-> version, shape |-> shape, max |-> max]]

DiscoverRequest(id) ==
    ClientRequest(id, "server/discover", EmptyParams, Modern, "discovery", 0)
InitializeRequest(id) ==
    ClientRequest(id, "initialize",
                  [EmptyParams EXCEPT !.version = Modern, !.initOk = TRUE],
                  Absent, "initialization", 0)
(* initialized refuses a modern revision before anything is built. *)
InitializedFails(version) == IsModern(version)
InitializedRequest(version) ==
    ClientRequest(NoId, "notifications/initialized", NoParams, version,
                  "acknowledgement", 0)
ListToolsRequest(id, version, max) ==
    ClientRequest(id, "tools/list",
                  IF IsModern(version) THEN EmptyParams ELSE NoParams,
                  version, "tool_list", max)
CallToolRequest(id, version, name) ==
    ClientRequest(id, "tools/call",
                  [EmptyParams EXCEPT !.name = name, !.args = "object"],
                  version, "tool_call", 0)

-----------------------------------------------------------------------------
(* Answers *)

(* A result object; has names the members that are there and well formed.   *)
NoResult == [complete |-> FALSE, has |-> {}, versions |-> {}, version |-> Absent,
             tools |-> <<>>, isError |-> Absent, bytes |-> 0, depth |-> 1]

(* "invalid" is JSON that is not a JSON-RPC 2.0 message, "message" a        *)
(* request or a notification.                                               *)
AnswerKinds == {"empty", "not_json", "invalid", "message", "result", "error"}
Answer(status, kind, id) ==
    [status |-> status, type |-> "json", kind |-> kind, id |-> id, code |-> 0,
     text |-> Absent, result |-> NoResult]
RpcResult(id, result) == [Answer(200, "result", id) EXCEPT !.result = result]
RpcError(status, id, code, text) ==
    [Answer(status, "error", id) EXCEPT !.code = code, !.text = text]
Accepted == [Answer(202, "empty", NullId) EXCEPT !.type = "none"]

IsSuccess(status) == status \in 200 .. 299

(* classify_remote_error *)
RemoteError(code) ==
    CASE code = -32022 -> "UnsupportedProtocolVersion"
      [] code = -32601 -> "MethodNotFound"
      [] code \in {-32700, -32600, -32602, -32020} -> "RequestRejected"
      [] code = -32603 -> "PeerUnavailable"
      [] OTHER -> "RemoteFailure"

(* parse_discovery: the first of our revisions that the peer names. *)
Negotiated(versions) ==
    SupportedVersions[CHOOSE i \in DOMAIN SupportedVersions :
        /\ SupportedVersions[i] \in versions
        /\ \A j \in DOMAIN SupportedVersions :
              SupportedVersions[j] \in versions => i <= j]

(* parse_tool_list: a name is blank, not a string or repeated, a            *)
(* description is not a string, or a schema is not an object.               *)
ToolListFaults(tools) ==
    \/ \E i \in DOMAIN tools : tools[i].name = "blank" \/ tools[i].schema = "not_object"
    \/ \E i, j \in DOMAIN tools : i # j /\ tools[i].name = tools[j].name

(* decode_result *)
ResultChecks(decoder, result) ==
    CASE decoder.shape = "discovery" ->
           << <<"versions" \notin result.has, "InvalidEnvelope">>,
              <<\A v \in result.versions : ParseVersion(v) = Absent,
                "UnsupportedProtocolVersion">> >>
      [] decoder.shape = "initialization" ->
           << <<"version" \notin result.has \/ ParseVersion(result.version) = Absent,
                "UnsupportedProtocolVersion">> >>
      [] decoder.shape = "tool_list" ->
           << <<"tools" \notin result.has, "InvalidEnvelope">>,
              <<Len(result.tools) > decoder.max, "ToolListTooLarge">>,
              <<ToolListFaults(result.tools), "InvalidEnvelope">> >>
      [] decoder.shape = "tool_call" ->
           << <<"content" \notin result.has \/ result.isError = "other",
                "InvalidEnvelope">> >>

(* decode: the answer to another request. *)
OtherId(decoder, r) == r.id # decoder.id

(* McpResponseDecoder::decode, with validate_content_type, protocol::parse  *)
(* and parse_response.                                                      *)
Decode(decoder, r) ==
    IF decoder.shape = "acknowledgement"
    THEN FirstFailure(<<
        <<~IsSuccess(r.status), "UnexpectedHttpStatus">>,
        <<r.status # 202 \/ r.kind # "empty", "InvalidEnvelope">> >>)
    ELSE FirstFailure(<<
        <<r.type = "event_stream", "UnsupportedResponseMode">>,
        <<r.type # "json", "InvalidContentType">>,
        <<r.kind \in {"empty", "not_json"}, "InvalidJson">>,
        <<r.kind \notin {"result", "error"} \/ r.id = NullId, "InvalidEnvelope">>,
        <<OtherId(decoder, r), "MismatchedResponseId">>,
        <<r.kind = "error", RemoteError(r.code)>>,
        <<~IsSuccess(r.status), "UnexpectedHttpStatus">>,
        <<IsModern(decoder.version) /\ ~r.result.complete, "UnsupportedResponseMode">>
        >> \o ResultChecks(decoder, r.result))

-----------------------------------------------------------------------------
(* The service: the registry in its order, the tools the policy grants the  *)
(* principal under this adapter, and whether the policy can be read.        *)
Names(tools) == {tools[i].name : i \in DOMAIN tools}
Registered(svc) == Names(svc.registry)

Outcome(result, ran) == [result |-> result, ran |-> ran]

(* Dispatcher::dispatch: what it may return for a tool, and whether the     *)
(* handler ran.  Every path records an audit event before it returns, and   *)
(* each recording may fail, after the handler too.  An invocation           *)
(* identifier that cannot be made answers like an audit that fails.         *)
DispatchOutcomes(svc, name) ==
    {Outcome("audit", FALSE)} \cup
    IF name \notin Registered(svc) THEN {Outcome("not_found", FALSE)}
    ELSE IF ~svc.readable THEN {Outcome("policy_unavailable", FALSE)}
    ELSE IF name \notin svc.granted THEN {Outcome("not_granted", FALSE)}
    ELSE {Outcome("invalid_input", FALSE), Outcome("ok", TRUE),
          Outcome("failed", TRUE), Outcome("audit", TRUE)}

(* Dispatcher::capabilities, in registry order. *)
Capabilities(svc) == SelectSeq(svc.registry, LAMBDA tool : tool.name \in svc.granted)

-----------------------------------------------------------------------------
(* The checks before a message is looked at *)

(* handle_post up to the version: "many" is a header field that is repeated *)
(* or not text.                                                             *)
PostRefusal(q) ==
    FirstFailure(<<
        <<q.verb # "POST", "method_not_allowed">>,
        <<q.type # "json", "unsupported_media_type">>,
        <<~({"json", "event_stream"} \subseteq q.accept), "not_acceptable">>,
        <<q.kind = "not_json", "parse_error">>,
        <<q.kind = "invalid", "invalid_request">>,
        <<q.version = "many", "header_mismatch">>,
        <<q.version = Absent /\ ~(q.kind = "request" /\ q.rpc = "initialize"),
          "header_mismatch">>,
        <<q.version # Absent /\ ParseVersion(q.version) = Absent,
          "unsupported_version">> >>)

(* transport_error, error_response, header_mismatch, unsupported_version    *)
(* and validation_error; transport_error writes no JSON-RPC.                *)
RefusalAnswer(refusal, id) ==
    CASE refusal = "method_not_allowed" -> Answer(405, "invalid", NullId)
      [] refusal = "unsupported_media_type" -> Answer(415, "invalid", NullId)
      [] refusal = "not_acceptable" -> Answer(406, "invalid", NullId)
      [] refusal = "parse_error" -> RpcError(400, NullId, -32700, "Parse error")
      [] refusal = "invalid_request" ->
           RpcError(400, NullId, -32600, "Invalid Request")
      [] refusal = "header_mismatch" -> RpcError(400, id, -32020, "Header mismatch")
      [] refusal = "unsupported_version" ->
           RpcError(400, id, -32022, "Unsupported protocol version")
      [] refusal = "invalid_params" -> RpcError(400, id, -32602, "Invalid params")

(* validate_modern_metadata *)
MetadataChecks(params, version) ==
    << <<params.meta \in {Absent, "unversioned"}, "invalid_params">>,
       <<params.meta # version, "header_mismatch">>,
       <<~params.metaOk, "invalid_params">> >>

(* validate_modern_request *)
ModernRefusal(q) ==
    FirstFailure(<<
        <<q.method # q.rpc, "header_mismatch">>,
        <<q.rpc = "tools/call" /\ DecodedName(q.name) = Absent, "header_mismatch">>,
        <<q.rpc = "tools/call" /\ q.params.name = Absent, "invalid_params">>,
        <<q.rpc = "tools/call" /\ DecodedName(q.name) # q.params.name,
          "header_mismatch">> >>
        \o MetadataChecks(q.params, q.version))

-----------------------------------------------------------------------------
(* The methods *)

VersionOf(q) == IF q.version = Absent THEN Legacy ELSE q.version
InvalidParams(id) == RpcError(200, id, -32602, "Invalid params")
UnknownTool(id) == RpcError(200, id, -32602, "Unknown tool")
InternalError(id) == RpcError(200, id, -32603, "Internal error")

(* complete_result *)
CompleteResult(id, result, version) ==
    RpcResult(id, [result EXCEPT !.complete = IsModern(version)])

(* initialize: negotiate_legacy answers one revision whatever is asked. *)
Initialize(q) ==
    IF q.params.shape # "object" \/ q.params.version = Absent \/ ~q.params.initOk
    THEN InvalidParams(q.id)
    ELSE RpcResult(q.id, [NoResult EXCEPT !.has = {"version"}, !.version = Legacy])

(* discover: nothing but "_meta". *)
Discover(q) ==
    IF q.params = WithMetadata(NoParams, q.version)
    THEN CompleteResult(q.id,
            [NoResult EXCEPT !.has = {"versions"},
                             !.versions = {SupportedVersions[i] :
                                             i \in DOMAIN SupportedVersions}],
            VersionOf(q))
    ELSE InvalidParams(q.id)

(* list_tools and valid_list_params *)
ListTools(q, svc) ==
    IF q.params.shape = "other" \/ q.params.cursor THEN InvalidParams(q.id)
    ELSE IF ~svc.readable /\ svc.registry # <<>> THEN InternalError(q.id)
    ELSE CompleteResult(q.id, [NoResult EXCEPT !.has = {"tools"},
                                               !.tools = Capabilities(svc)],
                        VersionOf(q))

(* tool_call, CapabilityId::new and the invocation identifier: why a call   *)
(* does not reach the dispatcher.  invalid_id stands for a name that is no  *)
(* capability identifier.                                                   *)
CallRefusal(q) ==
    FirstFailure(<<
        <<q.params.shape # "object" \/ q.params.name = Absent
            \/ q.params.args = "other", "invalid_params">>,
        <<q.params.name = "invalid_id", "unknown_tool">> >>)

(* call_tool, tool_success and tool_failure *)
CallAnswer(q, result, bytes) ==
    CASE result \in {"not_found", "not_granted"} -> UnknownTool(q.id)
      [] result \in {"policy_unavailable", "audit"} -> InternalError(q.id)
      [] result \in {"ok", "failed", "invalid_input"} ->
           CompleteResult(q.id,
            [NoResult EXCEPT !.has = {"content"}, !.bytes = bytes,
                             !.isError = IF result = "ok" THEN "false" ELSE "true"],
            VersionOf(q))

(* The request reaches the dispatcher (handle_rpc_request to call_tool). *)
Dispatches(q) ==
    /\ PostRefusal(q) = "ok"
    /\ q.kind = "request" /\ q.rpc = "tools/call"
    /\ IsModern(q.version) => ModernRefusal(q) = "ok"
    /\ CallRefusal(q) = "ok"

(* handle_modern_request and handle_legacy_request; ping is legacy only.    *)
Methods(version) ==
    {"tools/list", "tools/call"} \cup
    IF IsModern(version) THEN {"server/discover"} ELSE {"initialize", "ping"}
RequestAnswer(q, svc, result, bytes) ==
    CASE q.rpc \notin Methods(VersionOf(q)) ->
           RpcError(IF IsModern(q.version) THEN 404 ELSE 200, q.id, -32601,
                    "Method not found")
      [] q.rpc = "server/discover" /\ IsModern(q.version) -> Discover(q)
      [] q.rpc = "initialize" /\ ~IsModern(q.version) -> Initialize(q)
      [] q.rpc = "ping" /\ ~IsModern(q.version) ->
           IF q.params.shape = "other" THEN InvalidParams(q.id)
           ELSE RpcResult(q.id, NoResult)
      [] q.rpc = "tools/list" -> ListTools(q, svc)
      [] q.rpc = "tools/call" ->
           IF CallRefusal(q) = "invalid_params" THEN InvalidParams(q.id)
           ELSE IF CallRefusal(q) = "unknown_tool" THEN UnknownTool(q.id)
           ELSE CallAnswer(q, result, bytes)

(* handle_notification *)
NotificationAnswer(q) ==
    LET refusal == FirstFailure(MetadataChecks(q.params, q.version)) IN
    IF IsModern(q.version) /\ refusal # "ok" THEN RefusalAnswer(refusal, NullId)
    ELSE Accepted

(* McpAdapter::handle *)
Handle(q, svc, result, bytes) ==
    LET id == IF q.kind = "request" THEN q.id ELSE NullId
        refusal == PostRefusal(q)
        modern == ModernRefusal(q)
    IN  IF refusal # "ok" THEN RefusalAnswer(refusal, id)
        ELSE IF q.kind = "notification" THEN NotificationAnswer(q)
        ELSE IF q.kind = "response"
             THEN IF IsModern(q.version)
                  THEN RpcError(400, NullId, -32600, "Invalid Request") ELSE Accepted
        ELSE IF IsModern(q.version) /\ modern # "ok" THEN RefusalAnswer(modern, q.id)
        ELSE RequestAnswer(q, svc, result, bytes)
=============================================================================
