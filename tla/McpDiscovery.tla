--------------------------- MODULE McpDiscovery ---------------------------
(***************************************************************************)
(* Configuration-time discovery of the tools of an MCP endpoint:           *)
(* crates/egress/bondry-egress-mcp/src/discovery.rs, run by                *)
(* execute_discovery of crates/ffi/bondry-egress-ffi/src/ffi.rs.           *)
(*                                                                         *)
(* The operation asks for one HTTP exchange at a time.  Its peer is either *)
(* any peer at all, or the adapter of this repository (McpAdapter) whose   *)
(* grants change while discovery runs.  The deadline passes at any moment. *)
(***************************************************************************)
EXTENDS McpAdapter

CONSTANTS
    PeerIsAdapter,     \* the peer is McpAdapter
    Bearer,            \* McpAuthentication::Bearer
    MaxTools, MaxSchema,   \* McpDiscoveryLimits
    Registry           \* the tools of the adapter

VARIABLES
    op,        \* McpDiscoveryOperation: its state, version and secret
    late,      \* the deadline has passed
    wire,      \* the exchange the executor waits for
    sent,      \* what was sent, in order
    taken,     \* the identifiers of the answers that were accepted, in order
    named,     \* the revisions the peer offered in its last answer about them
    result,    \* what execute_discovery returned
    granted    \* the grants of the principal at the adapter

vars == <<op, late, wire, sent, taken, named, result, granted>>

States == {"ready", "awaiting_discovery", "awaiting_initialization",
           "awaiting_acknowledgement", "awaiting_tools", "complete"}
NoWire == [state |-> "none", request |-> InitializedRequest(Legacy)]
Pending == [error |-> "pending", version |-> Absent, tools |-> <<>>]

(* finish *)
Finish(o) == [o EXCEPT !.state = "complete", !.secret = Absent]

(* classify_client, classify_transport *)
ClassifyClient(error) ==
    CASE error = "UnsupportedResponseMode" -> "UnsupportedResponseMode"
      [] error \in {"UnsupportedProtocolVersion", "MethodNotFound"} ->
           "UnsupportedProtocol"
      [] error = "PeerUnavailable" -> "Unavailable"
      [] error \in {"UnexpectedHttpStatus", "RequestRejected", "RemoteFailure"} ->
           "Rejected"
      [] error = "ToolListTooLarge" -> "ToolLimitExceeded"
      [] OTHER -> "InvalidResponse"
ClassifyTransport(error) ==
    CASE error \in {"policy", "tls_failed"} -> "EndpointPolicy"
      [] error = "deadline_exceeded" -> "DeadlineExceeded"
      [] error = "connection_failed" -> "Unavailable"
      [] error = "response_too_large" -> "ResponseTooLarge"
      [] error = "invalid_response" -> "InvalidResponse"
      [] OTHER -> "InvalidRequest"
TransportErrors == {"policy", "deadline_exceeded", "connection_failed",
                    "response_too_large", "invalid_response", "invalid_message"}

(* compile_result, McpToolBinding::from_parts_with_schema_limit and         *)
(* classify_binding: some schema does not compile.                          *)
SchemaFaults(tools) ==
    \E i \in DOMAIN tools : tools[i].bytes > MaxSchema \/ tools[i].schema = "invalid"

-----------------------------------------------------------------------------
(* The peer *)

ToolOf(name, schema, bytes) == [name |-> name, schema |-> schema, bytes |-> bytes]
Good(name) == ToolOf(name, "ok", MaxSchema)
ToolLists ==
    {<<>>, <<Good("a")>>, <<Good("b"), Good("a")>>, <<Good("a"), Good("a")>>,
     <<Good("a"), Good("b"), Good("c")>>, <<Good("blank")>>,
     <<ToolOf("a", "ok", MaxSchema + 1)>>, <<ToolOf("a", "invalid", 1)>>,
     <<Good("a"), ToolOf("b", "not_object", 1)>>}
AnyResult(shape) ==
    {NoResult} \cup
    {[NoResult EXCEPT !.complete = c, !.has = {"versions"}, !.versions = v] :
        c \in BOOLEAN, v \in IF shape = "discovery"
                             THEN SUBSET {Modern, Legacy, Older} ELSE {}} \cup
    {[NoResult EXCEPT !.has = {"version"}, !.version = v] :
        v \in IF shape = "initialization" THEN {Modern, Legacy, Older} ELSE {}} \cup
    {[NoResult EXCEPT !.complete = c, !.has = {"tools"}, !.tools = t] :
        c \in BOOLEAN, t \in IF shape = "tool_list" THEN ToolLists ELSE {}}

(* Any peer: every result there may be for the request, the errors of       *)
(* JSON-RPC, an answer to another request, and what is no answer at all.    *)
PeerAnswers(request) ==
    LET id == request.decoder.id
        results == {RpcResult(i, r) : i \in {id, id - 1},
                                      r \in AnyResult(request.decoder.shape)}
    IN  results
        \cup {[r EXCEPT !.status = 503] : r \in results}
        \cup {[r EXCEPT !.type = t] : r \in results, t \in {"event_stream", "none"}}
        \cup {RpcError(s, i, c, Absent) : s \in {200, 404}, i \in {id, NullId},
                c \in {-32022, -32601, -32602, -32603, -32000}}
        \cup {Answer(200, k, id) : k \in {"not_json", "invalid", "message"}}
        \cup {Accepted, [Accepted EXCEPT !.status = 503]}

(* The adapter of this repository, with the grants of the moment. *)
AdapterAnswers(request) ==
    {Handle(request.http, [registry |-> Registry, granted |-> granted, readable |-> r],
            "not_dispatched", 0) : r \in BOOLEAN}

Answers(request) ==
    IF PeerIsAdapter THEN AdapterAnswers(request) ELSE PeerAnswers(request)

-----------------------------------------------------------------------------
Init ==
    /\ op = [state |-> "ready", version |-> Absent, secret |-> Absent, nextId |-> 1]
    /\ late = FALSE
    /\ wire = NoWire
    /\ sent = <<>>
    /\ taken = <<>>
    /\ named = {}
    /\ result = Pending
    /\ granted \in IF PeerIsAdapter THEN SUBSET Names(Registry) ELSE {{}}

(* finish with an error: McpDiscoveryTransition::Finished *)
Fails(o, error) ==
    /\ op' = Finish(o)
    /\ wire' = NoWire
    /\ result' = [Pending EXCEPT !.error = error]

(* compose and McpDiscoveryTransition::Http: the executor has the request.  *)
(* bearer_header refuses a token that cannot be one.                        *)
Asks(o, state, request) ==
    IF Bearer /\ o.secret = "malformed" THEN Fails(o, "SecretUnavailable")
    ELSE /\ op' = [o EXCEPT !.state = state]
         /\ wire' = [state |-> "composed", request |-> request]
         /\ UNCHANGED result

(* next_id *)
NextId(o) == [o EXCEPT !.nextId = @ + 1]

(* initialize, list_tools and acknowledge_initialization *)
AsksInitialize ==
    Asks(NextId(op), "awaiting_initialization", InitializeRequest(op.nextId))
AsksTools(version) ==
    Asks([NextId(op) EXCEPT !.version = version], "awaiting_tools",
         ListToolsRequest(op.nextId, version, MaxTools))
Acknowledges(version) ==
    IF InitializedFails(version) THEN Fails(op, "InvalidRequest")
    ELSE Asks([op EXCEPT !.version = version], "awaiting_acknowledgement",
              InitializedRequest(version))

-----------------------------------------------------------------------------
(* execute_discovery up to start: the secret is resolved, or is not; the    *)
(* executor may not be built.                                               *)
Start ==
    /\ op.state = "ready" /\ result = Pending
    /\ \/ \E secret \in IF Bearer THEN {"good", "malformed"} ELSE {Absent} :
             Asks(NextId([op EXCEPT !.secret = secret]), "awaiting_discovery",
                  DiscoverRequest(op.nextId))
       \/ \E error \in {"InvalidState"} \cup IF Bearer THEN {"SecretUnavailable"} ELSE {} :
             /\ result' = [Pending EXCEPT !.error = error]
             /\ UNCHANGED <<op, wire>>
    /\ UNCHANGED <<late, sent, taken, named, granted>>

(* The loop of execute_discovery: no request is sent after the deadline.    *)
Send ==
    /\ wire.state = "composed"
    /\ IF late
       THEN Fails(op, "DeadlineExceeded") /\ UNCHANGED sent
       ELSE /\ wire' = [wire EXCEPT !.state = "sent"]
            /\ sent' = Append(sent, wire.request.http)
            /\ UNCHANGED <<op, result>>
    /\ UNCHANGED <<late, taken, named, granted>>

(* resume with an error of the transport. *)
TransportFails ==
    /\ wire.state = "sent"
    /\ \E error \in TransportErrors : Fails(op, ClassifyTransport(error))
    /\ UNCHANGED <<late, sent, taken, named, granted>>
(* The timer of the exchange fires. *)
TimeOut ==
    /\ wire.state = "sent" /\ late
    /\ Fails(op, "DeadlineExceeded")
    /\ UNCHANGED <<late, sent, taken, named, granted>>

Verdict(r) == Decode(wire.request.decoder, r)
Takes(state, r) ==
    /\ wire.state = "sent" /\ op.state = state
    /\ UNCHANGED <<late, sent, granted>>
(* The answer moved discovery on. *)
Taken(r) ==
    taken' = IF op'.state = "complete" /\ result'.error # "none" THEN taken
             ELSE Append(taken, r.id)

(* resume in AwaitingDiscovery: a peer that does not know the method or the *)
(* revision is asked to initialize.                                         *)
ResumeDiscovery(r) ==
    /\ Takes("awaiting_discovery", r)
    /\ named' = r.result.versions
    /\ CASE Verdict(r) = "ok" -> AsksTools(Negotiated(r.result.versions))
         [] Verdict(r) \in {"UnsupportedProtocolVersion", "MethodNotFound"} ->
              AsksInitialize
         [] OTHER -> Fails(op, ClassifyClient(Verdict(r)))
    /\ Taken(r)

(* resume in AwaitingInitialization *)
ResumeInitialization(r) ==
    /\ Takes("awaiting_initialization", r)
    /\ named' = {r.result.version}
    /\ IF Verdict(r) = "ok" THEN Acknowledges(r.result.version)
       ELSE Fails(op, ClassifyClient(Verdict(r)))
    /\ Taken(r)

(* resume in AwaitingAcknowledgement and in AwaitingTools *)
ResumeAcknowledgement(r) ==
    /\ Takes("awaiting_acknowledgement", r)
    /\ IF Verdict(r) = "ok" THEN AsksTools(op.version)
       ELSE Fails(op, ClassifyClient(Verdict(r)))
    /\ Taken(r)
    /\ UNCHANGED named

ResumeTools(r) ==
    /\ Takes("awaiting_tools", r)
    /\ CASE Verdict(r) # "ok" -> Fails(op, ClassifyClient(Verdict(r)))
         [] Verdict(r) = "ok" /\ SchemaFaults(r.result.tools) ->
              Fails(op, "InvalidToolSchema")
         [] OTHER -> /\ op' = Finish(op)
                     /\ wire' = NoWire
                     /\ result' = [error |-> "none", version |-> op.version,
                                   tools |-> r.result.tools]
    /\ Taken(r)
    /\ UNCHANGED named

Resume ==
    /\ wire.state = "sent"
    /\ \E r \in Answers(wire.request) :
          \/ ResumeDiscovery(r)
          \/ ResumeInitialization(r)
          \/ ResumeAcknowledgement(r)
          \/ ResumeTools(r)

(* The clock, and the administrator of the peer. *)
Pass ==
    /\ ~late
    /\ late' = TRUE
    /\ UNCHANGED <<op, wire, sent, taken, named, result, granted>>
ChangeGrants ==
    /\ PeerIsAdapter /\ result = Pending
    /\ granted' \in SUBSET Names(Registry)
    /\ UNCHANGED <<op, late, wire, sent, taken, named, result>>

Done == result # Pending /\ UNCHANGED vars

Next == Start \/ Send \/ TransportFails \/ TimeOut \/ Resume \/ Pass \/ ChangeGrants \/ Done

Spec == Init /\ [][Next]_vars

-----------------------------------------------------------------------------
TypeOK ==
    /\ op.state \in States
    /\ op.version \in {Absent, Modern, Legacy}
    /\ op.nextId \in 1 .. 4
    /\ wire.state \in {"none", "composed", "sent"}
    /\ (wire.state = "none") <=> op.state \in {"ready", "complete"}
    /\ named \subseteq {Absent, Modern, Legacy, Older}

(* The requests are a prefix of discover and list, or of discover,          *)
(* initialize, initialized and list: a peer that had to be initialized has  *)
(* been told so before it is asked for its tools, and no request is         *)
(* repeated (start, resume and the functions they call).                    *)
HandshakeInOrder ==
    LET methods == [i \in DOMAIN sent |-> sent[i].rpc] IN
    \E path \in {<<"server/discover", "tools/list">>,
                 <<"server/discover", "initialize", "notifications/initialized",
                   "tools/list">>} :
        /\ Len(methods) <= Len(path)
        /\ methods = SubSeq(path, 1, Len(methods))

(* Every answer that moved discovery on carries the identifier of the       *)
(* request it was taken for, and no identifier is used twice: an answer to  *)
(* an earlier request is never taken for a later one (decode, next_id).     *)
OwnAnswers ==
    /\ Len(taken) <= Len(sent)
    /\ \A i \in DOMAIN taken :
          sent[i].kind = "request" => taken[i] = sent[i].id
    /\ \A i, j \in DOMAIN sent :
          i # j /\ sent[i].kind = "request" => sent[i].id # sent[j].id

(* What discovery returns is what a route can be configured with: the most  *)
(* recent revision both sides know, of the ones the peer itself named, and  *)
(* at most MaxTools tools of distinct names whose schemas compile and fit   *)
(* (parse_discovery, parse_tool_list, compile_result).                      *)
ResultUsable ==
    result.error = "none" =>
        /\ result.version \in named
        /\ Modern \in named => result.version = Modern
        /\ Len(result.tools) <= MaxTools
        /\ \A i, j \in DOMAIN result.tools :
              i # j => result.tools[i].name # result.tools[j].name
        /\ \A i \in DOMAIN result.tools :
              /\ result.tools[i].schema = "ok" /\ result.tools[i].name # "blank"
              /\ result.tools[i].bytes <= MaxSchema

(* A discovery that has returned holds no credential, on whichever path it  *)
(* ended (finish).                                                          *)
SecretLetGo == result # Pending => op.secret = Absent

(* Discovery against the adapter of this repository: every answer it may    *)
(* give to the request in flight is understood, or is one of the two it     *)
(* gives for a cause outside the protocol (its policy cannot be read, it    *)
(* has more tools than the limit).  Two exchanges are enough, and the       *)
(* modern revision is agreed on.                                            *)
AdapterUnderstood ==
    PeerIsAdapter =>
        /\ wire.state = "sent" =>
              \A r \in Answers(wire.request) :
                  Verdict(r) \in {"ok", "PeerUnavailable", "ToolListTooLarge"}
        /\ Len(sent) <= 2
        /\ result.error = "none" => result.version = Modern

(* Whatever the peer does, a discovery that was started returns: the        *)
(* deadline is absolute over all its exchanges (execute_discovery).         *)
Begun == op.state # "ready"
Answered == result # Pending
=============================================================================
