--------------------------- MODULE MCMcpAdapter ---------------------------
(***************************************************************************)
(* McpAdapter over every request that differs from one of our own client's *)
(* in at most two places, and every state of the service.  One step        *)
(* answers the request.                                                    *)
(***************************************************************************)
EXTENDS McpAdapter

VARIABLES request, svc, outcome, answer

vars == <<request, svc, outcome, answer>>

Tool(name) == [name |-> name, schema |-> "ok", bytes |-> 1]
MCRegistry == <<Tool("a"), Tool("b")>>
ToolNames == {"a", "b", "invalid_id", "c"}
Services == [registry : {MCRegistry}, granted : SUBSET {"a", "b"}, readable : BOOLEAN]
Results == {"ok", "failed", "invalid_input", "audit", "not_found", "not_granted",
            "policy_unavailable"}

ClientRequests ==
    {DiscoverRequest(1).http, InitializeRequest(2).http,
     InitializedRequest(Legacy).http} \cup
    {ListToolsRequest(3, v, 2).http : v \in {Modern, Legacy}} \cup
    {CallToolRequest(4, v, n).http : v \in {Modern, Legacy}, n \in ToolNames}

(* One place changed. *)
Changed(q) ==
    {q} \cup {[q EXCEPT !.verb = "GET"], [q EXCEPT !.params.cursor = TRUE],
              [q EXCEPT !.params.metaOk = FALSE], [q EXCEPT !.params.initOk = FALSE]}
    \cup {[q EXCEPT !.type = t] : t \in {"other", "many"}}
    \cup {[q EXCEPT !.accept = {t}] : t \in {"json", "event_stream"}}
    \cup {[q EXCEPT !.version = v] : v \in {Absent, "many", Modern, Legacy, Older}}
    \cup {[q EXCEPT !.method = m] : m \in {Absent, "many", "tools/list", "tools/call"}}
    \cup {[q EXCEPT !.rpc = m] : m \in {"ping", "initialize", "server/discover",
                                        "tools/list", "tools/call", "other"}}
    \cup {[q EXCEPT !.name = n] : n \in {<<>>, <<"many", "a">>, <<"malformed", "a">>,
                                         <<"plain", "a">>, <<"base64", "b">>}}
    \cup {[q EXCEPT !.kind = k] : k \in {"not_json", "invalid", "response"}}
    \cup {[q EXCEPT !.params.meta = v] : v \in {Absent, "unversioned", Legacy}}
    \cup {[q EXCEPT !.params.args = a] : a \in {Absent, "other"}}
    \cup {[q EXCEPT !.params.name = n] : n \in {Absent, "a"}}
    \cup (IF q.kind = "request" THEN {[q EXCEPT !.params.shape = s] :
                                        s \in {"none", "object", "other"}} ELSE {})
Requests == UNION {Changed(p) : p \in UNION {Changed(q) : q \in ClientRequests}}
(* Members are only in an object. *)
WellFormed(q) ==
    /\ q.params.shape # "object" => q.params = [NoParams EXCEPT !.shape = q.params.shape]
    /\ q.params.meta = Absent => ~q.params.metaOk

Init ==
    /\ request \in {q \in Requests : WellFormed(q)}
    /\ svc \in Services
    /\ outcome = Outcome("none", FALSE)
    /\ answer = Accepted

Unanswered == outcome.result = "none"

(* One request: dispatched when it reaches the dispatcher. *)
Answers ==
    /\ Unanswered
    /\ outcome' \in IF Dispatches(request)
                    THEN DispatchOutcomes(svc, request.params.name)
                    ELSE {Outcome("not_dispatched", FALSE)}
    /\ answer' = Handle(request, svc, outcome'.result, 1)
    /\ UNCHANGED <<request, svc>>

Done == ~Unanswered /\ UNCHANGED vars

Next == Answers \/ Done
Spec == Init /\ [][Next]_vars

-----------------------------------------------------------------------------
(* An answer is a well-formed message, with an error code only in an error  *)
(* (rpc_result, rpc_error).                                                 *)
TypeOK ==
    /\ answer.kind \in AnswerKinds
    /\ answer.status \in {200, 202, 400, 404, 405, 406, 415}
    /\ (answer.kind = "error") <=> (answer.code # 0)
    /\ outcome.result \in Results \cup {"none", "not_dispatched"}

(* docs/mcp.md: "Duplicated, missing, malformed, or mismatched routing      *)
(* headers fail before dispatch."  A modern call that was dispatched named  *)
(* one method, one tool and one revision, the same in headers and body.     *)
RoutedOnce ==
    outcome.result \in Results /\ request.version = Modern =>
        /\ request.method = "tools/call" /\ request.rpc = "tools/call"
        /\ Len(request.name) = 2 /\ request.name[1] \in {"plain", "base64"}
        /\ request.name[2] = request.params.name
        /\ request.params.meta = Modern

(* A handler runs only for a tool that is registered and granted under a    *)
(* policy that could be read, and an answer says whether it succeeded or    *)
(* failed only if it ran or refused the input (call_tool, dispatch).        *)
RunsOnlyGranted ==
    /\ outcome.ran => /\ svc.readable
                      /\ request.params.name \in svc.granted \cap Registered(svc)
    /\ answer.kind = "result" /\ "content" \in answer.result.has =>
          outcome.ran \/ outcome.result = "invalid_input"

(* docs/mcp.md: "Missing and unauthorized tools both return Unknown tool."  *)
(* A principal without a grant cannot tell a tool that exists from one that *)
(* does not: the same request is answered alike by the service that never   *)
(* registered it.                                                           *)
AbsentAndUngrantedAlike ==
    svc.readable /\ request.params.name \notin svc.granted /\ ~Unanswered =>
        LET without == [svc EXCEPT !.registry =
                            SelectSeq(@, LAMBDA t : t.name \in svc.granted)]
            result == IF outcome.result = "not_granted" THEN "not_found"
                      ELSE outcome.result
        IN  answer = Handle(request, without, result, 1)

(* Every request of our own client is answered in a form its own decoder    *)
(* accepts, unless the service refused it: the peer's identifier, content   *)
(* type, revision and completeness are the ones decode asks for.            *)
UnderstoodByClient ==
    ~Unanswered =>
      \A built \in {DiscoverRequest(1), InitializeRequest(2), InitializedRequest(Legacy)}
                   \cup {ListToolsRequest(3, v, 2) : v \in {Modern, Legacy}}
                   \cup {CallToolRequest(4, v, n) : v \in {Modern, Legacy}, n \in ToolNames} :
          built.http = request =>
              LET verdict == Decode(built.decoder, answer) IN
              \/ verdict = "ok"
              \/ verdict = "RequestRejected" /\ answer.text = "Unknown tool"
              \/ verdict = "PeerUnavailable" /\ answer.text = "Internal error"
=============================================================================
