----------------------------- MODULE RestAdapter -----------------------------
(***************************************************************************)
(* Requests to the REST adapter, over the dispatcher, while the policy     *)
(* changes.  The adapter keeps no state.  The dispatcher asks the policy   *)
(* for one capability at a time and records audit events around a          *)
(* handler; other requests and changes of the grants come in between, and  *)
(* the audit sink may refuse any record.                                   *)
(*                                                                         *)
(* Paths, bodies and content types are what the adapter distinguishes.     *)
(* Authentication and limits are the HTTP server's.                        *)
(***************************************************************************)
EXTENDS Naturals, Sequences, SequencesExt, FiniteSets

CONSTANTS
    Requests,      \* requests in progress at the same time
    Registry,      \* the registered capabilities, in order
    Unregistered,  \* a capability identifier nobody registered
    MaxChanges     \* bound: changes of the policy

VARIABLES
    granted,    \* capabilities the policy grants the principal
    readable,   \* the policy can be read
    changes,    \* changes of the policy so far
    trail,      \* audit events recorded: pairs of a request and an outcome
    request,    \* what each request asks for
    at,         \* how far each request is
    cursor,     \* where Dispatcher::capabilities is in the registry
    pending,    \* the outcome each request is about to record
    listed,     \* what Dispatcher::capabilities collected for each request
    ran,        \* requests whose handler ran
    response,   \* the response of each request
    ever,       \* capabilities granted at some moment of each request
    always      \* capabilities granted and readable at every moment

vars == <<granted, readable, changes, trail, request, at, cursor, pending, listed,
          ran, response, ever, always>>
policy == <<granted, readable, changes, ever, always>>

Capabilities == ToSet(Registry)
Paths == {"root", "list", "other"} \cup Capabilities \cup {Unregistered, "malformed"}
Asked == [verb : {"GET", "PUT"}, path : Paths, body : {"empty"}]
         \cup [verb : {"POST"}, path : Paths,
               body : {"empty", "untyped", "broken", "object"}]

\* capability_name: the path names one capability, well-formed or not.
CapabilityName(path) == path \notin {"root", "list", "other"}

\* error_response and invocation_error: a response without or with the identifier.
Plain(status, code) == [status |-> status, code |-> code, id |-> FALSE]
Identified(status, code) == [status |-> status, code |-> code, id |-> TRUE]
NoAnswer == Plain(0, "none")

Init ==
    /\ granted \in SUBSET Capabilities
    /\ readable = TRUE
    /\ changes = 0
    /\ trail = {}
    /\ request \in [Requests -> {[verb |-> "GET", path |-> "root", body |-> "empty"]}]
    /\ at = [r \in Requests |-> "idle"]
    /\ cursor = [r \in Requests |-> 1]
    /\ pending = [r \in Requests |-> "none"]
    /\ listed = [r \in Requests |-> {}]
    /\ ran = {}
    /\ response = [r \in Requests |-> NoAnswer]
    /\ ever = [r \in Requests |-> {}]
    /\ always = [r \in Requests |-> {}]

Goto(r, place) == at' = [at EXCEPT ![r] = place]

Respond(r, answer) ==
    /\ Goto(r, "answered")
    /\ response' = [response EXCEPT ![r] = answer]

\* AuthorizationPolicy::evaluate, asked now.
Evaluate(c) ==
    IF ~readable THEN "policy_unavailable"
    ELSE IF c \in granted THEN "allow" ELSE "not_granted"

\* A client or grant is changed, or the store stops or starts to answer.
PolicyChanges ==
    /\ changes < MaxChanges
    /\ changes' = changes + 1
    /\ \/ \E c \in Capabilities :
             /\ granted' = IF c \in granted THEN granted \ {c} ELSE granted \cup {c}
             /\ UNCHANGED readable
       \/ readable' = ~readable /\ UNCHANGED granted
    /\ ever' = [r \in Requests |-> ever[r] \cup granted']
    /\ always' = [r \in Requests |-> IF readable' THEN always[r] \cap granted' ELSE {}]
    /\ UNCHANGED <<trail, request, at, cursor, pending, listed, ran, response>>

-----------------------------------------------------------------------------

\* The head of get_capability and of invoke_capability: the name, then the body.
Rejected(q) ==
    CASE q.path = "malformed" -> Plain(404, "not_found")
      [] q.body = "untyped" -> Plain(415, "unsupported_media_type")
      [] q.body = "broken" -> Plain(400, "invalid_json")
      [] OTHER -> NoAnswer

\* route, for the requests that are answered at once; the others go on to the
\* capabilities or to the dispatch.
Direct(q) ==
    CASE q.verb = "GET" /\ q.path = "root" -> Plain(200, "root")
      [] q.verb # "GET" /\ q.path \in {"root", "list"} -> Plain(405, "method_not_allowed")
      [] q.verb = "PUT" /\ CapabilityName(q.path) -> Plain(405, "method_not_allowed")
      [] q.path = "other" -> Plain(404, "not_found")
      [] OTHER -> Rejected(q)

Route(r, q) ==
    /\ at[r] = "idle"
    /\ request' = [request EXCEPT ![r] = q]
    /\ IF Direct(q) # NoAnswer THEN Respond(r, Direct(q))
       ELSE /\ Goto(r, IF q.verb = "GET" THEN "collect" ELSE "identify")
            /\ UNCHANGED response
    /\ ever' = [ever EXCEPT ![r] = granted]
    /\ always' = [always EXCEPT ![r] = IF readable THEN granted ELSE {}]
    /\ UNCHANGED <<granted, readable, changes, trail, cursor, pending, listed, ran>>

\* Dispatcher::capabilities, one descriptor.
Collect(r) ==
    /\ at[r] = "collect"
    /\ cursor[r] <= Len(Registry)
    /\ LET c == Registry[cursor[r]]
           decision == Evaluate(c)
       IN  IF decision = "policy_unavailable"
           THEN /\ Respond(r, Plain(503, "policy_unavailable"))
                /\ UNCHANGED <<cursor, listed>>
           ELSE /\ cursor' = [cursor EXCEPT ![r] = @ + 1]
                /\ listed' = IF decision = "allow"
                             THEN [listed EXCEPT ![r] = @ \cup {c}] ELSE listed
                /\ UNCHANGED <<at, response>>
    /\ UNCHANGED <<policy, trail, request, pending, ran>>

\* list_capabilities and get_capability, with the list.
Collected(r) ==
    /\ at[r] = "collect"
    /\ cursor[r] > Len(Registry)
    /\ LET path == request[r].path
       IN  Respond(r, IF path = "list" THEN Plain(200, "capabilities")
                      ELSE IF path \in listed[r] THEN Plain(200, "capability")
                      ELSE Plain(404, "not_found"))
    /\ UNCHANGED <<policy, trail, request, cursor, pending, listed, ran>>

\* invoke_capability, the identifier of the invocation.
Identify(r) ==
    /\ at[r] = "identify"
    /\ \/ Goto(r, "dispatch") /\ UNCHANGED response
       \/ Respond(r, Plain(503, "identifier_generation_unavailable"))
    /\ UNCHANGED <<policy, trail, request, cursor, pending, listed, ran>>

\* Dispatcher::dispatch up to its first record: resolve, authorize, validate.
FirstOutcomes(c) ==
    IF c \notin Capabilities THEN {"capability_not_found"}
    ELSE IF Evaluate(c) # "allow" THEN {Evaluate(c)}
    ELSE {"invalid_input", "started"}

Dispatch(r) ==
    /\ at[r] = "dispatch"
    /\ \E o \in FirstOutcomes(request[r].path) : pending' = [pending EXCEPT ![r] = o]
    /\ Goto(r, "record")
    /\ UNCHANGED <<policy, trail, request, cursor, listed, ran, response>>

\* invoke_capability, the answer to a dispatch.
InvocationResponse(outcome) ==
    CASE outcome = "succeeded" -> Identified(200, "result")
      [] outcome \in {"capability_not_found", "not_granted"} ->
            Identified(404, "not_found")
      [] outcome = "invalid_input" -> Identified(422, "invalid_input")
      [] outcome = "handler_failed" -> Identified(422, "capability_failed")
      [] outcome = "policy_unavailable" -> Identified(503, "policy_unavailable")

\* Mutant: a handler is run although its start could not be recorded.
RecordUnheeded(r) ==
    /\ at[r] = "record"
    /\ trail' \in {trail, trail \cup {<<r, pending[r]>>}}
    /\ IF pending[r] = "started" THEN Goto(r, "handler") /\ UNCHANGED response
       ELSE Respond(r, IF trail' = trail THEN Identified(503, "audit_unavailable")
                       ELSE InvocationResponse(pending[r]))
    /\ UNCHANGED <<policy, request, cursor, pending, listed, ran>>

\* AuditSink::record: without the record the dispatch ends here.
Record(r) ==
    /\ at[r] = "record"
    /\ \/ /\ trail' = trail \cup {<<r, pending[r]>>}
          /\ IF pending[r] = "started" THEN Goto(r, "handler") /\ UNCHANGED response
             ELSE Respond(r, InvocationResponse(pending[r]))
       \/ /\ Respond(r, Identified(503, "audit_unavailable"))
          /\ UNCHANGED trail
    /\ UNCHANGED <<policy, request, cursor, pending, listed, ran>>

\* The handler runs to its end.
Handler(r) ==
    /\ at[r] = "handler"
    /\ ran' = ran \cup {r}
    /\ \E o \in {"succeeded", "handler_failed"} : pending' = [pending EXCEPT ![r] = o]
    /\ Goto(r, "record")
    /\ UNCHANGED <<policy, trail, request, cursor, listed, response>>

Next ==
    \/ PolicyChanges
    \/ \E r \in Requests :
          \/ \E q \in Asked : Route(r, q)
          \/ Collect(r) \/ Collected(r)
          \/ Identify(r) \/ Dispatch(r) \/ Record(r) \/ Handler(r)

Spec == Init /\ [][Next]_vars

-----------------------------------------------------------------------------
(***************************************************************************)
(* Properties.                                                             *)
(***************************************************************************)

\* The answers of the routes and the error table of docs/rest.md.
Answers ==
    {<<200, "root">>, <<200, "capabilities">>, <<200, "capability">>, <<200, "result">>,
     <<400, "invalid_json">>, <<404, "not_found">>, <<405, "method_not_allowed">>,
     <<415, "unsupported_media_type">>, <<422, "invalid_input">>,
     <<422, "capability_failed">>, <<503, "policy_unavailable">>,
     <<503, "audit_unavailable">>, <<503, "identifier_generation_unavailable">>}

Answered == {r \in Requests : at[r] = "answered"}

\* The state has its type, and every response is one of the documented ones.
TypeOK ==
    /\ granted \subseteq Capabilities /\ readable \in BOOLEAN
    /\ changes \in 0..MaxChanges
    /\ request \in [Requests -> Asked]
    /\ at \in [Requests -> {"idle", "collect", "identify", "dispatch", "record",
                            "handler", "answered"}]
    /\ cursor \in [Requests -> 1..Len(Registry) + 1]
    /\ listed \in [Requests -> SUBSET Capabilities]
    /\ ran \subseteq Requests
    /\ \A r \in Answered : <<response[r].status, response[r].code>> \in Answers

\* docs/rest.md: "The invocation identifier also appears in errors produced after
\* dispatch begins so hosts can correlate responses with audit records."  A
\* response with the identifier agrees with the last record made under it, or
\* says that the record failed; without it there is no record.
Correlated ==
    \A r \in Answered :
        LET code == response[r].code
            outcomes == {o[2] : o \in {p \in trail : p[1] = r}}
        IN  IF ~response[r].id THEN outcomes = {}
            ELSE \/ code = "audit_unavailable"
                 \/ code = "result" /\ outcomes = {"started", "succeeded"}
                 \/ code = "capability_failed" /\ outcomes = {"started", "handler_failed"}
                 \/ code = "not_found" /\ outcomes \in {{"capability_not_found"}, {"not_granted"}}
                 \/ code \in {"invalid_input", "policy_unavailable"} /\ outcomes = {code}

\* A handler runs only when its start is recorded, for a capability granted at
\* some moment of the request, and only then is the caller told a result, a
\* failure of the capability or, the end unrecorded, that the audit failed.
RunsAreTold ==
    \A r \in ran :
        /\ <<r, "started">> \in trail
        /\ request[r].path \in ever[r]
        /\ r \in Answered =>
              response[r].code \in {"result", "capability_failed", "audit_unavailable"}

\* A list, gathered while grants change, holds what was granted throughout and
\* nothing that was granted at no moment; so does the answer for one capability.
ListSound ==
    \A r \in Answered :
        /\ response[r].code = "capabilities" =>
              always[r] \subseteq listed[r] /\ listed[r] \subseteq ever[r]
        /\ response[r].code = "capability" => request[r].path \in ever[r]
        /\ response[r] = Plain(404, "not_found") => request[r].path \notin always[r]

=============================================================================
