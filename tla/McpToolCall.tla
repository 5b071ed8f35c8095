---------------------------- MODULE McpToolCall ----------------------------
(***************************************************************************)
(* One delivery of the egress MCP kind, from admission to its end, against *)
(* the MCP adapter of this repository: the runtime's lifecycle drives      *)
(* attempts, each attempt is one HTTP exchange, and the tool runs at the   *)
(* other end whatever becomes of the exchange.                             *)
(*                                                                         *)
(* Sources: attempt.rs and complete_call of bondry-egress-runtime, mcp.rs  *)
(* of bondry-egress-mcp, delivery.rs of bondry-egress.                     *)
(***************************************************************************)
EXTENDS McpAdapter, DeliveryLifecycle

CONSTANTS
    Route,          \* [automatic: with_automatic_retry, retries, limit, bearer]
    Mode,           \* "emit" or "call"
    Version, ToolName,
    Services,       \* the states the peer's service may be in
    Sizes           \* [bytes, depth] of the results a handler may return

VARIABLES
    svc,            \* the peer's service
    state,          \* the lifecycle, or "terminal"
    attempts,
    requests,       \* attempts whose request travels, or whose peer works on it
    answers,        \* answers that travel, by attempt
    runs,           \* the runs of the tool: [attempt, ok, bytes]
    ended,          \* the disposition of the delivery's end
    returned        \* what the caller of call() got: bytes, or -1

vars == <<svc, state, attempts, requests, answers, runs, ended, returned>>

NoEnd == Failed("none")
NothingReturned == -1
Request == CallToolRequest(1, Version, ToolName)

TypeOK ==
    /\ svc \in Services
    /\ state \in LifecycleStates \cup {"terminal"}
    /\ requests \subseteq 1 .. attempts /\ DOMAIN answers \subseteq 1 .. attempts
    /\ requests \cap DOMAIN answers = {}
    /\ (state = "terminal") <=> (ended # NoEnd)
    /\ ended.kind \in {"delivered", "failed"}

Init ==
    /\ svc \in Services
    /\ state = "ready" /\ attempts = 0
    /\ requests = {} /\ answers = <<>>
    /\ runs = {}
    /\ ended = NoEnd /\ returned = NothingReturned

-----------------------------------------------------------------------------
(* RetryPolicy::without_retries for a call *)
RetryLimit == IF Mode = "call" THEN 0 ELSE Route.retries

Ends(d, bytes) ==
    /\ state' = "terminal"
    /\ ended' = d
    /\ returned' = IF Mode = "call" /\ d.kind = "delivered" THEN bytes ELSE returned

(* execute_attempt's completion of the n-th attempt, then                   *)
(* transition(Retryable) or a terminal event.                               *)
Concludes(n, disposition, bytes) ==
    LET d == Completion(Route.automatic, disposition) IN
    IF d.kind = "retryable" /\ Retries("in_flight", n, RetryLimit)
    THEN state' = "waiting" /\ UNCHANGED <<ended, returned>>
    ELSE Ends(IF d.kind = "retryable" THEN Failed(d.failure) ELSE d, bytes)

(* Drive: an attempt starts, and its operation sends the request. *)
StartAttempt ==
    /\ state \in {"ready", "waiting"}
    /\ state' = "in_flight"
    /\ attempts' = attempts + 1
    /\ requests' = requests \cup {attempts + 1}
    /\ UNCHANGED <<svc, answers, runs, ended, returned>>

(* The attempt ends before anything is sent: the bearer secret does not     *)
(* resolve, or the request cannot be built.                                 *)
Unsent == (IF Route.bearer THEN {ClassifySecret(error) : error \in SecretErrors} ELSE {})
          \cup {ClassifyRequestError(error) : error \in TransportErrors}
StartUnsent ==
    /\ state \in {"ready", "waiting"}
    /\ attempts' = attempts + 1
    /\ \E d \in Unsent : Concludes(attempts + 1, d, 0)
    /\ UNCHANGED <<svc, requests, answers, runs>>

(* The peer takes a request, also one its sender has given up. *)
Serve(n) ==
    /\ n \in requests
    /\ requests' = requests \ {n}
    /\ \E o \in DispatchOutcomes(svc, ToolName), size \in Sizes :
          LET full == Handle(Request.http, svc, o.result, size.bytes) IN
          /\ runs' = IF o.ran THEN runs \cup {[attempt |-> n, ok |-> o.result = "ok",
                                               bytes |-> size.bytes]}
                     ELSE runs
          /\ answers' = [m \in DOMAIN answers \cup {n} |->
                           IF m = n THEN [full EXCEPT !.result.depth = size.depth]
                           ELSE answers[m]]
    /\ UNCHANGED <<svc, state, attempts, ended, returned>>

(* resume with a response: only the exchange of the attempt in flight is    *)
(* waited for.                                                              *)
Receive ==
    /\ state = "in_flight" /\ attempts \in DOMAIN answers
    /\ LET answer == answers[attempts]
           verdict == Decode(Request.decoder, answer)
       IN  Concludes(attempts,
                     IF verdict = "ok" THEN ClassifyToolResult(answer.result, Route.limit)
                     ELSE ClassifyClient(verdict, answer.result.bytes),
                     answer.result.bytes)
    /\ UNCHANGED <<svc, attempts, requests, answers, runs>>

(* resume with a transport error, or the deadline of the attempt: the       *)
(* request may never arrive, or still be on its way.                        *)
ExchangeFails(error) ==
    /\ state = "in_flight"
    /\ Concludes(attempts, ClassifyTransport("mcp", error), 0)
    /\ requests' \in {requests, requests \ {attempts}}
    /\ UNCHANGED <<svc, attempts, answers, runs>>

(* The peer's grants and policy store change. *)
ServiceChanges ==
    /\ svc' \in Services
    /\ UNCHANGED <<state, attempts, requests, answers, runs, ended, returned>>

Next ==
    \/ StartAttempt
    \/ StartUnsent
    \/ \E n \in requests : Serve(n)
    \/ Receive
    \/ \E error \in TransportErrors : ExchangeFails(error)
    \/ ServiceChanges

Spec == Init /\ [][Next]_vars

-----------------------------------------------------------------------------
(* A tool runs at most once for each attempt, and without the explicit      *)
(* with_automatic_retry, or for a call, at most once in all: whatever an    *)
(* exchange ends with, it is not tried again (completion, permits_retry).   *)
NoSilentRepeat ==
    /\ \A r, s \in runs : r.attempt = s.attempt => r = s
    /\ (~Route.automatic \/ Mode = "call") => \A r, s \in runs : r = s
    /\ attempts <= RetryLimit + 1

(* A delivery is recorded as delivered only if the peer answered this       *)
(* attempt with what a handler produced: a success only after a run that    *)
(* succeeded, a failure only after one that failed or an input the          *)
(* capability refused (classify_response).                                  *)
DeliveredMeansRan ==
    ended.kind = "delivered" =>
        /\ ended.category = "succeeded" =>
              \E r \in runs : r.attempt = attempts /\ r.ok /\ r.bytes = ended.bytes
        /\ ended.category = "failed" => \A r \in runs : r.attempt = attempts => ~r.ok

(* A result reaches the host only through call(), only whole, and only      *)
(* within the route's bound on its size and depth; the bytes recorded for   *)
(* it are its own (CompleteWithResult, complete_call).                      *)
ResultsBounded ==
    /\ returned # NothingReturned =>
          Mode = "call" /\ ended.kind = "delivered" /\ returned = ended.bytes
    /\ ended.kind = "delivered" =>
          /\ ended.bytes <= Route.limit
          /\ answers[attempts].result.depth <= MaxNestingDepth
    /\ Mode = "call" /\ ended.kind = "delivered" => returned # NothingReturned

(* Every delivery ends, whatever the peer and the network do, because the   *)
(* deadline ends every attempt and attempts are bounded.                    *)
Terminal == state = "terminal"
=============================================================================
