------------------------- MODULE DeliveryLifecycle -------------------------
(***************************************************************************)
(* The pure state of one accepted delivery:                                *)
(* crates/egress/bondry-egress/src/delivery.rs.                            *)
(*                                                                         *)
(* A lifecycle is a record with a state and the number of attempts started *)
(* so far.  State::Terminal never appears in a stored lifecycle: the       *)
(* runtime drops the delivery in the handler that makes it terminal.       *)
(***************************************************************************)
EXTENDS Integers

(* State; "waiting" is WaitingRetry, whose deadline the runtime keeps. *)
LifecycleStates == {"ready", "in_flight", "waiting"}

(* drive and start_attempt: does Drive start an attempt?  Otherwise it is   *)
(* a wait for a deadline that has not passed.                               *)
DriveStarts(state, due) == state = "ready" \/ (state = "waiting" /\ due)

(* transition(Retryable): the attempt is retried rather than final. *)
Retries(state, count, retries) == state = "in_flight" /\ count <= retries

(* transition: the outcome of every other event.  An event that does not    *)
(* fit the state is a DeliveryLifecycleError, which the runtime records as  *)
(* an internal failure.                                                     *)
TerminalOutcome(state, event) ==
    CASE event = "cancel" -> "cancelled"
      [] event = "shutdown" -> "lost_on_shutdown"
      [] event = "delivered" /\ state = "in_flight" -> "delivered"
      [] OTHER -> "failed"

-----------------------------------------------------------------------------
(***************************************************************************)
(* What one attempt of a delivery ends with: execute_attempt of            *)
(* crates/engine/bondry-egress-runtime/src/attempt.rs over the webhook and *)
(* MCP kinds (crates/egress/bondry-egress-webhook/src/webhook.rs,          *)
(* crates/egress/bondry-egress-mcp/src/mcp.rs).                            *)
(***************************************************************************)

(* AttemptDisposition; category and bytes are DeliveryResultMetadata. *)
Disposition(kind, failure, category, bytes) ==
    [kind |-> kind, failure |-> failure, category |-> category, bytes |-> bytes]
Delivered(category, bytes) == Disposition("delivered", "none", category, bytes)
Retryable(failure) == Disposition("retryable", failure, "none", 0)
Failed(failure) == Disposition("failed", failure, "none", 0)
FailedWithResult(bytes) == Disposition("failed", "receiver_rejected", "invalid", bytes)

(* completion: a kind that does not permit retries turns them into failures. *)
Completion(permitsRetry, d) ==
    IF d.kind = "retryable" /\ ~permitsRetry THEN Failed(d.failure) ELSE d

(* execute_attempt: a secret that cannot be resolved *)
SecretErrors == {"unavailable", "not_found", "invalid_material"}
ClassifySecret(error) ==
    IF error = "unavailable" THEN Retryable("secret_unavailable")
    ELSE Failed("secret_unavailable")

TransportErrors == {"deadline_exceeded", "connection_failed", "invalid_response",
                    "policy", "tls_failed", "response_too_large",
                    "request_too_large", "invalid_limits", "unsupported_endpoint",
                    "invalid_message"}

(* classify_request_error: an HttpRequest that cannot be built *)
ClassifyRequestError(error) ==
    Failed(IF error \in {"policy", "tls_failed"} THEN "endpoint_policy" ELSE "internal")

(* classify_transport of either kind; it is also what a deadline ends with  *)
(* in execute_attempt.                                                      *)
ClassifyTransport(kind, error) ==
    CASE error = "deadline_exceeded" -> Retryable("deadline_exceeded")
      [] error \in {"connection_failed", "invalid_response"} ->
           Retryable("transport_unavailable")
      [] error \in {"policy", "tls_failed"} -> Failed("endpoint_policy")
      [] error = "response_too_large" ->
           IF kind = "mcp" THEN FailedWithResult(0) ELSE Failed("receiver_rejected")
      [] error \in {"request_too_large", "invalid_limits", "unsupported_endpoint",
                    "invalid_message"} -> Failed("internal")

(* classify_status of a webhook *)
ClassifyStatus(status) ==
    CASE status \in 200 .. 299 -> Delivered("none", 0)
      [] status \in {408, 425, 429} \cup 500 .. 599 -> Retryable("receiver_rejected")
      [] OTHER -> Failed("receiver_rejected")

(* classify_client of an MCP answer that does not decode *)
ClassifyClient(error, bytes) ==
    CASE error \in {"PeerUnavailable", "UnexpectedHttpStatus"} ->
           Retryable("receiver_rejected")
      [] error \in {"UnsupportedResponseMode", "InvalidContentType", "InvalidJson",
                    "InvalidEnvelope", "MismatchedResponseId"} -> FailedWithResult(bytes)
      [] error \in {"UnsupportedProtocolVersion", "MethodNotFound", "RequestRejected",
                    "RemoteFailure", "ToolListTooLarge"} -> Failed("receiver_rejected")

MaxNestingDepth == 32

(* classify_response of an MCP answer that decodes *)
ClassifyToolResult(r, limit) ==
    IF r.bytes > limit \/ r.depth > MaxNestingDepth THEN FailedWithResult(r.bytes)
    ELSE Delivered(IF r.isError = "true" THEN "failed" ELSE "succeeded", r.bytes)
=============================================================================
