-------------------------- MODULE WebhookDelivery --------------------------
(***************************************************************************)
(* One delivery from the egress runtime of one host to the webhook ingress *)
(* of another, end to end: the sender's lifecycle and HMAC signing         *)
(* (delivery.rs of bondry-egress, attempt.rs of bondry-egress-runtime,     *)
(* webhook.rs of bondry-egress-webhook), a network that loses, delays and  *)
(* repeats, and a non-idempotent route with its persistent                 *)
(* replay-protection record (route.rs of bondry-webhook-ingress).          *)
(*                                                                         *)
(* Time is in seconds of the receiver's clock.  The sender's clock is Skew *)
(* ahead; its deadlines are prompt, its retries start at most Lag late.    *)
(***************************************************************************)
EXTENDS WebhookRoute, DeliveryLifecycle, DedupRecords

CONSTANTS
    Timeout,          \* RequestTimeout of the route
    RetryDelay,       \* retry_delay
    MaxRetries,       \* RetryPolicy::retries
    Tolerance,        \* of the verifier
    Retention,        \* of completed records
    Skew, Lag,
    Rotating,         \* TRUE if the shared secret is rotated once
    MaxFaults, MaxArrivals, MaxTime   \* bounds

(* Lifetime: the time between the first attempt and the last. *)
Lifetime == MaxRetries * (Timeout + RetryDelay + Lag)
Sized ==
    /\ Skew <= Tolerance /\ Timeout - Skew <= Tolerance
    /\ Retention > Lifetime + Skew + Tolerance
    /\ MaxTime >= Lifetime + Timeout

VARIABLES
    now,
    sender,           \* [state, attempts, since, ended]
    rotation,         \* [step, since]
    copies,           \* requests on their way: [n, ts, key]
    answers,          \* statuses on their way: [n, status]
    handling,         \* requests past the claim: [n, stage, result]
    table, expires,   \* the receiver's replay-protection record
    runs, successes,  \* handler runs begun, and ended with Ok
    arrivals, faults

receiver == <<table, expires, runs, successes>>
bounds == <<arrivals, faults>>
vars == <<now, sender, rotation, copies, answers, handling, receiver, bounds>>

Delivery == CHOOSE k \in Keys : TRUE
Conf == [verifier |-> "bondry", semantics |-> "non_idempotent", effect |-> "mutating",
         granted |-> TRUE, readable |-> TRUE, persistent |-> TRUE, envelope |-> FALSE,
         metadata |-> {}, maxHeaders |-> 16, bodyBytes |-> 1024, retainedBytes |-> 4096,
         tolerance |-> Tolerance]

TypeOK ==
    /\ now \in 0 .. MaxTime
    /\ sender.state \in LifecycleStates \cup {"terminal"}
    /\ sender.attempts \in 0 .. MaxRetries + 1
    /\ (sender.state = "terminal") <=> (sender.ended \in {"delivered", "failed"})
    /\ table \in [Keys -> DedupRecord]
    /\ \A h \in handling : h.stage \in {"claimed", "running", "done"}
    /\ answers \subseteq [n : 1 .. MaxRetries + 1, status : 200 .. 599]

Init ==
    /\ now = 0
    /\ sender = [state |-> "ready", attempts |-> 0, since |-> 0, ended |-> "none"]
    /\ rotation = [step |-> 0, since |-> 0]
    /\ copies = {} /\ answers = {} /\ handling = {}
    /\ table = EmptyTable /\ expires = 0
    /\ runs = 0 /\ successes = 0
    /\ arrivals = 0 /\ faults = 0

Faulty == faults < MaxFaults /\ faults' = faults + 1
Sound == UNCHANGED faults

-----------------------------------------------------------------------------
(* The secret: the receiver learns the new value first and accepts both,    *)
(* then the sender switches, and once nothing signed with the old value can *)
(* be waited for any more the overlap ends.                                 *)
SenderKey == IF rotation.step < 2 THEN "k1" ELSE "k2"
ReceiverSecret(ok) ==
    [ok |-> ok, current |-> IF rotation.step = 0 THEN "k1" ELSE "k2",
     previous |-> IF rotation.step \in {1, 2} THEN "k1" ELSE NoKey]

Rotate ==
    /\ Rotating /\ rotation.step < 3
    /\ rotation.step = 2 => now > rotation.since + Timeout
    /\ rotation' = [step |-> rotation.step + 1, since |-> now]
    /\ UNCHANGED <<now, sender, copies, answers, handling, receiver, bounds>>

-----------------------------------------------------------------------------
(* The sender *)

(* compose_request: each attempt is signed anew, at its own time. *)
Signature(ts) ==
    [key |-> SenderKey, over |-> Over("bondry", ts, Delivery, "event")]
RequestOf(c) ==
    [method |-> "POST",
     body |-> [text |-> "event", bytes |-> 100, values |-> 1, counted |-> TRUE, json |-> TRUE],
     h |-> [name \in {"content-type", "delivery-id", "timestamp", "signature"} |->
              <<CASE name = "content-type" -> Value("json")
                  [] name = "delivery-id" -> [Value("id") EXCEPT !.text = Delivery]
                  [] name = "timestamp" -> [Value("number") EXCEPT !.ts = <<c.ts>>]
                  [] name = "signature" -> [Value("hex") EXCEPT !.sigs = <<c.sig>>]>>]]

(* transition, after a completion of the webhook kind for the sender s *)
Concludes(s, disposition) ==
    LET d == Completion(TRUE, disposition)
        again == d.kind = "retryable" /\ Retries(s.state, s.attempts, MaxRetries)
    IN  sender' = IF again THEN [s EXCEPT !.state = "waiting", !.since = now]
                  ELSE [s EXCEPT !.state = "terminal",
                                 !.ended = IF d.kind = "delivered" THEN "delivered"
                                           ELSE "failed"]

(* start_attempt *)
Due ==
    \/ sender.state = "ready"
    \/ sender.state = "waiting" /\ now >= sender.since + RetryDelay
Started == [sender EXCEPT !.state = "in_flight", !.attempts = @ + 1, !.since = now]

StartAttempt ==
    /\ Due
    /\ sender' = Started
    /\ copies' = copies \cup {[n |-> Started.attempts, ts |-> now + Skew,
                               sig |-> Signature(now + Skew)]}
    /\ UNCHANGED <<now, rotation, answers, handling, receiver, bounds>>

(* The attempt ends before anything is sent: no secret to sign with. *)
StartUnsent ==
    /\ Due /\ Faulty
    /\ \E error \in SecretErrors : Concludes(Started, ClassifySecret(error))
    /\ UNCHANGED <<now, rotation, copies, answers, handling, receiver, arrivals>>

Receive ==
    /\ sender.state = "in_flight"
    /\ \E a \in answers : /\ a.n = sender.attempts
                          /\ Concludes(sender, ClassifyStatus(a.status))
    /\ UNCHANGED <<now, rotation, copies, answers, handling, receiver, bounds>>

(* The deadline of the attempt, or a connection that breaks. *)
ExchangeFails ==
    /\ sender.state = "in_flight"
    /\ \/ /\ now >= sender.since + Timeout /\ Sound
          /\ Concludes(sender, ClassifyTransport("webhook", "deadline_exceeded"))
       \/ /\ Faulty
          /\ Concludes(sender, ClassifyTransport("webhook", "connection_failed"))
    /\ UNCHANGED <<now, rotation, copies, answers, handling, receiver, arrivals>>

-----------------------------------------------------------------------------
(* The receiver *)

Answered(n, status) == answers' = answers \cup {[n |-> n, status |-> status]}

(* Mutated Claim: an unknown record is claimed again. *)
ClaimUnknown(n) ==
    LET live == IF now >= expires THEN WithoutKeys(table, Expirable(table)) ELSE table
        state == live[Delivery].state
    IN  /\ table' = IF state \in {"absent", "unknown"}
                    THEN WithClaim(live, Delivery, FALSE) ELSE live
        /\ IF state \in {"absent", "unknown"}
           THEN /\ handling' = handling \cup {[n |-> n, stage |-> "claimed", result |-> "none"]}
                /\ expires' = now + Retention
                /\ UNCHANGED answers
           ELSE /\ Answered(n, IF state = "in_flight" THEN 503 ELSE 204)
                /\ UNCHANGED <<handling, expires>>

(* claim, with the expiry of completed records *)
Claim(n) ==
    LET live == IF now >= expires THEN WithoutKeys(table, Expirable(table)) ELSE table
        state == live[Delivery].state
    IN  /\ table' = IF state = "absent" THEN WithClaim(live, Delivery, FALSE) ELSE live
        /\ IF state = "absent"
           THEN /\ handling' = handling \cup {[n |-> n, stage |-> "claimed", result |-> "none"]}
                /\ expires' = now + Retention
                /\ UNCHANGED answers
           ELSE /\ Answered(n, IF state = "in_flight" THEN 503 ELSE 204)
                /\ UNCHANGED <<handling, expires>>

(* prepare; the copy may come again. *)
Arrive(c) ==
    /\ arrivals < MaxArrivals /\ arrivals' = arrivals + 1
    /\ copies' \in {copies, copies \ {c}}
    /\ \/ /\ Sound
          /\ LET error == Refusal(Conf, RequestOf(c), now, ReceiverSecret(TRUE), FALSE) IN
             IF error = "ok" THEN Claim(c.n)
             ELSE Answered(c.n, Status(error)) /\ UNCHANGED <<handling, table, expires>>
       \/ /\ Faulty      \* limited, no secret, or the store refuses the claim
          /\ \E error \in {Refusal(Conf, RequestOf(c), now, ReceiverSecret(TRUE), TRUE),
                           Refusal(Conf, RequestOf(c), now, ReceiverSecret(FALSE), FALSE),
                           "dedup_store_unavailable"} :
                Answered(c.n, Status(error))
          /\ UNCHANGED <<handling, table, expires>>
    /\ UNCHANGED <<now, sender, rotation, runs, successes>>

Replace(h, stage, result) ==
    handling' = (handling \ {h}) \cup {[h EXCEPT !.stage = stage, !.result = result]}

(* dispatch: rejected before the handler, or the handler begins.  A failure *)
(* to draw an invocation identifier releases the claim and answers 503, as  *)
(* "policy_unavailable" does.                                               *)
Dispatch(h) ==
    /\ h.stage = "claimed"
    /\ \/ \E result \in {"not_found", "not_granted", "policy_unavailable",
                         "invalid_input", "audit"} :
             Replace(h, "done", result) /\ UNCHANGED runs
       \/ Replace(h, "running", "none") /\ runs' = runs + 1
    /\ UNCHANGED <<now, sender, rotation, copies, answers, table, expires, successes, bounds>>

(* the handler returns, and its end is audited *)
Return(h) ==
    /\ h.stage = "running"
    /\ \/ Replace(h, "done", "handler") /\ UNCHANGED successes
       \/ \E result \in {"ok", "audit"} :
             Replace(h, "done", result) /\ successes' = successes + 1
    /\ UNCHANGED <<now, sender, rotation, copies, answers, table, expires, runs, bounds>>

(* complete *)
SettledState(result) ==
    CASE result = "audit" -> "unknown"
      [] result \in {"not_found", "not_granted", "policy_unavailable",
                     "invalid_input"} -> "absent"
      [] result \in {"ok", "handler"} -> "completed"
SettledStatus(result) ==
    CASE result = "ok" -> 204
      [] result \in {"not_found", "not_granted"} -> Status("route_unavailable")
      [] result = "invalid_input" -> Status("invalid_input")
      [] result = "handler" -> Status("capability_failed")
      [] result = "policy_unavailable" -> Status("policy_unavailable")
      [] result = "audit" -> Status("audit_unavailable")

(* Where the guard's write does not go through, its drop tries once more to *)
(* mark the record unknown.                                                 *)
Recorded(state) ==
    table' = IF state = "absent" THEN WithoutKeys(table, {Delivery})
             ELSE IF Settles(table, Delivery) THEN WithState(table, Delivery, state)
             ELSE table
Settle(h) ==
    /\ h.stage = "done"
    /\ handling' = handling \ {h}
    /\ \/ Sound /\ Recorded(SettledState(h.result)) /\ Answered(h.n, SettledStatus(h.result))
       \/ /\ Faulty /\ Answered(h.n, Status("dedup_store_unavailable"))
          /\ Recorded("unknown") \/ UNCHANGED table
    /\ UNCHANGED <<now, sender, rotation, copies, expires, runs, successes, arrivals>>

(* The request is dropped where it stands: DedupGuard::drop. *)
Cancel(h) ==
    /\ Faulty
    /\ handling' = handling \ {h}
    /\ Recorded("unknown") \/ UNCHANGED table
    /\ UNCHANGED <<now, sender, rotation, copies, answers, expires, runs, successes, arrivals>>

(* The receiver's process ends, and recovers its records at the next start. *)
Crash ==
    /\ Faulty
    /\ handling' = {}
    /\ table' = RecoveredClaims(table)
    /\ UNCHANGED <<now, sender, rotation, copies, answers, expires, runs, successes, arrivals>>

-----------------------------------------------------------------------------
Lose ==
    /\ \/ \E c \in copies : copies' = copies \ {c} /\ UNCHANGED answers
       \/ \E a \in answers : answers' = answers \ {a} /\ UNCHANGED copies
    /\ UNCHANGED <<now, sender, rotation, handling, receiver, bounds>>

Tick ==
    /\ now < MaxTime
    /\ sender.state = "in_flight" => now < sender.since + Timeout
    /\ sender.state = "waiting" => now < sender.since + RetryDelay + Lag
    /\ sender.state # "ready"
    /\ now' = now + 1
    /\ UNCHANGED <<sender, rotation, copies, answers, handling, receiver, bounds>>

Next ==
    \/ Rotate \/ StartAttempt \/ StartUnsent \/ Receive \/ ExchangeFails
    \/ \E c \in copies : Arrive(c)
    \/ \E h \in handling : Dispatch(h) \/ Return(h) \/ Settle(h) \/ Cancel(h)
    \/ Crash \/ Lose \/ Tick

Spec == Init /\ [][Next]_vars

-----------------------------------------------------------------------------
(* A delivery to a non-idempotent route runs its capability at most once,   *)
(* however often the sender retries and the network repeats, and whatever   *)
(* fails at the receiver: the record outlives every signature that could    *)
(* reach it.                                                                *)
RunsOnce == runs <= 1

(* A delivery the sender counts as delivered has run, or its record is      *)
(* "unknown" and held for an operator; it is never acknowledged and gone    *)
(* (complete, and the answers to duplicates).                               *)
AcknowledgedOrHeld ==
    sender.ended = "delivered" =>
        runs = 1 \/ table[Delivery].state = "unknown"

(* An answer that ends the delivery as failed, given while its sender still *)
(* waits for it, is given only when no attempt has succeeded: a retry of a  *)
(* delivery that went through is recognised before anything refuses it.     *)
RejectedMeansUndone ==
    \A a \in answers' \ answers :
        /\ sender.state = "in_flight" /\ a.n = sender.attempts
        /\ ClassifyStatus(a.status).kind = "failed"
        => successes = 0

(* While clocks agree to within the tolerance, a request that is still      *)
(* waited for is never refused as unauthentic, through a rotation too.      *)
AuthenticAccepted ==
    \A a \in answers : a.n = sender.attempts /\ sender.state = "in_flight" => a.status # 401

(* Every delivery ends at its sender, whatever the receiver does. *)
Terminal == sender.state = "terminal"
=============================================================================
