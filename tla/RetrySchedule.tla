--------------------------- MODULE RetrySchedule ---------------------------
(***************************************************************************)
(* How long a delivery goes on: the limits a route configuration is held   *)
(* to (crates/egress/bondry-egress/src/limits.rs), the backoff between     *)
(* attempts (delivery.rs), and the retention a receiver's replay           *)
(* protection must have to outlive it.  Times are in milliseconds; the     *)
(* time a due attempt waits for a free lane is not counted.                *)
(***************************************************************************)
EXTENDS DeliveryLifecycle

CONSTANTS
    RetryCounts, Bases, Caps, Timeouts,   \* values a configuration may name
    Jitters                               \* values of stable_jitter

VARIABLES
    conf,
    state,            \* of the lifecycle, "refused" or "terminal"
    attempts,
    elapsed,          \* since the first attempt
    delay, previous   \* the last two delays

vars == <<conf, state, attempts, elapsed, delay, previous>>

MaxRetryAttempts == 16
MinRequestTimeout == 1000
MaxRequestTimeout == 120000
MinRetryBase == 500
MaxRetryBase == 5000
MinRetryCap == 30000
MaxRetryCap == 300000
MinDedupRetention == 86400000
MaxFreshnessTolerance == 900000

(* RetryPolicy::new, RequestTimeout::new *)
Accepted(c) ==
    /\ c.retries <= MaxRetryAttempts
    /\ c.base \in MinRetryBase .. MaxRetryBase
    /\ c.cap \in MinRetryCap .. MaxRetryCap
    /\ c.timeout \in MinRequestTimeout .. MaxRequestTimeout

(* x * m / 10000, rounded down, within 32 bits *)
Scaled(x, m) == (x \div 10000) * m + ((x % 10000) * m) \div 10000
Lower(a, b) == IF a < b THEN a ELSE b

(* retry_delay; stable_jitter is a hash of delivery and attempt. *)
RetryDelay(c, n, jitter) ==
    Lower(Scaled(Lower(c.base * 2 ^ Lower(n - 1, 31), c.cap), 8000 + jitter), c.cap)

TypeOK ==
    /\ state \in LifecycleStates \cup {"refused", "terminal"}
    /\ attempts \in 0 .. MaxRetryAttempts + 1
    /\ {elapsed, delay, previous} \subseteq Nat
    /\ state # "refused" => Accepted(conf)

Init ==
    /\ conf \in [retries : RetryCounts, base : Bases, cap : Caps, timeout : Timeouts]
    /\ state = IF Accepted(conf) THEN "ready" ELSE "refused"
    /\ attempts = 0 /\ elapsed = 0 /\ delay = 0 /\ previous = 0

(* drive, once due *)
Drive ==
    /\ state \in {"ready", "waiting"}
    /\ state' = "in_flight"
    /\ attempts' = attempts + 1
    /\ UNCHANGED <<conf, elapsed, delay, previous>>

(* transition(AttemptRetryable), at once or at the attempt's deadline *)
AttemptRetryable ==
    /\ state = "in_flight"
    /\ \E spent \in {0, conf.timeout}, jitter \in Jitters :
         IF Retries(state, attempts, conf.retries)
         THEN /\ state' = "waiting"
              /\ previous' = delay
              /\ delay' = RetryDelay(conf, attempts, jitter)
              /\ elapsed' = elapsed + spent + delay'
         ELSE /\ state' = "terminal"
              /\ elapsed' = elapsed + spent
              /\ UNCHANGED <<delay, previous>>
    /\ UNCHANGED <<conf, attempts>>

(* transition with any other completion *)
Ends ==
    /\ state = "in_flight"
    /\ state' = "terminal"
    /\ UNCHANGED <<conf, attempts, elapsed, delay, previous>>

Next == Drive \/ AttemptRetryable \/ Ends
Spec == Init /\ [][Next]_vars

-----------------------------------------------------------------------------
(* A receiver that answers at once is never asked again within 400 ms, and  *)
(* asked less and less often: a delay is not shorter than the one before    *)
(* it, unless both are within the jitter of the cap (retry_delay).          *)
BacksOff ==
    state = "waiting" =>
        /\ delay >= 400
        /\ delay >= previous \/ delay * 10 >= conf.cap * 8

(* Whatever a route configures, its last signature has left the tolerance   *)
(* of every verifier before the shortest retention of a replay-protection   *)
(* store ends, counted from the first attempt (limits.rs of bondry-egress   *)
(* and of bondry-delivery-store).                                           *)
LifeWithinRetention ==
    elapsed + 2 * MaxFreshnessTolerance < MinDedupRetention
=============================================================================
