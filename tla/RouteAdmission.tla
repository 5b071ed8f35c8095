--------------------------- MODULE RouteAdmission ---------------------------
(***************************************************************************)
(* The route registry and its token buckets                                *)
(* (crates/egress/bondry-egress/src/route.rs): registration, enabling and  *)
(* the admission of an emit or a call.  TokenUnits ticks of the runtime's  *)
(* monotonic clock are one second, and a token is TokenUnits units.        *)
(***************************************************************************)
EXTENDS Naturals, Sequences, FiniteSets

CONSTANTS
    Routes,
    CallRoutes,       \* routes of a kind that supports call
    RegistryLimit,    \* RouteRegistryLimit
    GlobalRate, GlobalCapacity,   \* GlobalAdmissionLimit
    RouteRate, RouteCapacity,     \* RouteAdmissionLimit
    TokenUnits,       \* TOKEN_UNITS
    MaxTime, MaxGrants, MaxRegistrations   \* bounds

VARIABLES
    now,
    global,           \* the process-wide bucket
    entry,            \* the registry: [state, units, last, life]
    granted,          \* tokens taken, in order: [route, life, at]
    registrations,
    result            \* of the last emit, with its route

vars == <<now, global, entry, granted, registrations, result>>

-----------------------------------------------------------------------------
(* TokenBucket *)
NewBucket(capacity) == [units |-> capacity * TokenUnits, last |-> 0]

Least(a, b) == IF a < b THEN a ELSE b

(* Mutated Refill: time that was counted is counted again. *)
RefillAgain(b, rate, capacity) ==
    IF now <= b.last THEN b
    ELSE [b EXCEPT !.units = Least(@ + (now - b.last) * rate, capacity * TokenUnits)]

Refill(b, rate, capacity) ==
    IF now <= b.last THEN b
    ELSE [b EXCEPT !.units = Least(@ + (now - b.last) * rate, capacity * TokenUnits),
                   !.last = now]
HasToken(b) == b.units >= TokenUnits
Take(b) == [b EXCEPT !.units = IF @ >= TokenUnits THEN @ - TokenUnits ELSE 0]

-----------------------------------------------------------------------------
(* RouteEntry; life numbers the registrations of a route. *)
Entry(state, life) == [state |-> state, life |-> life, bucket |-> NewBucket(RouteCapacity)]
Registered == {r \in Routes : entry[r].state # "absent"}

Full == Cardinality(Registered) >= RegistryLimit

Outcome(kind, r) == [kind |-> kind, route |-> r]
NoOutcome == Outcome("none", CHOOSE r \in Routes : TRUE)

TypeOK ==
    /\ now \in 0 .. MaxTime
    /\ global.units \in 0 .. GlobalCapacity * TokenUnits /\ global.last \in 0 .. now
    /\ \A r \in Routes :
          /\ entry[r].state \in {"absent", "enabled", "disabled"}
          /\ entry[r].bucket.units \in 0 .. RouteCapacity * TokenUnits
          /\ entry[r].bucket.last \in 0 .. now
    /\ Cardinality(Registered) <= RegistryLimit

Init ==
    /\ now = 0
    /\ global = NewBucket(GlobalCapacity)
    /\ entry = [r \in Routes |-> Entry("absent", 0)]
    /\ granted = <<>> /\ registrations = 0
    /\ result = NoOutcome

(* register; the route may come disabled, and may ask for payloads its kind *)
(* cannot carry.                                                            *)
Register(r) ==
    /\ registrations < MaxRegistrations
    /\ \E state \in {"enabled", "disabled"}, supported \in BOOLEAN :
          LET error == IF r \in Registered THEN "already_exists"
                       ELSE IF Full THEN "capacity_exhausted"
                       ELSE IF ~supported THEN "payload_limit_unsupported"
                       ELSE "ok"
          IN  /\ entry' = IF error = "ok"
                          THEN [entry EXCEPT ![r] = Entry(state, registrations + 1)]
                          ELSE entry
              /\ registrations' = registrations + (IF error = "ok" THEN 1 ELSE 0)
    /\ result' = NoOutcome
    /\ UNCHANGED <<now, global, granted>>

SetEnabled(r) ==
    /\ r \in Registered      \* NotFound otherwise
    /\ entry' \in {[entry EXCEPT ![r].state = s] : s \in {"enabled", "disabled"}}
    /\ result' = NoOutcome
    /\ UNCHANGED <<now, global, granted, registrations>>

Unregister(r) ==
    /\ entry' = [entry EXCEPT ![r] = Entry("absent", 0)]
    /\ result' = NoOutcome
    /\ UNCHANGED <<now, global, granted, registrations>>

(* admit, up to the buckets; payload is what the contract and the kind say. *)
Rejection(r, mode, payload) ==
    CASE entry[r].state = "absent" -> "route_not_found"
      [] entry[r].state = "disabled" -> "route_disabled"
      [] entry[r].state = "enabled" /\ mode = "call" /\ r \notin CallRoutes ->
           "unsupported_operation"
      [] OTHER -> payload

(* admit_emit: both buckets are refilled, and pay only if both can.  What   *)
(* the runtime refuses afterwards, for capacity or persistence, has paid.   *)
AdmitEmit(r) ==
    \E payload \in {"ok", "rejected"} :
      LET error == Rejection(r, "emit", payload)
          g == Refill(global, GlobalRate, GlobalCapacity)
          b == Refill(entry[r].bucket, RouteRate, RouteCapacity)
          admits == HasToken(g) /\ HasToken(b)
      IN  /\ Len(granted) < MaxGrants
          /\ global' = IF error # "ok" THEN global ELSE IF admits THEN Take(g) ELSE g
          /\ entry' = IF error # "ok" THEN entry
                      ELSE [entry EXCEPT ![r].bucket = IF admits THEN Take(b) ELSE b]
          /\ granted' = IF error = "ok" /\ admits
                        THEN Append(granted, [route |-> r, life |-> entry[r].life, at |-> now])
                        ELSE granted
          /\ result' = Outcome(IF error # "ok" THEN error
                               ELSE IF ~HasToken(g) THEN "global_rate_limited"
                               ELSE IF ~HasToken(b) THEN "route_rate_limited" ELSE "ok", r)
          /\ UNCHANGED <<now, registrations>>

(* admit_call and validate_call_route: a call has a lane of its own and     *)
(* pays nothing.                                                            *)
AdmitCall(r) ==
    /\ \E payload \in {"ok", "rejected"} : Rejection(r, "call", payload) = "ok"
    /\ result' = NoOutcome
    /\ UNCHANGED <<now, global, entry, granted, registrations>>

Tick ==
    /\ now < MaxTime
    /\ now' = now + 1 /\ result' = NoOutcome
    /\ UNCHANGED <<global, entry, granted, registrations>>

Next ==
    \/ \E r \in Routes : \/ Register(r) \/ SetEnabled(r) \/ Unregister(r)
                         \/ AdmitEmit(r) \/ AdmitCall(r)
    \/ Tick
Spec == Init /\ [][Next]_vars

-----------------------------------------------------------------------------
(* Spent(P, i, j): what the grants in P took from the i-th to the j-th.     *)
OfRoute(r) == {i \in 1 .. Len(granted) :
                 granted[i].route = r /\ granted[i].life = entry[r].life}
All == 1 .. Len(granted)
Spent(P, i, j) == Cardinality({k \in P : i <= k /\ k <= j}) * TokenUnits
Exceeds(P, rate, capacity) ==
    \E i, j \in P : /\ i <= j
                    /\ Spent(P, i, j) > capacity * TokenUnits
                                         + rate * (granted[j].at - granted[i].at)

(* In any stretch of time, all routes together, and each route for itself   *)
(* from its registration on, are granted no more than a full bucket and     *)
(* what it gained meanwhile (TokenBucket::refill, take).                    *)
RateKept ==
    /\ ~Exceeds(All, GlobalRate, GlobalCapacity)
    /\ \A r \in Registered : ~Exceeds(OfRoute(r), RouteRate, RouteCapacity)

(* An emit is refused only where granting it would break that promise: no   *)
(* token is lost to rounding, to a refused emit, to another route's limit,  *)
(* or while a route is disabled (admit takes from both buckets or none).    *)
Justified(P, rate, capacity) ==
    \E i \in P : Spent(P, i, Len(granted)) + TokenUnits >
                     capacity * TokenUnits + rate * (now - granted[i].at)
RejectionJustified ==
    /\ result.kind = "global_rate_limited" => Justified(All, GlobalRate, GlobalCapacity)
    /\ result.kind = "route_rate_limited" =>
          Justified(OfRoute(result.route), RouteRate, RouteCapacity)
=============================================================================
