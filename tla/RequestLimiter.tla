--------------------------- MODULE RequestLimiter ---------------------------
(***************************************************************************)
(* AuthenticatedRequestLimiter of the webhook ingress                      *)
(* (crates/proto/bondry-webhook-ingress/src/limiter.rs).  Every route of a *)
(* context shares it, and contexts may.  The caller of prepare passes the  *)
(* instant: requests on several threads may take the lock in another order *)
(* than they read the clock, so instants may arrive out of order, by up to *)
(* MaxSkew; the limiter never lets its own time go back.                   *)
(***************************************************************************)
EXTENDS Integers, Sequences, SequencesExt

CONSTANTS
    Principals,
    Limit,            \* requests_per_minute
    Window,           \* WINDOW_MILLISECONDS, in ticks
    TicksPerSecond,
    MaxSkew,          \* bound: ticks between reading the clock and the lock
    MaxTime, MaxAdmitted  \* bounds

VARIABLES
    now,
    lastSeen,         \* last_monotonic_milliseconds
    requests,         \* the principals' deques
    admitted,         \* every instant a request of the principal was admitted at
    due,              \* when each principal was last told to come back
    decision          \* the last decision, and what its caller had been told

vars == <<now, lastSeen, requests, admitted, due, decision>>

Never == MaxTime + Window + TicksPerSecond

TypeOK ==
    /\ now \in 0 .. MaxTime /\ lastSeen \in 0 .. now
    /\ \A p \in Principals : requests[p] \in Seq(0 .. now)
    /\ due \in [Principals -> 0 .. Never]
    /\ decision \in [limited : BOOLEAN, at : 0 .. now, due : 0 .. Never]

Init ==
    /\ now = 0 /\ lastSeen = 0
    /\ requests = [p \in Principals |-> <<>>]
    /\ admitted = [p \in Principals |-> <<>>]
    /\ due = [p \in Principals |-> Never]
    /\ decision = [limited |-> FALSE, at |-> 0, due |-> Never]

-----------------------------------------------------------------------------
Clamped(at) == IF at > lastSeen THEN at ELSE lastSeen

(* pop_front while the front is at or before the cutoff *)
Recent(deque, at) ==
    LET old == {i \in DOMAIN deque : \A j \in 1 .. i :
                  deque[j] <= (IF at > Window THEN at - Window ELSE 0)}
    IN  SubSeq(deque, Cardinality(old) + 1, Len(deque))

(* retry_after: whole seconds until the oldest leaves, rounded up *)
RetryAfter(deque, at) ==
    LET seconds == (deque[1] + Window - at + TicksPerSecond - 1) \div TicksPerSecond
    IN  IF seconds > 1 THEN seconds ELSE 1

Full(deque) == Len(deque) >= Limit

Admit(p, read) ==
    LET at == Clamped(read)
        recent == Recent(requests[p], at)
    IN  /\ Len(admitted[p]) < MaxAdmitted
        /\ lastSeen' = at
        /\ decision' = [limited |-> Full(recent), at |-> at, due |-> due[p]]
        /\ IF Full(recent)
           THEN /\ requests' = [requests EXCEPT ![p] = recent]
                /\ due' = [due EXCEPT ![p] = at + RetryAfter(recent, at) * TicksPerSecond]
                /\ UNCHANGED admitted
           ELSE /\ requests' = [requests EXCEPT ![p] = Append(recent, at)]
                /\ admitted' = [admitted EXCEPT ![p] = Append(@, now)]
                /\ due' = [due EXCEPT ![p] = Never]
        /\ UNCHANGED now

Tick ==
    /\ now < MaxTime
    /\ now' = now + 1
    /\ UNCHANGED <<lastSeen, requests, admitted, due, decision>>

Reads == {t \in now - MaxSkew .. now : t >= 0}
Next == (\E p \in Principals, read \in Reads : Admit(p, read)) \/ Tick
Spec == Init /\ [][Next]_vars

-----------------------------------------------------------------------------
(* However requests overtake one another between reading the clock and the  *)
(* lock, no principal has more than Limit admissions in Window - MaxSkew    *)
(* ticks of real time, and another principal's request never makes room     *)
(* (limiter.rs admit).  Requests of the limiter's instant 0 are exempt: the *)
(* cutoff saturates at 0, so for the first window they are never counted.   *)
RateKept ==
    \A p \in Principals : \A i \in DOMAIN admitted[p] :
        i > Limit /\ admitted[p][i - Limit] > MaxSkew
            => admitted[p][i] - admitted[p][i - Limit] >= Window - MaxSkew

(* The deques stay sorted, so the loop that stops at the first young        *)
(* request leaves no old one behind it to count against the principal.      *)
OldestInFront ==
    \A p \in Principals : \A i, j \in DOMAIN requests[p] :
        i <= j => requests[p][i] <= requests[p][j]

(* A caller that waits as long as it was told, on its own clock, is let in  *)
(* if nobody else was let in for the principal meanwhile (retry_after).     *)
RetryHonest == decision.limited => decision.at < decision.due
=============================================================================
