--------------------------- MODULE SlidingWindow ----------------------------
(***************************************************************************)
(* The sliding-window limiter of the HTTP server,                          *)
(* crates/engine/bondry-http-server/src/rate_limit.rs.                     *)
(*                                                                         *)
(* The requests of a server run on its one thread, and none is suspended   *)
(* between reading the clock and the decisions made with the instant: each *)
(* decision is made at `now`, and the deques are in order.  Instants       *)
(* before the clock's origin are representable, as they are on the Unix    *)
(* targets of the crate (checked_sub in clean_window never fails).         *)
(***************************************************************************)
EXTENDS Integers, Sequences, FiniteSets

CONSTANTS
    Keys,             \* peers, principals or paths
    Limit,            \* events per window
    Window,           \* WINDOW, in ticks
    TicksPerSecond,
    CleanEvery,       \* 256: operations is a wrapping u8
    MaxTime, MaxCalls \* bounds

VARIABLES
    windows,      \* the HashMap: no entry and an empty deque differ only
                  \* until the next cleaning
    operations,
    calls,        \* operations, without the wrap
    now,
    admitted,     \* events admitted for each key, by the time of decision
    hint,         \* when each key was last told to come back
    last          \* the last decision

vars == <<windows, operations, calls, now, admitted, hint, last>>

Times == 0 .. MaxTime
Never == MaxTime + Window + 2 * TicksPerSecond

(* One type invariant: every deque holds at most Limit instants. *)
TypeOK ==
    /\ DOMAIN windows \subseteq Keys
    /\ \A k \in DOMAIN windows :
          /\ windows[k] \in Seq(Times)
          /\ Len(windows[k]) <= Limit
    /\ operations \in 0 .. CleanEvery - 1
    /\ calls \in 0 .. MaxCalls
    /\ now \in Times
    /\ admitted \in [Keys -> [Times -> Nat]]
    /\ hint \in [Keys -> Int]
    /\ last \in [key : Keys, at : Times, limited : BOOLEAN, due : Int]

Init ==
    /\ windows = <<>>
    /\ operations = 0
    /\ calls = 0
    /\ now = 0
    /\ admitted = [k \in Keys |-> [t \in Times |-> 0]]
    /\ hint = [k \in Keys |-> Never]
    /\ last \in [key : Keys, at : {0}, limited : {FALSE}, due : {Never}]

-----------------------------------------------------------------------------
(* Mutated CleanWindow: an event at the edge of the window is forgotten a   *)
(* tick early.                                                              *)
CleanWindowEarly(w, at) ==
    LET kept == {i \in DOMAIN w : w[i] > at - Window + 1} IN
    IF kept = {} THEN <<>>
    ELSE SubSeq(w, CHOOSE i \in kept : \A j \in kept : i <= j, Len(w))

(* Instants leave from the front, up to the first that is young enough. *)
CleanWindow(w, at) ==
    LET kept == {i \in DOMAIN w : w[i] > at - Window} IN
    IF kept = {} THEN <<>>
    ELSE SubSeq(w, CHOOSE i \in kept : \A j \in kept : i <= j, Len(w))

(* clean_periodically: when the operation counter wraps, every deque is     *)
(* cleaned and the empty ones are dropped.                                  *)
CleanPeriodically(at) ==
    IF (operations + 1) % CleanEvery # 0
    THEN windows
    ELSE LET kept == {k \in DOMAIN windows : CleanWindow(windows[k], at) # <<>>}
         IN [k \in kept |-> CleanWindow(windows[k], at)]

(* retry_decision: whole seconds until the front leaves, at least one. *)
RetryAfter(w, at) ==
    LET elapsed == IF at > w[1] THEN at - w[1] ELSE 0
        left == IF Window > elapsed THEN Window - elapsed ELSE 0
        seconds == left \div TicksPerSecond
    IN IF seconds > 1 THEN seconds ELSE 1

Decide(k, limited) ==
    /\ calls < MaxCalls
    /\ calls' = calls + 1
    /\ operations' = (operations + 1) % CleanEvery
    /\ last' = [key |-> k, at |-> now, limited |-> limited, due |-> hint[k]]

(* Whoever is limited is told to come back: a caller that waits one second  *)
(* more than it is told finds room, if nobody else used the key meanwhile.  *)
Hinted(k, w) ==
    LET back == now + (RetryAfter(w, now) + 1) * TicksPerSecond
    IN hint' = [hint EXCEPT ![k] = IF back < @ THEN back ELSE @]

With(ws, k, w) == [j \in DOMAIN ws \cup {k} |-> IF j = k THEN w ELSE ws[j]]
Of(ws, k) == IF k \in DOMAIN ws THEN ws[k] ELSE <<>>

Check(k) ==
    LET ws == CleanPeriodically(now)
        w == CleanWindow(Of(ws, k), now)
        limited == Len(w) >= Limit
    IN /\ windows' = IF k \in DOMAIN ws THEN With(ws, k, w) ELSE ws
       /\ Decide(k, limited)
       /\ IF limited THEN Hinted(k, w) ELSE UNCHANGED hint
       /\ UNCHANGED <<now, admitted>>

Consume(k) ==
    LET ws == CleanPeriodically(now)
        w == CleanWindow(Of(ws, k), now)
        limited == Len(w) >= Limit
    IN /\ windows' = With(ws, k, IF limited THEN w ELSE Append(w, now))
       /\ Decide(k, limited)
       /\ IF limited
          THEN Hinted(k, w) /\ UNCHANGED admitted
          ELSE /\ hint' = [hint EXCEPT ![k] = Never]
               /\ admitted' = [admitted EXCEPT ![k][now] = @ + 1]
       /\ UNCHANGED now

Tick ==
    /\ now < MaxTime
    /\ now' = now + 1
    /\ UNCHANGED <<windows, operations, calls, admitted, hint, last>>

Next ==
    \/ \E k \in Keys : Check(k) \/ Consume(k)
    \/ Tick

Spec == Init /\ [][Next]_vars

-----------------------------------------------------------------------------
(* Properties *)

RECURSIVE Total(_, _, _)
Total(k, from, to) ==
    IF from > to THEN 0
    ELSE (IF from \in Times THEN admitted[k][from] ELSE 0) + Total(k, from + 1, to)

(* No key has more than Limit admissions in any stretch of Window ticks,    *)
(* wherever the periodic cleaning falls (rate_limit.rs:37-47, 68-85).       *)
WindowBound ==
    \A k \in Keys, t \in Times :
        Total(k, t - Window + 1, t) <= Limit

(* A key is limited only if Limit events really were admitted for it within *)
(* the last Window ticks: neither checks, nor refused events, nor other     *)
(* keys, nor the cleaning count against it (rate_limit.rs:24-47, 68-78).    *)
LimitedForCause ==
    last'.limited => Total(last'.key, last'.at - Window + 1, now) >= Limit

(* The delay a limited caller is told is honest to within a second: once it *)
(* has passed, and nobody used the key, the key is not limited again        *)
(* (rate_limit.rs:87-93).                                                   *)
RetryHonest == last.limited => last.at < last.due

=============================================================================
