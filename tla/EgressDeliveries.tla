-------------------------- MODULE EgressDeliveries --------------------------
(***************************************************************************)
(* What the engine of crates/engine/bondry-egress-runtime/src/runtime.rs   *)
(* does to its deliveries: the two lanes that hold them, the counters they *)
(* are charged to, their tasks, their records in the log and what their    *)
(* hosts are told.  One operator is the part of a handler that concerns    *)
(* deliveries.  EgressRuntime composes them with routes, queues, drains,   *)
(* deadlines and the loop of run(), which decide when each one happens.    *)
(*                                                                         *)
(* DeliveriesSpec lets them happen in any order their own conditions       *)
(* allow.  EgressRuntime implements it, so what holds of every behaviour   *)
(* of DeliveriesSpec holds of the engine.                                  *)
(***************************************************************************)
EXTENDS DeliveryRecords, DeliveryLifecycle, FiniteSets

CONSTANTS
    Routes,           \* route identifiers
    Size,             \* payload bytes of each delivery
    MaxRetries,       \* RetryPolicy::retries of the routes
    GlobalPending, RoutePending,       \* EgressRuntimeLimits
    GlobalBytes, RouteBytes,
    GlobalInFlight, CallInFlight,
    Persistent,       \* durability() = Persistent
    Forgetful,        \* the log reclaims terminal records
    LogFaults,        \* ways in which a write may fail, see PersistTerminal
    MaxAdmissions     \* bound: admissions of one identifier

ASSUME DeliveriesFinite == IsFiniteSet(Deliveries)
ASSUME SizeAssumption == Size \in [Deliveries -> Nat]
ASSUME LimitsAssumption ==
    /\ {MaxRetries, GlobalBytes, RouteBytes, MaxAdmissions} \subseteq Nat
    /\ {GlobalPending, RoutePending, GlobalInFlight, CallInFlight} \subseteq Nat \ {0}
ASSUME LogAssumption ==
    /\ Persistent \in BOOLEAN
    /\ Forgetful \in BOOLEAN
    /\ LogFaults \subseteq {"refused", "ambiguous"}

VARIABLES
    active,           \* emitted deliveries the engine holds
    active_calls,     \* calls the engine holds
    usage,            \* RouteUsage of each route; no entry is NoUsage
    global,           \* global_pending, _bytes, _in_flight, call_in_flight
    attempts,         \* JoinSet of attempts: state of each task
    calls,            \* JoinSet of calls
    overrides,        \* process-local terminal records
    persistence_degraded,
    log,              \* the delivery log
    phase,            \* where the loop of run() is
    admissions,       \* number of admissions of each identifier
    accepted,         \* deliveries accepted and not reclaimed by the log since
    sent,             \* attempts handed to the transport for the last intent
    answers           \* what each call's host was answered

lanes == <<active, active_calls, usage, global>>
tasks == <<attempts, calls>>
records == <<log, overrides, persistence_degraded>>
history == <<admissions, accepted, sent, answers>>
deliveries == <<lanes, tasks, records, history>>

-----------------------------------------------------------------------------
(* State *)

(* ActiveDelivery and ActiveCall.  abort is abort.is_some(); due says that  *)
(* the retry deadline has passed; inc tells apart two admissions of one     *)
(* identifier, whose deadlines differ.                                      *)
NoDelivery == [state |-> "none"]
Held == [route : Routes, state : LifecycleStates, attempts : Nat,
         abort : BOOLEAN, due : BOOLEAN, inc : Nat]

Active == {d \in Deliveries : active[d] # NoDelivery}
ActiveCalls == {d \in Deliveries : active_calls[d] # NoDelivery}
InFlight == {d \in Active : active[d].abort}
CallsInFlight == {d \in ActiveCalls : active_calls[d].abort}

OnRoute(held, r) == held # NoDelivery /\ held.route = r

ActiveOn(r) == {d \in Active : active[d].route = r}
InFlightOn(r) == {d \in InFlight : active[d].route = r}
CallsOn(r) == {d \in ActiveCalls : active_calls[d].route = r}

(* RouteUsage *)
Usage == [pending : Nat, bytes : Nat, in_flight : Nat, calls : Nat]
NoUsage == [pending |-> 0, bytes |-> 0, in_flight |-> 0, calls |-> 0]

(* Mutated IsIdle: forgets the call lane. *)
IsIdleButForCalls(u) == u.pending = 0 /\ u.in_flight = 0

(* RouteUsage::is_idle *)
IsIdle(u) == u.pending = 0 /\ u.in_flight = 0 /\ u.calls = 0

(* A task of a JoinSet.  "empty" is a delivered call without a JSON result. *)
Finished == {"delivered", "empty", "retryable", "failed", "panicked"}
Tasks == {"none", "running", "cancelled"} \cup Finished
Joinable(task) == task \notin {"none", "running"}

Phases == {"dispatch", "select", "sweep", "stopped", "down"}
Answers == {"none", "waiting", "ok", "failed", "stopped"}

(* delivery_status *)
Status(d) == IF overrides[d] # Absent THEN overrides[d] ELSE log[d]

(* Types of what the engine keeps of its deliveries                         *)
(* (runtime.rs:364-386, 1468-1496) and of what host and log have seen.      *)
DeliveriesOK ==
    /\ active \in [Deliveries -> Held \cup {NoDelivery}]
    /\ active_calls \in [Deliveries -> Held \cup {NoDelivery}]
    /\ usage \in [Routes -> Usage]
    /\ global \in Usage
    /\ attempts \in [Deliveries -> Tasks]
    /\ calls \in [Deliveries -> Tasks]
    /\ overrides \in [Deliveries -> Records]
    /\ persistence_degraded \in BOOLEAN
    /\ log \in [Deliveries -> Records]
    /\ phase \in Phases
    /\ admissions \in [Deliveries -> Nat]
    /\ accepted \subseteq Deliveries
    /\ sent \in [Deliveries -> Nat]
    /\ answers \in [Deliveries -> Answers]

DeliveriesInit ==
    /\ active = [d \in Deliveries |-> NoDelivery]
    /\ active_calls = [d \in Deliveries |-> NoDelivery]
    /\ usage = [r \in Routes |-> NoUsage]
    /\ global = NoUsage
    /\ attempts = [d \in Deliveries |-> "none"]
    /\ calls = [d \in Deliveries |-> "none"]
    /\ overrides = [d \in Deliveries |-> Absent]
    /\ persistence_degraded = FALSE
    /\ log = EmptyLog
    /\ phase = "down"
    /\ admissions = [d \in Deliveries |-> 0]
    /\ accepted = {}
    /\ sent = [d \in Deliveries |-> 0]
    /\ answers = [d \in Deliveries |-> "none"]

-----------------------------------------------------------------------------
(* Accounting *)

(* saturating_sub *)
Minus(a, b) == IF a >= b THEN a - b ELSE 0

One(condition) == IF condition THEN 1 ELSE 0

(* usage.remove when nothing is left *)
Settled(u) == IF IsIdle(u) THEN NoUsage ELSE u

(* admit_emit: what delivery d is charged for. *)
WithDelivery(u, d) == [u EXCEPT !.pending = @ + 1, !.bytes = @ + Size[d]]

(* clear_in_flight, abort_in_flight, and the same lines of finish_delivery *)
WithoutInFlight(u) == [u EXCEPT !.in_flight = Minus(@, 1)]

(* finish_call: what a call gives back to its route. *)
WithoutCall(u) == [u EXCEPT !.calls = Minus(@, 1)]

(* Mutated WithoutDelivery: the in-flight slot is not given back. *)
WithoutPendingOnly(u, d) ==
    [u EXCEPT !.pending = Minus(@, 1), !.bytes = Minus(@, Size[d])]

(* finish_delivery: what delivery d gives back. *)
WithoutDelivery(u, d) ==
    [u EXCEPT !.pending = Minus(@, 1),
              !.bytes = Minus(@, Size[d]),
              !.in_flight = Minus(@, One(active[d].abort))]

(* finish_delivery, after the terminal record is written.  The task of an  *)
(* attempt still in flight is the caller's to abort.                        *)
FinishDelivery(d) ==
    LET r == active[d].route IN
    /\ active' = [active EXCEPT ![d] = NoDelivery]
    /\ usage' = [usage EXCEPT ![r] = Settled(WithoutDelivery(@, d))]
    /\ global' = WithoutDelivery(global, d)

(* Mutated FinishCall: the result sender is dropped unanswered. *)
FinishCallUnanswered(d, answer) ==
    LET r == active_calls[d].route IN
    /\ active_calls' = [active_calls EXCEPT ![d] = NoDelivery]
    /\ usage' = [usage EXCEPT ![r] = Settled(WithoutCall(@))]
    /\ global' = [global EXCEPT
                    !.calls = Minus(@, One(active_calls[d].abort))]
    /\ UNCHANGED answers

(* finish_call *)
FinishCall(d, answer) ==
    LET r == active_calls[d].route IN
    /\ active_calls' = [active_calls EXCEPT ![d] = NoDelivery]
    /\ usage' = [usage EXCEPT ![r] = Settled(WithoutCall(@))]
    /\ global' = [global EXCEPT
                    !.calls = Minus(@, One(active_calls[d].abort))]
    /\ answers' = [answers EXCEPT ![d] = answer]

(* Mutated Aborted: the handle is dropped, the task runs on. *)
NotAborted(set, d) == set

(* AbortHandle::abort leaves a finished task alone. *)
Aborted(set, d) ==
    [set EXCEPT ![d] = IF @ = "running" THEN "cancelled" ELSE @]

(* persist_terminal, persist_call_terminal, force_terminal and             *)
(* force_call_terminal up to the finish: record the outcome in log value l *)
(* or else keep a process-local record and stop admitting.  A write fails  *)
(* because it is refused, or ambiguously: it took effect, an error was     *)
(* reported and the record cannot be read back.                            *)
PersistTerminal(l, d, count, outcome, degraded) ==
    LET override == [overrides EXCEPT
                        ![d] = [state |-> outcome, attempts |-> count]]
    IN
    \/ /\ AcceptsOutcome(l, d, outcome)
       /\ log' = WithOutcome(l, d, outcome)
       /\ UNCHANGED overrides
       /\ persistence_degraded' = degraded
    \/ /\ AcceptsOutcome(l, d, outcome) => "refused" \in LogFaults
       /\ log' = l
       /\ IF l[d].state = outcome     \* persisted_terminal_matches
          THEN overrides' = overrides /\ persistence_degraded' = degraded
          ELSE overrides' = override /\ persistence_degraded' = TRUE
    \/ /\ "ambiguous" \in LogFaults
       /\ AcceptsOutcome(l, d, outcome)
       /\ log' = WithOutcome(l, d, outcome)
       /\ overrides' = override
       /\ persistence_degraded' = TRUE

-----------------------------------------------------------------------------
(* Admission *)

(* admit_emit, admit_call: admission is closed once the log is in doubt. *)
Admissible(d) == ~persistence_degraded /\ admissions[d] < MaxAdmissions

(* Mutated HasPendingCapacity: off by one. *)
HasPendingCapacityButOne(r, bytes) ==
    /\ global.pending < GlobalPending
    /\ usage[r].pending <= RoutePending
    /\ global.bytes + bytes <= GlobalBytes
    /\ usage[r].bytes <= RouteBytes

(* check_pending_capacity *)
HasPendingCapacity(r, bytes) ==
    /\ global.pending < GlobalPending
    /\ usage[r].pending < RoutePending
    /\ global.bytes + bytes <= GlobalBytes
    /\ usage[r].bytes + bytes <= RouteBytes

(* admit_call *)
HasCallCapacity == Cardinality(ActiveCalls) < CallInFlight

(* Terminal records insert_intent may reclaim first.  A record whose       *)
(* finished task is still in a JoinSet is not old enough to be among them. *)
Forgettable ==
    IF Forgetful
    THEN {d \in TerminalIn(log) : attempts[d] = "none" /\ calls[d] = "none"}
    ELSE {}

(* The log as insert_intent may leave it before it looks for a conflict. *)
Reclaimings == {Without(log, forgotten) : forgotten \in SUBSET Forgettable}

(* Accepted deliveries that were not reclaimed: what the log owes a host. *)
Remembered(l) == {d \in accepted : l[d] # Absent}

(* insert_intent failed after reclaiming: Conflict, CapacityExhausted or   *)
(* Unavailable, the last possibly after the intent was written.            *)
InsertFails(d) ==
    /\ \E l \in Reclaimings :
          /\ accepted' = Remembered(l)
          /\ \/ log' = l /\ UNCHANGED sent
             \/ /\ "ambiguous" \in LogFaults
                /\ l[d] = Absent
                /\ log' = WithIntent(l, d)
                /\ sent' = [sent EXCEPT ![d] = 0]
    /\ UNCHANGED <<lanes, tasks, overrides, persistence_degraded, admissions,
                   answers>>

(* A new admission of d. *)
Admitted(d) == admissions' = [admissions EXCEPT ![d] = @ + 1]

Admission(r, d) ==
    [route |-> r, state |-> "ready", attempts |-> 0, abort |-> FALSE,
     due |-> FALSE, inc |-> admissions[d] + 1]

(* admit_emit, once the intent is in the log. *)
AcceptEmit(r, d) ==
    /\ \E l \in Reclaimings :
          /\ l[d] = Absent
          /\ log' = WithIntent(l, d)
          /\ accepted' = Remembered(l) \cup {d}
    /\ active' = [active EXCEPT ![d] = Admission(r, d)]
    /\ usage' = [usage EXCEPT ![r] = WithDelivery(@, d)]
    /\ global' = WithDelivery(global, d)
    /\ Admitted(d)
    /\ sent' = [sent EXCEPT ![d] = 0]
    /\ answers' = [answers EXCEPT ![d] = "none"]
    /\ UNCHANGED <<active_calls, tasks, overrides, persistence_degraded>>

CallAdmission(r, d) ==
    [Admission(r, d) EXCEPT !.state = "in_flight", !.attempts = 1, !.abort = TRUE]

(* prepare_call and start_call, the attempt recorded: the call is sent. *)
StartCall(r, d, l) ==
    /\ log' = WithAttempt(l, d, 1)
    /\ active_calls' = [active_calls EXCEPT ![d] = CallAdmission(r, d)]
    /\ calls' = [calls EXCEPT ![d] = "running"]
    /\ usage' = [usage EXCEPT ![r].calls = @ + 1]
    /\ global' = [global EXCEPT !.calls = @ + 1]
    /\ sent' = [sent EXCEPT ![d] = 1]
    /\ answers' = [answers EXCEPT ![d] = "waiting"]
    /\ UNCHANGED <<overrides, persistence_degraded>>

(* start_call, the attempt not recorded (or not known to be): the call     *)
(* ends at once, and the route's usage is as before.                       *)
FailCall(d, l) ==
    /\ \E written \in {l, WithAttempt(l, d, 1)} :
          /\ written = l => "refused" \in LogFaults
          /\ written # l => "ambiguous" \in LogFaults
          /\ PersistTerminal(written, d, 1, "failed", TRUE)
    /\ sent' = [sent EXCEPT ![d] = 0]
    /\ answers' = [answers EXCEPT ![d] = "failed"]
    /\ UNCHANGED <<active_calls, usage, global, calls>>

(* admit_call, prepare_call, once the intent is in the log. *)
AcceptCall(r, d) ==
    /\ \E l \in Reclaimings :
          /\ l[d] = Absent
          /\ StartCall(r, d, WithIntent(l, d)) \/ FailCall(d, WithIntent(l, d))
          /\ accepted' = Remembered(l) \cup {d}
    /\ Admitted(d)
    /\ UNCHANGED <<active, attempts>>

-----------------------------------------------------------------------------
(* Attempts *)

(* start_attempt with the attempt recorded: the task is spawned. *)
StartRecorded(d) ==
    LET count == active[d].attempts + 1
        r == active[d].route
    IN
    /\ AcceptsAttempt(log, d, count)
    /\ log' = WithAttempt(log, d, count)
    /\ active' = [active EXCEPT ![d].state = "in_flight", ![d].due = FALSE,
                                ![d].attempts = count, ![d].abort = TRUE]
    /\ attempts' = [attempts EXCEPT ![d] = "running"]
    /\ usage' = [usage EXCEPT ![r].in_flight = @ + 1]
    /\ global' = [global EXCEPT !.in_flight = @ + 1]
    /\ sent' = [sent EXCEPT ![d] = @ + 1]
    /\ UNCHANGED <<overrides, persistence_degraded>>

(* Mutated StartUnrecorded: the refused write is ignored and the attempt sent. *)
SendUnrecorded(d) ==
    LET count == active[d].attempts + 1
        r == active[d].route
    IN
    /\ "refused" \in LogFaults
    /\ active' = [active EXCEPT ![d].state = "in_flight", ![d].due = FALSE,
                                ![d].attempts = count, ![d].abort = TRUE]
    /\ attempts' = [attempts EXCEPT ![d] = "running"]
    /\ usage' = [usage EXCEPT ![r].in_flight = @ + 1]
    /\ global' = [global EXCEPT !.in_flight = @ + 1]
    /\ sent' = [sent EXCEPT ![d] = @ + 1]
    /\ UNCHANGED <<records>>

(* Mutated StartUnrecorded: the failed delivery is not let go of. *)
StartUnrecordedHeld(d) ==
    /\ "refused" \in LogFaults
    /\ PersistTerminal(log, d, active[d].attempts + 1, "failed", TRUE)
    /\ UNCHANGED <<active, usage, global, attempts, sent>>

(* start_attempt with the attempt not recorded, or not known to be: nothing *)
(* is sent and the delivery fails.                                          *)
StartUnrecorded(d) ==
    LET count == active[d].attempts + 1 IN
    /\ \E written \in {log, WithAttempt(log, d, count)} :
          /\ (written = log /\ AcceptsAttempt(log, d, count))
                => "refused" \in LogFaults
          /\ written # log => /\ "ambiguous" \in LogFaults
                              /\ AcceptsAttempt(log, d, count)
          /\ PersistTerminal(written, d, count, "failed", TRUE)
    /\ FinishDelivery(d)
    /\ UNCHANGED <<attempts, sent>>

StartAttempt(d) ==
    /\ StartRecorded(d) \/ StartUnrecorded(d)
    /\ UNCHANGED <<active_calls, calls, admissions, accepted, answers>>

(* take_fair_ready skips deliveries that ended or are in flight already. *)
Servable(d) == active[d] # NoDelivery /\ ~active[d].abort

(* One pass of the loop in dispatch_ready, for the delivery it serves. *)
Serve(d) ==
    /\ global.in_flight < GlobalInFlight
    /\ Servable(d)
    /\ IF DriveStarts(active[d].state, active[d].due)
       THEN StartAttempt(d)
       ELSE UNCHANGED deliveries

(* handle_attempt_join and complete_attempt: an attempt in flight ended. *)
AttemptEnded(d) ==
    /\ attempts[d] \in Finished \ {"panicked"}
    /\ active[d] # NoDelivery
    /\ active[d].abort

WithinPolicy(d) ==
    /\ attempts[d] = "retryable"
    /\ Retries(active[d].state, active[d].attempts, MaxRetries)

(* complete_attempt, to be retried. *)
RetryAttempt(d) ==
    LET r == active[d].route IN
    /\ AttemptEnded(d)
    /\ WithinPolicy(d)
    /\ attempts' = [attempts EXCEPT ![d] = "none"]
    /\ active' = [active EXCEPT ![d].state = "waiting",
                                ![d].abort = FALSE, ![d].due = FALSE]
    /\ usage' = [usage EXCEPT ![r] = WithoutInFlight(@)]
    /\ global' = WithoutInFlight(global)
    /\ UNCHANGED <<active_calls, calls, records, history>>

(* apply_event: a held delivery ends, its task apart. *)
EndDelivery(d, event) ==
    /\ PersistTerminal(log, d, active[d].attempts,
                       TerminalOutcome(active[d].state, event),
                       persistence_degraded)
    /\ FinishDelivery(d)
    /\ UNCHANGED <<active_calls, calls, history>>

(* complete_attempt, the last one. *)
EndAttempt(d) ==
    /\ AttemptEnded(d)
    /\ ~WithinPolicy(d)
    /\ attempts' = [attempts EXCEPT ![d] = "none"]
    /\ EndDelivery(d, attempts[d])

(* apply_terminal_event, where finishing aborts the attempt (after a panic  *)
(* it was aborted just before).                                             *)
CutDelivery(d, event) ==
    /\ attempts' = IF active[d].abort THEN Aborted(attempts, d) ELSE attempts
    /\ EndDelivery(d, event)

(* handle_attempt_join of a task whose end decides nothing. *)
DropAttempt(d) ==
    /\ Joinable(attempts[d])
    /\ attempts' = [attempts EXCEPT ![d] = "none"]
    /\ UNCHANGED <<lanes, calls, records, history>>

-----------------------------------------------------------------------------
(* Calls *)

CallEnded(d) ==
    /\ calls[d] \in Finished \ {"panicked"}
    /\ active_calls[d] # NoDelivery
    /\ active_calls[d].abort

EndCall(d, event, answer) ==
    /\ PersistTerminal(log, d, active_calls[d].attempts,
                       TerminalOutcome(active_calls[d].state, event),
                       persistence_degraded)
    /\ FinishCall(d, answer)
    /\ UNCHANGED <<active, attempts, admissions, accepted, sent>>

(* complete_call: a call without retries always ends here; it is answered   *)
(* Ok only with a JSON result.                                              *)
CompleteHeldCall(d) ==
    /\ CallEnded(d)
    /\ calls' = [calls EXCEPT ![d] = "none"]
    /\ EndCall(d, IF calls[d] = "empty" THEN "delivered" ELSE calls[d],
                  IF calls[d] = "delivered" THEN "ok" ELSE "failed")

(* apply_call_terminal_event or, after a panic, force_call_terminal. *)
CutCall(d, event) ==
    /\ calls' = IF active_calls[d].abort THEN Aborted(calls, d) ELSE calls
    /\ EndCall(d, event, IF event = "shutdown" THEN "stopped" ELSE "failed")

(* handle_call_join of a task whose end decides nothing. *)
DropCall(d) ==
    /\ Joinable(calls[d])
    /\ calls' = [calls EXCEPT ![d] = "none"]
    /\ UNCHANGED <<lanes, attempts, records, history>>

-----------------------------------------------------------------------------
(* The environment: tasks, time, the process *)

(* execute_attempt returns, or a delivery kind panics. *)
EndTask(d, result) ==
    /\ \/ /\ attempts[d] = "running"
          /\ result # "empty"
          /\ attempts' = [attempts EXCEPT ![d] = result]
          /\ UNCHANGED calls
       \/ /\ calls[d] = "running"
          /\ calls' = [calls EXCEPT ![d] = result]
          /\ UNCHANGED attempts
    /\ UNCHANGED <<lanes, records, history>>

(* The deadline of a retry passes. *)
ComeDue(d) ==
    /\ active[d] # NoDelivery
    /\ active[d].state = "waiting"
    /\ ~active[d].due
    /\ active' = [active EXCEPT ![d].due = TRUE]
    /\ UNCHANGED <<active_calls, usage, global, tasks, records, history>>

(* Engine::new: an engine that holds nothing. *)
HoldNothing ==
    /\ active' = [d \in Deliveries |-> NoDelivery]
    /\ active_calls' = [d \in Deliveries |-> NoDelivery]
    /\ usage' = [r \in Routes |-> NoUsage]
    /\ global' = NoUsage
    /\ attempts' = [d \in Deliveries |-> "none"]
    /\ calls' = [d \in Deliveries |-> "none"]
    /\ overrides' = [d \in Deliveries |-> Absent]
    /\ persistence_degraded' = FALSE
    /\ answers' = [d \in Deliveries |-> "none"]

Running == phase \notin {"down", "stopped"}

(* The process dies; only a persistent log survives. *)
LoseDeliveries ==
    /\ Running
    /\ phase' = "down"
    /\ HoldNothing
    /\ UNCHANGED <<log, admissions, accepted, sent>>

(* Mutated RecoverDeliveries: no recovery. *)
RecoverNothing ==
    /\ ~Running
    /\ phase' = "dispatch"
    /\ HoldNothing
    /\ UNCHANGED <<log, accepted, sent, admissions>>

(* EgressRuntime::start: recovery precedes the engine, and a runtime whose *)
(* log cannot be recovered does not start.  An in-memory log is new.       *)
RecoverDeliveries ==
    /\ ~Running
    /\ phase' = "dispatch"
    /\ HoldNothing
    /\ log' = IF Persistent THEN Recovered(log) ELSE EmptyLog
    /\ accepted' = IF Persistent THEN accepted ELSE {}
    /\ sent' = IF Persistent THEN sent ELSE [d \in Deliveries |-> 0]
    /\ UNCHANGED admissions

-----------------------------------------------------------------------------
(* What may happen to the deliveries of a running engine. *)
DeliveryStep(d) ==
    \/ Admissible(d) /\ InsertFails(d)
    \/ \E r \in Routes :
          \/ Admissible(d) /\ HasPendingCapacity(r, Size[d]) /\ AcceptEmit(r, d)
          \/ Admissible(d) /\ HasCallCapacity /\ AcceptCall(r, d)
    \/ Serve(d)
    \/ RetryAttempt(d)
    \/ EndAttempt(d)
    \/ \E event \in {"failed", "cancel", "shutdown"} :
          \/ active[d] # NoDelivery /\ CutDelivery(d, event)
          \/ active_calls[d] # NoDelivery /\ CutCall(d, event)
    \/ DropAttempt(d)
    \/ CompleteHeldCall(d)
    \/ DropCall(d)
    \/ \E result \in Finished : EndTask(d, result)
    \/ ComeDue(d)

(* The engine runs on, and exits only when it holds nothing. *)
Run ==
    /\ Running
    /\ phase' \in Phases \ {"down"}
    /\ \/ phase' # "stopped" /\ \E d \in Deliveries : DeliveryStep(d)
       \/ /\ UNCHANGED deliveries
          /\ phase' = "stopped" => Active = {} /\ ActiveCalls = {}

DeliveriesNext == Run \/ LoseDeliveries \/ RecoverDeliveries

DeliveriesSpec ==
    DeliveriesInit /\ [][DeliveriesNext]_<<deliveries, phase>>

-----------------------------------------------------------------------------
(* Safety *)

(* The counters that admission, dispatch and draining decide by are what    *)
(* the maps contain: every path that ends a delivery or a call gives back   *)
(* its slot once, whether it completes, is aborted, panics or is cancelled, *)
(* although each decrement saturates and would hide a slip                  *)
(* (runtime.rs:1027-1077, 1341-1383).                                       *)
Accounting ==
    /\ global.pending = Cardinality(Active)
    /\ global.in_flight = Cardinality(InFlight)
    /\ global.calls = Cardinality(CallsInFlight)
    /\ \A r \in Routes :
          /\ usage[r].pending = Cardinality(ActiveOn(r))
          /\ usage[r].in_flight = Cardinality(InFlightOn(r))
          /\ usage[r].calls = Cardinality(CallsOn(r))

(* The payload bytes of a set of deliveries: byte i of d is <<d, i>>. *)
PayloadBytes(S) == Cardinality(UNION {{d} \X (1 .. Size[d]) : d \in S})

(* The retained payload bytes are those of the deliveries held, globally    *)
(* and per route, and never above the limits (runtime.rs:613-630).          *)
PayloadAccounting ==
    /\ global.bytes = PayloadBytes(Active)
    /\ global.bytes <= GlobalBytes
    /\ \A r \in Routes :
          /\ usage[r].bytes = PayloadBytes(ActiveOn(r))
          /\ usage[r].bytes <= RouteBytes

(* The engine and the log agree: a held delivery is held in one lane only,  *)
(* its record is pending with the same attempt count, and nothing           *)
(* process-local shadows it; a process-local record exists only when        *)
(* admission is closed, and never contradicts what the log may come to say  *)
(* (runtime.rs:520-611, 713-856, 1211-1339).                                *)
LogAgreement ==
    /\ Active \cap ActiveCalls = {}
    /\ \A d \in Active :
          log[d] = [state |-> "pending", attempts |-> active[d].attempts]
    /\ \A d \in ActiveCalls :
          log[d] = [state |-> "pending", attempts |-> active_calls[d].attempts]
    /\ \A d \in Active \cup ActiveCalls : overrides[d] = Absent
    /\ \A d \in Deliveries : overrides[d] # Absent =>
          /\ persistence_degraded
          /\ IsTerminal(overrides[d])
          /\ log[d].state \in {"pending", overrides[d].state}

(* Persist before send: at every moment, and in particular after a crash,   *)
(* the log counts at least the attempts handed to the transport, and these  *)
(* never exceed the retry policy (runtime.rs:734-775, delivery.rs:72-85).   *)
RecordedBeforeSent ==
    \A d \in Deliveries :
       /\ log[d] # Absent => sent[d] <= log[d].attempts
       /\ sent[d] <= MaxRetries + 1

(* No accepted delivery is lost: until the log reclaims its terminal        *)
(* record, a running engine holds it or reports a terminal status, after a  *)
(* restart and after a stop as well                                         *)
(* (runtime.rs:63-68, 520-611, 1132-1145, 1211-1274).                       *)
NothingLost ==
    /\ phase # "down" =>
          \A d \in accepted : \/ d \in Active \cup ActiveCalls
                              \/ IsTerminal(Status(d))
    /\ phase = "stopped" => Active \cup ActiveCalls = {}

(* Each call that was admitted waits for its answer exactly while the       *)
(* engine holds it, and Ok is answered only for a delivery whose status is  *)
(* delivered, until its record is reclaimed                                 *)
(* (runtime.rs:972-1025, 1364-1383).                                        *)
CallsAnswered ==
    \A d \in Deliveries :
       /\ answers[d] = "waiting" <=> d \in ActiveCalls
       /\ (answers[d] = "ok" /\ d \in accepted) => Status(d).state = "delivered"

-----------------------------------------------------------------------------
(* What a step may never do *)

Continuing == Running /\ phase' # "down"

(* insert_intent of a running engine reclaimed the record of d: it is gone, *)
(* or the intent of a new admission, accepted or not, is in its place.      *)
Reclaimed(d) ==
    /\ Continuing /\ ~persistence_degraded
    /\ d \in Forgettable
    /\ \/ log'[d] \in {Absent, [state |-> "pending", attempts |-> 0]}
       \/ admissions'[d] = admissions[d] + 1

(* A terminal status that a host may have read stays as it is for as long   *)
(* as the process runs, late completions, aborts and sweeps included, and a *)
(* terminal record in a persistent log survives crash and restart.  What    *)
(* ends it is a later insert_intent that reclaims the record, and nothing   *)
(* else (runtime.rs:632-640, 916-923, 1276-1287).                           *)
TerminalIsFinal ==
    [][ \A d \in Deliveries :
          /\ (Continuing /\ IsTerminal(Status(d)))
                => Status(d)' = Status(d) \/ Reclaimed(d)
          /\ (Persistent /\ IsTerminal(log[d]))
                => log'[d] = log[d] \/ Reclaimed(d) ]_<<deliveries, phase>>

=============================================================================
