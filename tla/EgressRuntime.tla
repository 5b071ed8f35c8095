--------------------------- MODULE EgressRuntime ---------------------------
(***************************************************************************)
(* The engine of crates/engine/bondry-egress-runtime/src/runtime.rs: one   *)
(* thread that admits one-way deliveries (emit) and calls, logs each step  *)
(* before it acts, schedules attempts fairly over routes, retries, drains  *)
(* routes, and shuts down within a deadline.                               *)
(*                                                                         *)
(* The engine loops: a prelude (dispatch_ready, complete_empty_drains,     *)
(* discard_stale_retries) and a select! over shutdown, commands, finished  *)
(* attempts, finished calls and the next deadline.  phase says where it    *)
(* is.  One pass of dispatch_ready's loop, and one pass of each loop over  *)
(* deliveries in a select! branch ("sweep"), is one step, so that the      *)
(* process can crash between any two writes to the log.  Attempts run only *)
(* while the engine is suspended in select! (a current_thread runtime).    *)
(*                                                                         *)
(* There is no clock.  A deadline is armed, and passes at any moment       *)
(* while the engine is suspended.                                          *)
(*                                                                         *)
(* What happens to a delivery is in EgressDeliveries; here is what decides *)
(* when: the registry, the drains, the ready queues, the retry heap, the   *)
(* deadlines and the loop.                                                 *)
(***************************************************************************)
EXTENDS EgressDeliveries, Sequences

CONSTANTS
    CallRoutes,       \* the routes whose kind supports_call()
    RouteInFlight,    \* EgressRuntimeLimits
    MaxStarts         \* bound: starts of the runtime

ASSUME RoutesAssumption == CallRoutes \subseteq Routes
ASSUME RouteLimitAssumption == RouteInFlight \in Nat \ {0}
ASSUME BoundsAssumption == MaxStarts \in Nat

VARIABLES
    registry,         \* RouteRegistry: "absent", "enabled" or "disabled"
    drains,           \* RouteDrain of each route
    ready,            \* ready deliveries of each route
    ready_routes,     \* rotation of the routes with a ready queue
    retries,          \* the retry heap
    stopping, shutdown_deadline,
    sweep,            \* what is left of a loop over deliveries
    starts            \* number of starts of the runtime

routing == <<registry, drains>>
queues == <<ready, ready_routes>>
control == <<stopping, shutdown_deadline, starts>>
loop == <<phase, sweep>>
vars == <<deliveries, routing, queues, retries, control, loop>>

-----------------------------------------------------------------------------
(* State *)

(* RouteDrain *)
NoDrain == [remove |-> FALSE, deadline |-> "none"]
Drains == [remove : BOOLEAN, deadline : {"armed", "passed"}]

(* An entry of the retry heap stands for its deadline. *)
RetryEntries == [delivery : Deliveries, inc : Nat, attempts : Nat]

NoSweep == [retries |-> {}, emits |-> {}, calls |-> {}, event |-> "none"]
Sweeps == [retries : SUBSET RetryEntries, emits : SUBSET Deliveries,
           calls : SUBSET Deliveries,
           event : {"none", "failed", "cancel", "shutdown"}]

(* Types of the engine's state (runtime.rs:364-386, 1468-1502) and of what   *)
(* the host and the log have seen of it.                                     *)
TypeOK ==
    /\ DeliveriesOK
    /\ registry \in [Routes -> {"absent", "enabled", "disabled"}]
    /\ drains \in [Routes -> Drains \cup {NoDrain}]
    /\ ready \in [Routes -> Seq(Deliveries)]
    /\ ready_routes \in Seq(Routes)
    /\ retries \subseteq RetryEntries
    /\ stopping \in BOOLEAN
    /\ shutdown_deadline \in {"none", "armed", "passed"}
    /\ sweep \in Sweeps
    /\ starts \in Nat

Init ==
    /\ DeliveriesInit
    /\ registry = [r \in Routes |-> "absent"]
    /\ drains = [r \in Routes |-> NoDrain]
    /\ ready = [r \in Routes |-> <<>>]
    /\ ready_routes = <<>>
    /\ retries = {}
    /\ stopping = FALSE
    /\ shutdown_deadline = "none"
    /\ sweep = NoSweep
    /\ starts = 0

-----------------------------------------------------------------------------
(* Commands: handle_command.  A rejected command changes nothing. *)

CommandReady == phase = "select" /\ ~stopping

(* Command::Register; the host chooses whether the route starts enabled. *)
Register(r, state) ==
    /\ CommandReady
    /\ registry[r] = "absent"
    /\ registry' = [registry EXCEPT ![r] = state]
    /\ phase' = "dispatch"
    /\ UNCHANGED <<deliveries, drains, queues, retries, control, sweep>>

(* Command::Enable *)
Enable(r) ==
    /\ CommandReady
    /\ drains[r] = NoDrain
    /\ registry[r] # "absent"
    /\ registry' = [registry EXCEPT ![r] = "enabled"]
    /\ phase' = "dispatch"
    /\ UNCHANGED <<deliveries, drains, queues, retries, control, sweep>>

(* Mutated BeginDrain: the route is unregistered before its work is done. *)
BeginDrainEarly(r, remove) ==
    /\ CommandReady
    /\ drains[r] = NoDrain
    /\ registry[r] # "absent"
    /\ registry' = [registry EXCEPT ![r] = IF remove THEN "absent" ELSE "disabled"]
    /\ drains' = IF IsIdle(usage[r])
                 THEN drains
                 ELSE [drains EXCEPT
                         ![r] = [remove |-> remove, deadline |-> "armed"]]
    /\ phase' = "dispatch"
    /\ UNCHANGED <<deliveries, queues, retries, control, sweep>>

(* Command::Drain, begin_drain: disable_route or, with remove,             *)
(* unregister_route.  An idle route is drained at once.                    *)
BeginDrain(r, remove) ==
    /\ CommandReady
    /\ drains[r] = NoDrain
    /\ registry[r] # "absent"
    /\ registry' = [registry EXCEPT
          ![r] = IF IsIdle(usage[r]) /\ remove THEN "absent" ELSE "disabled"]
    /\ drains' = IF IsIdle(usage[r])
                 THEN drains
                 ELSE [drains EXCEPT
                         ![r] = [remove |-> remove, deadline |-> "armed"]]
    /\ phase' = "dispatch"
    /\ UNCHANGED <<deliveries, queues, retries, control, sweep>>

(* enqueue_ready *)
EnqueueReady(r, d) ==
    /\ ready' = [ready EXCEPT ![r] = Append(@, d)]
    /\ ready_routes' = IF ready[r] = <<>> THEN Append(ready_routes, r)
                                          ELSE ready_routes

(* Command::Emit, admit_emit *)
Emit(r, d) ==
    /\ CommandReady
    /\ registry[r] = "enabled"
    /\ Admissible(d)
    /\ HasPendingCapacity(r, Size[d])
    /\ \/ /\ AcceptEmit(r, d)
          /\ EnqueueReady(r, d)
          /\ phase' = "dispatch"
          /\ UNCHANGED <<routing, retries, control, sweep>>
       \/ /\ InsertFails(d)
          /\ UNCHANGED <<routing, queues, retries, control, loop>>

(* Command::Call, admit_call, prepare_call *)
Call(r, d) ==
    /\ CommandReady
    /\ registry[r] = "enabled"
    /\ r \in CallRoutes
    /\ Admissible(d)
    /\ HasCallCapacity
    /\ \/ /\ AcceptCall(r, d)
          /\ phase' = "dispatch"
          /\ UNCHANGED <<routing, queues, retries, control, sweep>>
       \/ /\ InsertFails(d)
          /\ UNCHANGED <<routing, queues, retries, control, loop>>

(* shutdown.changed, or every command sender gone: admission ends, waiting *)
(* drains are answered Stopped and forgotten.                              *)
Stop ==
    /\ phase = "select"
    /\ ~stopping
    /\ stopping' = TRUE
    /\ shutdown_deadline' = "armed"
    /\ drains' = [r \in Routes |-> NoDrain]
    /\ phase' = "dispatch"
    /\ UNCHANGED <<deliveries, registry, queues, retries, starts, sweep>>

-----------------------------------------------------------------------------
(* The prelude: dispatch_ready, take_fair_ready, start_attempt *)

AtLimit(r) == usage[r].in_flight >= RouteInFlight

(* Position i of the rotation, j of its queue: the first delivery of the   *)
(* first route below its limit that has one.                               *)
Serves(i) ==
    /\ ~AtLimit(ready_routes[i])
    /\ \E j \in DOMAIN ready[ready_routes[i]] :
          Servable(ready[ready_routes[i]][j])

FairChoice(i, j) ==
    LET queue == ready[ready_routes[i]] IN
    /\ Serves(i)
    /\ \A k \in 1 .. i - 1 : ~Serves(k)
    /\ Servable(queue[j])
    /\ \A k \in 1 .. j - 1 : ~Servable(queue[k])

(* The routes of rotation s (each occurs in it once) that are at their      *)
(* limit, in the order of s: a set of one sequence.                         *)
Passed(s) ==
    LET kept(seq) ==
            /\ {seq[k] : k \in DOMAIN seq}
                  = {s[k] : k \in {k \in DOMAIN s : AtLimit(s[k])}}
            /\ \A m, n \in DOMAIN seq : m < n =>
                  \E k, l \in DOMAIN s : k < l /\ s[k] = seq[m] /\ s[l] = seq[n]
    IN {seq \in UNION {[1 .. n -> Routes] : n \in 0 .. Len(s)} : kept(seq)}

(* Mutated TakeFairReady: the chosen route stays in front. *)
TakeUnfairReady(i, j) ==
    LET r == ready_routes[i]
        rest == SubSeq(ready[r], j + 1, Len(ready[r]))
        others == SelectSeq(ready_routes, LAMBDA q : q # r)
    IN
    /\ ready' = [ready EXCEPT ![r] = rest]
    /\ ready_routes' = IF rest = <<>> THEN others ELSE <<r>> \o others

(* The queues after take_fair_ready chose position i, j: passed routes at  *)
(* their limit go to the back, other passed routes lose their dead queue,  *)
(* and the chosen route goes last if its queue is not empty.               *)
TakeFairReady(i, j) ==
    LET r == ready_routes[i]
        rest == SubSeq(ready[r], j + 1, Len(ready[r]))
        dropped == {ready_routes[k] : k \in {k \in 1 .. i - 1 :
                                               ~AtLimit(ready_routes[k])}}
    IN
    /\ ready' = [q \in Routes |-> IF q = r THEN rest
                                  ELSE IF q \in dropped THEN <<>>
                                  ELSE ready[q]]
    /\ \E passed \in Passed(SubSeq(ready_routes, 1, i - 1)) :
          ready_routes' = SubSeq(ready_routes, i + 1, Len(ready_routes))
                          \o passed
                          \o (IF rest = <<>> THEN <<>> ELSE <<r>>)

(* One pass of the loop in dispatch_ready. *)
Dispatch ==
    /\ phase = "dispatch"
    /\ \E i \in DOMAIN ready_routes :
          \E j \in DOMAIN ready[ready_routes[i]] :
             /\ FairChoice(i, j)
             /\ TakeFairReady(i, j)
             /\ Serve(ready[ready_routes[i]][j])
    /\ UNCHANGED <<routing, retries, control, loop>>

(* A heap entry is valid while the lifecycle waits for that deadline. *)
ValidRetry(t) ==
    /\ active[t.delivery] # NoDelivery
    /\ active[t.delivery].state = "waiting"
    /\ active[t.delivery].inc = t.inc
    /\ active[t.delivery].attempts = t.attempts

StaleRetries == {t \in retries : ~ValidRetry(t)}

InRotation(r) == \E i \in DOMAIN ready_routes : ready_routes[i] = r

(* Mutated CompleteEmptyDrains: disable_route is not answered. *)
CompleteRemovals ==
    LET complete == {r \in Routes : drains[r].remove /\ IsIdle(usage[r])} IN
    /\ drains' = [r \in Routes |-> IF r \in complete THEN NoDrain ELSE drains[r]]
    /\ registry' = [r \in Routes |-> IF r \in complete
                                     THEN "absent" ELSE registry[r]]

(* complete_empty_drains *)
CompleteEmptyDrains ==
    LET complete == {r \in Routes : drains[r] # NoDrain /\ IsIdle(usage[r])} IN
    /\ drains' = [r \in Routes |-> IF r \in complete THEN NoDrain ELSE drains[r]]
    /\ registry' = [r \in Routes |-> IF r \in complete /\ drains[r].remove
                                     THEN "absent" ELSE registry[r]]

(* Mutated DiscardStaleRetries: a stale entry takes the heap with it. *)
DiscardRetries == retries' = IF StaleRetries = {} THEN retries ELSE {}

(* discard_stale_retries: stale entries ahead of the first valid one go. *)
DiscardStaleRetries ==
    \E stale \in SUBSET StaleRetries :
       /\ StaleRetries = retries => stale = retries
       /\ retries' = retries \ stale

(* The loop in dispatch_ready ends: the attempts are at their limit, or a  *)
(* whole turn of take_fair_ready found nothing, dropping the dead queues.  *)
(* Then the rest of the prelude, and select! or the end of the loop.       *)
EndPrelude ==
    /\ phase = "dispatch"
    /\ IF global.in_flight < GlobalInFlight
       THEN /\ \A i \in DOMAIN ready_routes : ~Serves(i)
            /\ ready_routes' \in Passed(ready_routes)
            /\ ready' = [r \in Routes |-> IF InRotation(r) /\ ~AtLimit(r)
                                          THEN <<>> ELSE ready[r]]
       ELSE UNCHANGED <<queues>>
    /\ CompleteEmptyDrains
    /\ DiscardStaleRetries
    /\ phase' = IF stopping /\ Active = {} /\ ActiveCalls = {}
                THEN "stopped" ELSE "select"
    /\ UNCHANGED <<deliveries, control, sweep>>

-----------------------------------------------------------------------------
(* Finished attempts: handle_attempt_join, complete_attempt *)

(* A loop over deliveries begins, or goes on with what is left of it. *)
Continue(rest) ==
    /\ sweep' = IF rest.retries = {} /\ rest.emits = {} /\ rest.calls = {}
                THEN NoSweep ELSE rest
    /\ phase' = IF sweep' = NoSweep THEN "dispatch" ELSE "sweep"

(* Cancelled, or finished after the delivery ended: nothing happens. *)
JoinStaleAttempt(d) ==
    /\ phase = "select"
    /\ attempts[d] # "panicked"
    /\ attempts[d] # "cancelled" => ~(active[d] # NoDelivery /\ active[d].abort)
    /\ DropAttempt(d)
    /\ phase' = "dispatch"
    /\ UNCHANGED <<routing, queues, retries, control, sweep>>

(* A panic does not say whose task it was: every attempt in flight ends. *)
JoinPanickedAttempt(d) ==
    /\ phase = "select"
    /\ attempts[d] = "panicked"
    /\ DropAttempt(d)
    /\ Continue([NoSweep EXCEPT !.event = "failed", !.emits = InFlight])
    /\ UNCHANGED <<routing, queues, retries, control>>

(* complete_attempt: the retry deadline pushed onto the heap. *)
RetryEntry(d) ==
    [delivery |-> d, inc |-> active[d].inc, attempts |-> active[d].attempts]

(* Mutated CompleteAttempt: a retry is not put into the heap. *)
CompleteWithoutRetry(d) ==
    /\ phase = "select"
    /\ RetryAttempt(d) \/ EndAttempt(d)
    /\ phase' = "dispatch"
    /\ UNCHANGED <<routing, queues, retries, control, sweep>>

(* complete_attempt of a delivery in flight. *)
CompleteAttempt(d) ==
    /\ phase = "select"
    /\ \/ RetryAttempt(d) /\ retries' = retries \cup {RetryEntry(d)}
       \/ EndAttempt(d) /\ UNCHANGED retries
    /\ phase' = "dispatch"
    /\ UNCHANGED <<routing, queues, control, sweep>>

-----------------------------------------------------------------------------
(* Finished calls: handle_call_join, complete_call *)

JoinStaleCall(d) ==
    /\ phase = "select"
    /\ calls[d] # "panicked"
    /\ calls[d] # "cancelled" =>
          ~(active_calls[d] # NoDelivery /\ active_calls[d].abort)
    /\ DropCall(d)
    /\ phase' = "dispatch"
    /\ UNCHANGED <<routing, queues, retries, control, sweep>>

JoinPanickedCall(d) ==
    /\ phase = "select"
    /\ calls[d] = "panicked"
    /\ DropCall(d)
    /\ Continue([NoSweep EXCEPT !.event = "failed", !.calls = CallsInFlight])
    /\ UNCHANGED <<routing, queues, retries, control>>

CompleteCall(d) ==
    /\ phase = "select"
    /\ CompleteHeldCall(d)
    /\ phase' = "dispatch"
    /\ UNCHANGED <<routing, queues, retries, control, sweep>>

-----------------------------------------------------------------------------
(* The deadline branch: process_retry_deadlines, process_drain_deadlines,  *)
(* expire_shutdown.  No drain is left once the shutdown deadline is set.   *)

DueRetries == {t \in retries : ValidRetry(t) /\ active[t.delivery].due}

ExpiredDrains == {r \in Routes : drains[r].deadline = "passed"}

ProcessDeadlines ==
    LET expires(held) == \/ shutdown_deadline = "passed"
                         \/ held.route \in ExpiredDrains
    IN
    /\ phase = "select"
    /\ \/ DueRetries # {}
       \/ ExpiredDrains # {}
       \/ shutdown_deadline = "passed"
    /\ \E stale \in SUBSET StaleRetries :
          Continue([retries |-> DueRetries \cup stale,
                    emits |-> {d \in Active : expires(active[d])},
                    calls |-> {d \in ActiveCalls : expires(active_calls[d])},
                    event |-> IF shutdown_deadline = "passed"
                              THEN "shutdown" ELSE "cancel"])
    /\ UNCHANGED <<deliveries, routing, queues, retries, control>>

(* One pass of process_retry_deadlines. *)
SweepRetry(t) ==
    /\ phase = "sweep"
    /\ t \in sweep.retries
    /\ retries' = retries \ {t}
    /\ IF ValidRetry(t)
       THEN EnqueueReady(active[t.delivery].route, t.delivery)
       ELSE UNCHANGED <<queues>>
    /\ Continue([sweep EXCEPT !.retries = @ \ {t}])
    /\ UNCHANGED <<deliveries, routing, control>>

(* One pass of a loop over active. *)
SweepEmit(d) ==
    /\ phase = "sweep"
    /\ sweep.retries = {}
    /\ d \in sweep.emits
    /\ CutDelivery(d, sweep.event)
    /\ Continue([sweep EXCEPT !.emits = @ \ {d}])
    /\ UNCHANGED <<routing, queues, retries, control>>

(* One pass of a loop over active_calls. *)
SweepCall(d) ==
    /\ phase = "sweep"
    /\ sweep.retries = {}
    /\ d \in sweep.calls
    /\ CutCall(d, sweep.event)
    /\ Continue([sweep EXCEPT !.calls = @ \ {d}])
    /\ UNCHANGED <<routing, queues, retries, control>>

-----------------------------------------------------------------------------
(* The environment: tasks, time, the process *)

FinishTask(d, result) ==
    /\ phase = "select"
    /\ EndTask(d, result)
    /\ UNCHANGED <<routing, queues, retries, control, loop>>

RetryFallsDue(d) ==
    /\ phase = "select"
    /\ ComeDue(d)
    /\ UNCHANGED <<routing, queues, retries, control, loop>>

DrainFallsDue(r) ==
    /\ phase = "select"
    /\ drains[r].deadline = "armed"
    /\ drains' = [drains EXCEPT ![r].deadline = "passed"]
    /\ UNCHANGED <<deliveries, registry, queues, retries, control, loop>>

ShutdownFallsDue ==
    /\ phase = "select"
    /\ shutdown_deadline = "armed"
    /\ shutdown_deadline' = "passed"
    /\ UNCHANGED <<deliveries, routing, queues, retries, stopping, starts, loop>>

(* Engine::new: no routes, nothing queued. *)
FreshEngine ==
    /\ registry' = [r \in Routes |-> "absent"]
    /\ drains' = [r \in Routes |-> NoDrain]
    /\ ready' = [r \in Routes |-> <<>>]
    /\ ready_routes' = <<>>
    /\ retries' = {}
    /\ stopping' = FALSE
    /\ shutdown_deadline' = "none"
    /\ sweep' = NoSweep

Crash ==
    /\ LoseDeliveries
    /\ FreshEngine
    /\ UNCHANGED starts

(* EgressRuntime::start *)
Start ==
    /\ starts < MaxStarts
    /\ RecoverDeliveries
    /\ FreshEngine
    /\ starts' = starts + 1

-----------------------------------------------------------------------------
Command ==
    \/ \E r \in Routes :
          \/ \E state \in {"enabled", "disabled"} : Register(r, state)
          \/ Enable(r)
          \/ \E remove \in BOOLEAN : BeginDrain(r, remove)
          \/ \E d \in Deliveries : Emit(r, d) \/ Call(r, d)
    \/ Stop

Join ==
    \E d \in Deliveries :
       \/ JoinStaleAttempt(d)
       \/ JoinPanickedAttempt(d)
       \/ CompleteAttempt(d)
       \/ JoinStaleCall(d)
       \/ JoinPanickedCall(d)
       \/ CompleteCall(d)

Sweep ==
    \/ \E t \in sweep.retries : SweepRetry(t)
    \/ \E d \in Deliveries : SweepEmit(d) \/ SweepCall(d)

Environment ==
    \/ \E d \in Deliveries :
          \/ \E result \in Finished : FinishTask(d, result)
          \/ RetryFallsDue(d)
    \/ \E r \in Routes : DrainFallsDue(r)
    \/ ShutdownFallsDue

Next ==
    \/ Command
    \/ Dispatch
    \/ EndPrelude
    \/ Join
    \/ ProcessDeadlines
    \/ Sweep
    \/ Environment
    \/ Crash
    \/ Start

Spec == Init /\ [][Next]_vars

-----------------------------------------------------------------------------
(* Safety *)

(* Transport work really running, in either lane, stays within the limits   *)
(* and belongs to a delivery still held: nothing goes on sending for a      *)
(* delivery whose outcome is decided.  Conversely whatever is held in       *)
(* flight has a task left to join, so it cannot hang.  The limit of a route *)
(* is kept while no identifier is admitted twice: take_fair_ready looks at  *)
(* the limit of the route whose queue it reads, and an entry left there by  *)
(* an ended delivery may name one that was admitted again on another route  *)
(* (runtime.rs:668-856, 1341-1383).                                         *)
TasksOwned ==
    /\ \A d \in Deliveries :
          /\ attempts[d] = "running" => d \in Active /\ active[d].abort
          /\ calls[d] = "running" => d \in ActiveCalls /\ active_calls[d].abort
          /\ (d \in Active /\ active[d].abort) =>
                attempts[d] \in {"running"} \cup Finished \/ phase = "sweep"
          /\ (d \in ActiveCalls /\ active_calls[d].abort) =>
                calls[d] \in {"running"} \cup Finished \/ phase = "sweep"
    /\ Cardinality({d \in Deliveries : attempts[d] = "running"}) <= GlobalInFlight
    /\ Cardinality({d \in Deliveries : calls[d] = "running"}) <= CallInFlight
    /\ (\A d \in Deliveries : admissions[d] <= 1) =>
          \A r \in Routes :
             Cardinality({d \in Deliveries : /\ attempts[d] = "running"
                                             /\ OnRoute(active[d], r)})
                <= RouteInFlight

Queued(d, r) == \E i \in DOMAIN ready[r] : ready[r][i] = d

(* A held delivery that is not in flight will be looked at again: it is in  *)
(* its route's queue or has a live entry in the retry heap, and a route is  *)
(* in the rotation, once, exactly while its queue is not empty.  Stale      *)
(* queue and heap entries of ended deliveries never break this              *)
(* (runtime.rs:677-711, 1079-1096, 1385-1391, 1445-1456).                   *)
NeverStranded ==
    /\ \A d \in Active :
          LET r == active[d].route IN
          /\ active[d].state = "ready" => Queued(d, r)
          /\ active[d].state = "waiting" =>
                \/ active[d].due /\ Queued(d, r)
                \/ \E t \in retries : t.delivery = d /\ ValidRetry(t)
    /\ \A r \in Routes :
          Cardinality({i \in DOMAIN ready_routes : ready_routes[i] = r})
             = One(ready[r] # <<>>)

(* A route that is draining is closed, a route that has work is registered, *)
(* and a drain that is still waiting has something to wait for              *)
(* (runtime.rs:642-666, 1416-1437).                                         *)
DrainsSound ==
    /\ \A d \in Active : registry[active[d].route] # "absent"
    /\ \A d \in ActiveCalls : registry[active_calls[d].route] # "absent"
    /\ \A r \in Routes : drains[r] # NoDrain =>
          /\ registry[r] = "disabled"
          /\ ~stopping
          /\ phase = "select" =>
                \E d \in Deliveries :
                   OnRoute(active[d], r) \/ OnRoute(active_calls[d], r)

-----------------------------------------------------------------------------
(* What a step may never do *)

(* unregister_route and disable_route report success only when the route    *)
(* has no work left in either lane (runtime.rs:654-659, 1416-1431).         *)
DrainedWhenDone ==
    [][ \A r \in Routes :
          ( /\ Continuing
            /\ ~stopping'
            /\ \/ registry[r] # "absent" /\ registry'[r] = "absent"
               \/ drains[r] # NoDrain /\ drains'[r] = NoDrain )
          => \A d \in Deliveries :
                ~OnRoute(active'[d], r) /\ ~OnRoute(active_calls'[d], r) ]_vars

(* Round robin: a route that was just served and has more to send stands    *)
(* behind every other route that could have been served, so a route with a  *)
(* long queue cannot keep the others waiting (runtime.rs:677-711).          *)
FairRotation ==
    [][ \A i, k \in DOMAIN ready_routes :
          ( /\ phase = "dispatch"
            /\ sent' # sent
            /\ \A h \in 1 .. i - 1 : ~Serves(h)
            /\ Serves(i)
            /\ k # i
            /\ Serves(k) )
          => \E m \in DOMAIN ready_routes' :
                /\ ready_routes'[m] = ready_routes[k]
                /\ \A n \in DOMAIN ready_routes' :
                      ready_routes'[n] = ready_routes[i] => m < n ]_vars

-----------------------------------------------------------------------------
(* Liveness *)

(* The engine's own loops run on (weak fairness).  tokio::select! polls its *)
(* branches in random order, so a deadline that has passed is met however   *)
(* many commands arrive (strong fairness); and deadlines pass, in the model *)
(* only while the engine is suspended, which it is again and again.         *)
Fairness ==
    /\ WF_vars(Dispatch)
    /\ WF_vars(EndPrelude)
    /\ WF_vars(Sweep)
    /\ SF_vars(ProcessDeadlines)
    /\ SF_vars(ShutdownFallsDue)
    /\ \A r \in Routes : SF_vars(DrainFallsDue(r))

FairSpec == Spec /\ Fairness

(* A host blocked in disable_route, in unregister_route or in the shutdown  *)
(* is answered even if no attempt and no call ever ends: the drain's and    *)
(* the shutdown's deadlines end them                                        *)
(* (runtime.rs:421-475, 642-666, 1098-1130, 1416-1437).                     *)
HostsAnswered ==
    /\ \A r \in Routes : drains[r] # NoDrain ~> drains[r] = NoDrain
    /\ stopping ~> phase \in {"stopped", "down"}

(* Every attempt ends by its request timeout (attempt.rs:83-97), a retry    *)
(* falls due, and select! takes what has finished.                          *)
AttemptsEnd == SF_vars(Join) /\ SF_vars(Environment)

(* Where attempts end, whatever the engine accepts it lets go of: backoff,  *)
(* queues behind busy routes, drains and the shutdown deadline all come to  *)
(* an end while the host goes on sending commands (runtime.rs:421-475).     *)
EveryDeliveryEnds ==
    AttemptsEnd =>
       \A d \in Deliveries :
          d \in Active \cup ActiveCalls ~> d \notin Active \cup ActiveCalls
=============================================================================
