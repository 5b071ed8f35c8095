------------------------- MODULE EgressLoop_proofs --------------------------
(***************************************************************************)
(* One step of the engine's loop, from the types of its state: what it     *)
(* does to routes and drains, to tasks, to the queues, the rotation and    *)
(* the retry heap.  EgressRuntime_proofs puts the facts together with what *)
(* EgressDeliveries_proofs shows of the deliveries.                        *)
(***************************************************************************)
EXTENDS EgressRuntime, TLAPS

(* The state of EgressRuntime that EgressDeliveries does not have. *)
EngineOK ==
    /\ registry \in [Routes -> {"absent", "enabled", "disabled"}]
    /\ drains \in [Routes -> Drains \cup {NoDrain}]
    /\ ready \in [Routes -> Seq(Deliveries)]
    /\ ready_routes \in Seq(Routes)
    /\ retries \subseteq RetryEntries
    /\ stopping \in BOOLEAN
    /\ shutdown_deadline \in {"none", "armed", "passed"}
    /\ sweep \in Sweeps
    /\ starts \in Nat

(* A loop over deliveries goes over what is held, and an entry it takes     *)
(* from the retry heap is due or stale.                                     *)
SweepHeld ==
    /\ phase # "sweep" => sweep = NoSweep
    /\ sweep.emits \subseteq Active
    /\ sweep.calls \subseteq ActiveCalls
    /\ sweep.event = "none" => sweep.emits = {} /\ sweep.calls = {}
    /\ \A t \in sweep.retries : ValidRetry(t) => active[t.delivery].due

EngineInv == DeliveriesOK /\ EngineOK /\ SweepHeld

-----------------------------------------------------------------------------
(* The engine implements EgressDeliveries *)

(* A step that looks at routes, deadlines and queues only. *)
Quiet ==
    \/ \E r \in Routes :
          \/ \E state \in {"enabled", "disabled"} : Register(r, state)
          \/ Enable(r)
          \/ \E remove \in BOOLEAN : BeginDrain(r, remove)
          \/ DrainFallsDue(r)
    \/ Stop \/ EndPrelude \/ ProcessDeadlines \/ ShutdownFallsDue
    \/ \E t \in sweep.retries : SweepRetry(t)

(* Nothing happens to a delivery in it. *)
LEMMA QuietDeliveries ==
    ASSUME Quiet
    PROVE  Run /\ UNCHANGED deliveries
  <1> USE DEF Run, Running, Phases, CommandReady
  <1>1. ASSUME NEW r \in Routes, NEW state, Register(r, state) PROVE Run /\ UNCHANGED deliveries
    BY Zenon, <1>1 DEF Register
  <1>2. ASSUME NEW r \in Routes, Enable(r) PROVE Run /\ UNCHANGED deliveries
    BY Zenon, <1>2 DEF Enable
  <1>3. ASSUME NEW r \in Routes, NEW remove, BeginDrain(r, remove)
        PROVE  Run /\ UNCHANGED deliveries
    BY Zenon, <1>3 DEF BeginDrain
  <1>4. ASSUME NEW r \in Routes, DrainFallsDue(r) PROVE Run /\ UNCHANGED deliveries
    BY Zenon, <1>4 DEF DrainFallsDue, loop
  <1>5. CASE Stop
    BY Zenon, <1>5 DEF Stop
  <1>6. CASE EndPrelude
    BY Zenon, <1>6 DEF EndPrelude
  <1>7. CASE ProcessDeadlines
    BY Zenon, <1>7 DEF ProcessDeadlines, Continue
  <1>8. CASE ShutdownFallsDue
    BY Zenon, <1>8 DEF ShutdownFallsDue, loop
  <1>9. ASSUME NEW t, SweepRetry(t) PROVE Run /\ UNCHANGED deliveries
    BY Zenon, <1>9 DEF SweepRetry, Continue
  <1> QED BY Zenon, <1>1, <1>2, <1>3, <1>4, <1>5, <1>6, <1>7, <1>8, <1>9
          DEF Quiet

(* A handler that does something to a delivery. *)
Handles(d) ==
    \/ \E r \in Routes : Emit(r, d) \/ Call(r, d)
    \/ JoinStaleAttempt(d) \/ JoinPanickedAttempt(d) \/ CompleteAttempt(d)
    \/ JoinStaleCall(d) \/ JoinPanickedCall(d) \/ CompleteCall(d)
    \/ SweepEmit(d) \/ SweepCall(d)
    \/ \E result \in Finished : FinishTask(d, result)
    \/ RetryFallsDue(d)

(* Whatever it is, it is a step of EgressDeliveries. *)
LEMMA HandledDeliveries ==
    ASSUME EngineOK, SweepHeld, NEW d \in Deliveries, Handles(d)
    PROVE  Run /\ DeliveryStep(d)
  <1> USE DEF Run, Running, Phases, CommandReady
  <1>1. ASSUME NEW r \in Routes, Emit(r, d) PROVE Run /\ DeliveryStep(d)
    BY Zenon, <1>1 DEF Emit, loop, DeliveryStep
  <1>2. ASSUME NEW r \in Routes, Call(r, d) PROVE Run /\ DeliveryStep(d)
    BY Zenon, <1>2 DEF Call, loop, DeliveryStep
  <1>3. CASE JoinStaleAttempt(d) \/ JoinPanickedAttempt(d)
    BY Zenon, <1>3 DEF JoinStaleAttempt, JoinPanickedAttempt, Continue, DeliveryStep
  <1>4. CASE JoinStaleCall(d) \/ JoinPanickedCall(d)
    BY Zenon, <1>4 DEF JoinStaleCall, JoinPanickedCall, Continue, DeliveryStep
  <1>5. CASE CompleteAttempt(d)
    BY Zenon, <1>5 DEF CompleteAttempt, DeliveryStep
  <1>6. CASE CompleteCall(d)
    BY Zenon, <1>6 DEF CompleteCall, DeliveryStep
  <1>7. sweep.event # "none" => sweep.event \in {"failed", "cancel", "shutdown"}
    BY Zenon DEF EngineOK, Sweeps
  <1>8. CASE SweepEmit(d)
    <2>1. active[d] # NoDelivery /\ sweep.event # "none"
      BY Zenon, <1>8 DEF SweepEmit, SweepHeld, Active
    <2> QED BY Zenon, <1>7, <1>8, <2>1 DEF SweepEmit, Continue, DeliveryStep
  <1>9. CASE SweepCall(d)
    <2>1. active_calls[d] # NoDelivery /\ sweep.event # "none"
      BY Zenon, <1>9 DEF SweepCall, SweepHeld, ActiveCalls
    <2> QED BY Zenon, <1>7, <1>9, <2>1 DEF SweepCall, Continue, DeliveryStep
  <1>10. ASSUME NEW result \in Finished, FinishTask(d, result) PROVE Run /\ DeliveryStep(d)
    BY Zenon, <1>10 DEF FinishTask, loop, DeliveryStep
  <1>11. CASE RetryFallsDue(d)
    BY Zenon, <1>11 DEF RetryFallsDue, loop, DeliveryStep
  <1> QED BY Zenon, <1>1, <1>2, <1>3, <1>4, <1>5, <1>6, <1>8, <1>9, <1>10, <1>11 DEF Handles

(* What take_fair_ready chooses. *)
LEMMA DispatchChoice ==
    ASSUME EngineOK, Dispatch
    PROVE  \E i \in 1 .. Len(ready_routes) :
              /\ ready_routes[i] \in Routes
              /\ ready[ready_routes[i]] \in Seq(Deliveries)
              /\ \E j \in 1 .. Len(ready[ready_routes[i]]) :
                    /\ ready[ready_routes[i]][j] \in Deliveries
                    /\ FairChoice(i, j)
                    /\ TakeFairReady(i, j)
                    /\ Serve(ready[ready_routes[i]][j])
  <1>1. PICK i \in DOMAIN ready_routes : \E j \in DOMAIN ready[ready_routes[i]] :
           /\ FairChoice(i, j)
           /\ TakeFairReady(i, j)
           /\ Serve(ready[ready_routes[i]][j])
    BY Zenon DEF Dispatch
  <1>2. PICK j \in DOMAIN ready[ready_routes[i]] :
           /\ FairChoice(i, j)
           /\ TakeFairReady(i, j)
           /\ Serve(ready[ready_routes[i]][j])
    BY Zenon, <1>1
  <1>3. i \in 1 .. Len(ready_routes) /\ ready_routes[i] \in Routes
    BY DEF EngineOK
  <1>4. ready[ready_routes[i]] \in Seq(Deliveries)
    BY Zenon, <1>3 DEF EngineOK
  <1>5. /\ j \in 1 .. Len(ready[ready_routes[i]])
        /\ ready[ready_routes[i]][j] \in Deliveries
    BY <1>4
  <1> QED BY Zenon, <1>2, <1>3, <1>4, <1>5

(* One pass of the loop in dispatch_ready. *)
LEMMA DispatchDeliveries ==
    ASSUME EngineOK, Dispatch
    PROVE  Run /\ phase' = phase /\ \E d \in Deliveries : Serve(d)
  <1>1. \E d \in Deliveries : Serve(d)
    BY Zenon, DispatchChoice
  <1>2. phase = "dispatch" /\ phase' = phase
    BY Zenon DEF Dispatch, loop
  <1> QED BY Zenon, <1>1, <1>2 DEF Run, Running, Phases, DeliveryStep

(* The kinds of steps. *)
LEMMA StepKinds ==
    [Next]_vars => \/ Quiet
                   \/ \E d \in Deliveries : Handles(d)
                   \/ Dispatch
                   \/ Crash \/ Start
                   \/ UNCHANGED vars
  BY Zenon DEF Next, Command, Join, Sweep, Environment, Quiet, Handles

(* Every step of the engine is one of its deliveries. *)
LEMMA EngineStep ==
    ASSUME EngineOK, SweepHeld, [Next]_vars
    PROVE  [DeliveriesNext]_<<deliveries, phase>>
  <1>1. CASE Quiet
    BY Zenon, <1>1, QuietDeliveries DEF DeliveriesNext
  <1>2. CASE \E d \in Deliveries : Handles(d)
    BY Zenon, <1>2, HandledDeliveries DEF DeliveriesNext
  <1>3. CASE Dispatch
    BY Zenon, <1>3, DispatchDeliveries DEF DeliveriesNext
  <1>4. CASE Crash \/ Start
    BY Zenon, <1>4 DEF Crash, Start, DeliveriesNext
  <1>5. CASE UNCHANGED vars
    BY Zenon, <1>5 DEF vars, loop
  <1> QED BY Zenon, <1>1, <1>2, <1>3, <1>4, <1>5, StepKinds

-----------------------------------------------------------------------------
(* Types *)

(* A loop over deliveries that begins or goes on. *)
LEMMA ContinueType ==
    ASSUME NEW rest \in Sweeps, Continue(rest)
    PROVE  sweep' \in Sweeps
  BY Zenon DEF Continue, Sweeps, NoSweep

(* enqueue_ready *)
LEMMA EnqueueType ==
    ASSUME EngineOK, NEW r \in Routes, NEW d \in Deliveries, EnqueueReady(r, d)
    PROVE  ready' \in [Routes -> Seq(Deliveries)] /\ ready_routes' \in Seq(Routes)
  BY DEF EngineOK, EnqueueReady

(* The routes passed over are routes. *)
LEMMA PassedType ==
    ASSUME NEW s \in Seq(Routes), NEW passed \in Passed(s)
    PROVE  passed \in Seq(Routes)
  <1>1. PICK n \in 0 .. Len(s) : passed \in [1 .. n -> Routes]
    BY DEF Passed
  <1> QED BY <1>1

(* A part of a sequence. *)
LEMMA PartType ==
    ASSUME NEW S, NEW s \in Seq(S), NEW m \in 1 .. Len(s) + 1, NEW n \in 0 .. Len(s)
    PROVE  /\ SubSeq(s, m, n) \in Seq(S)
           /\ Len(SubSeq(s, m, n)) = IF m <= n THEN n - m + 1 ELSE 0
           /\ \A k \in 1 .. Len(SubSeq(s, m, n)) : SubSeq(s, m, n)[k] = s[m + k - 1]
  <1>1. \A k \in m .. n : s[k] \in S
    OBVIOUS
  <1> QED BY <1>1

(* take_fair_ready moves routes and drops queue entries, no more. *)
LEMMA TakeFairReadyType ==
    ASSUME EngineOK, NEW i \in 1 .. Len(ready_routes), ready_routes[i] \in Routes,
           ready[ready_routes[i]] \in Seq(Deliveries),
           NEW j \in 1 .. Len(ready[ready_routes[i]]), TakeFairReady(i, j)
    PROVE  /\ ready' \in [Routes -> Seq(Deliveries)]
           /\ ready_routes' \in Seq(Routes)
  <1> DEFINE r == ready_routes[i]
             queue == ready[r]
             rest == SubSeq(queue, j + 1, Len(queue))
  <1>1. ready_routes \in Seq(Routes)
    BY DEF EngineOK
  <1>2. rest \in Seq(Deliveries)
    BY PartType
  <1>3. SubSeq(ready_routes, 1, i - 1) \in Seq(Routes)
    BY <1>1, PartType
  <1>4. SubSeq(ready_routes, i + 1, Len(ready_routes)) \in Seq(Routes)
    BY <1>1, PartType
  <1>5. ready' \in [Routes -> Seq(Deliveries)]
    <2>1. << >> \in Seq(Deliveries)
      OBVIOUS
    <2> HIDE DEF rest
    <2>2. PICK dropped : ready' = [q \in Routes |-> IF q = r THEN rest
                                     ELSE IF q \in dropped THEN <<>> ELSE ready[q]]
      BY Zenon DEF TakeFairReady, rest
    <2>3. \A q \in Routes : (IF q = r THEN rest ELSE IF q \in dropped THEN <<>> ELSE ready[q])
                               \in Seq(Deliveries)
      BY Zenon, <1>2, <2>1 DEF EngineOK
    <2> QED BY Zenon, <2>2, <2>3
  <1>6. ready_routes' \in Seq(Routes)
    <2>1. PICK passed \in Passed(SubSeq(ready_routes, 1, i - 1)) :
             ready_routes' = SubSeq(ready_routes, i + 1, Len(ready_routes))
                             \o passed \o (IF rest = <<>> THEN <<>> ELSE <<r>>)
      BY Zenon DEF TakeFairReady
    <2>2. passed \in Seq(Routes)
      BY Zenon, <1>3, PassedType
    <2>3. (IF rest = <<>> THEN <<>> ELSE <<r>>) \in Seq(Routes)
      OBVIOUS
    <2> HIDE DEF rest
    <2> QED BY <1>4, <2>1, <2>2, <2>3
  <1> QED BY <1>5, <1>6

(* Engine::new builds a well-typed engine. *)
LEMMA EngineInit == Init => EngineOK /\ SweepHeld
  <1> SUFFICES ASSUME Init PROVE EngineOK /\ SweepHeld
    OBVIOUS
  <1>1. NoSweep \in Sweeps /\ NoSweep.emits = {} /\ NoSweep.calls = {} /\ NoSweep.retries = {}
    BY DEF NoSweep, Sweeps
  <1>2. ready \in [Routes -> Seq(Deliveries)] /\ ready_routes \in Seq(Routes)
    BY DEF Init
  <1>3. starts \in Nat
    BY DEF Init
  <1>4. EngineOK
    BY Zenon, <1>1, <1>2, <1>3 DEF Init, EngineOK
  <1> QED BY Zenon, <1>1, <1>4 DEF Init, SweepHeld

(* Commands on routes, and the start of a shutdown. *)
LEMMA RoutingType ==
    ASSUME EngineOK, NEW r \in Routes, NEW state \in {"enabled", "disabled"},
           NEW remove \in BOOLEAN,
           Register(r, state) \/ Enable(r) \/ BeginDrain(r, remove) \/ DrainFallsDue(r) \/ Stop
    PROVE  EngineOK'
  <1> USE DEF queues, control, loop
  <1>1. CASE Register(r, state) \/ Enable(r)
    <2>1. registry' \in [Routes -> {"absent", "enabled", "disabled"}]
      BY Zenon, <1>1 DEF EngineOK, Register, Enable
    <2>2. UNCHANGED <<drains, ready, ready_routes, retries, stopping, shutdown_deadline,
                      starts, sweep>>
      BY Zenon, <1>1 DEF Register, Enable
    <2> QED BY Zenon, <2>1, <2>2 DEF EngineOK
  <1>2. CASE BeginDrain(r, remove)
    <2>1. [remove |-> remove, deadline |-> "armed"] \in Drains
      BY Zenon DEF Drains
    <2>2. drains' \in [Routes -> Drains \cup {NoDrain}]
      BY <1>2, <2>1 DEF BeginDrain, EngineOK
    <2>3. registry' \in [Routes -> {"absent", "enabled", "disabled"}]
      BY <1>2 DEF EngineOK, BeginDrain
    <2> QED BY Zenon, <1>2, <2>2, <2>3 DEF EngineOK, BeginDrain
  <1>3. CASE DrainFallsDue(r)
    <2>1. drains[r] \in Drains
      <3>1. drains[r] \in Drains \cup {NoDrain} /\ drains[r].deadline = "armed"
        BY Zenon, <1>3 DEF DrainFallsDue, EngineOK
      <3> QED BY <3>1 DEF NoDrain
    <2>2. [drains[r] EXCEPT !.deadline = "passed"] \in Drains
      BY Zenon, <2>1 DEF Drains
    <2>3. drains' \in [Routes -> Drains \cup {NoDrain}]
      BY Zenon, <1>3, <2>2 DEF DrainFallsDue, EngineOK
    <2> QED BY Zenon, <1>3, <2>3 DEF EngineOK, DrainFallsDue
  <1>4. CASE Stop
    <2>1. drains' \in [Routes -> Drains \cup {NoDrain}]
      BY Zenon, <1>4 DEF Stop
    <2> QED BY Zenon, <1>4, <2>1 DEF EngineOK, Stop
  <1> QED BY Zenon, <1>1, <1>2, <1>3, <1>4

(* The end of the prelude. *)
LEMMA EndPreludeType ==
    ASSUME EngineOK, EndPrelude
    PROVE  EngineOK'
  <1> USE DEF control
  <1>1. registry' \in [Routes -> {"absent", "enabled", "disabled"}]
    BY Zenon DEF EngineOK, EndPrelude, CompleteEmptyDrains
  <1>2. drains' \in [Routes -> Drains \cup {NoDrain}]
    BY Zenon DEF EngineOK, EndPrelude, CompleteEmptyDrains
  <1>3. retries' \subseteq RetryEntries
    BY Zenon DEF EngineOK, EndPrelude, DiscardStaleRetries
  <1>4. ready' \in [Routes -> Seq(Deliveries)]
    <2>1. << >> \in Seq(Deliveries)
      OBVIOUS
    <2> QED BY Zenon, <2>1 DEF EngineOK, EndPrelude, queues
  <1>5. ready_routes' \in Seq(Routes)
    BY Zenon, PassedType DEF EngineOK, EndPrelude, queues
  <1> QED BY Zenon, <1>1, <1>2, <1>3, <1>4, <1>5 DEF EngineOK, EndPrelude

(* Deadlines and the loop over retries. *)
LEMMA DeadlineType ==
    ASSUME DeliveriesOK, EngineOK,
           \/ ProcessDeadlines \/ ShutdownFallsDue
           \/ \E t \in sweep.retries : SweepRetry(t)
    PROVE  EngineOK'
  <1> USE DEF routing, queues, control, loop
  <1>1. CASE ProcessDeadlines
    <2>1. \A event \in {"shutdown", "cancel"}, due \in SUBSET RetryEntries,
             emits \in SUBSET Deliveries, rest \in SUBSET Deliveries :
                [retries |-> due, emits |-> emits, calls |-> rest, event |-> event] \in Sweeps
      BY Zenon DEF Sweeps
    <2>2. DueRetries \subseteq RetryEntries /\ StaleRetries \subseteq RetryEntries
      BY Zenon DEF EngineOK, DueRetries, StaleRetries
    <2>3. PICK rest \in Sweeps : Continue(rest)
      <3> DEFINE expires(held) == shutdown_deadline = "passed" \/ held.route \in ExpiredDrains
                 emits == {d \in Active : expires(active[d])}
                 cut == {d \in ActiveCalls : expires(active_calls[d])}
                 event == IF shutdown_deadline = "passed" THEN "shutdown" ELSE "cancel"
      <3>1. PICK stale \in SUBSET StaleRetries :
               Continue([retries |-> DueRetries \cup stale, emits |-> emits,
                         calls |-> cut, event |-> event])
        BY Zenon, <1>1 DEF ProcessDeadlines
      <3>2. /\ DueRetries \cup stale \in SUBSET RetryEntries
            /\ emits \in SUBSET Deliveries /\ cut \in SUBSET Deliveries
            /\ event \in {"shutdown", "cancel"}
        BY Zenon, <2>2 DEF Active, ActiveCalls
      <3> HIDE DEF emits, cut, event
      <3> QED BY Zenon, <2>1, <3>1, <3>2
    <2>4. sweep' \in Sweeps
      BY Zenon, <2>3, ContinueType
    <2> QED BY Zenon, <1>1, <2>4 DEF EngineOK, ProcessDeadlines
  <1>2. CASE ShutdownFallsDue
    BY Zenon, <1>2 DEF EngineOK, ShutdownFallsDue
  <1>3. ASSUME NEW t \in sweep.retries, SweepRetry(t) PROVE EngineOK'
    <2>1. sweep \in Sweeps /\ t.delivery \in Deliveries
      BY DEF EngineOK, Sweeps, RetryEntries
    <2>2. [sweep EXCEPT !.retries = @ \ {t}] \in Sweeps
      BY Zenon, <2>1 DEF Sweeps
    <2>3. sweep' \in Sweeps
      BY Zenon, <1>3, <2>2, ContinueType DEF SweepRetry
    <2>4. ready' \in [Routes -> Seq(Deliveries)] /\ ready_routes' \in Seq(Routes)
      <3>1. CASE ValidRetry(t)
        <4>1. active[t.delivery].route \in Routes
          BY Zenon, <2>1, <3>1 DEF ValidRetry, DeliveriesOK, Held
        <4> QED BY Zenon, <1>3, <2>1, <3>1, <4>1, EnqueueType DEF SweepRetry
      <3>2. CASE ~ValidRetry(t)
        BY Zenon, <1>3, <3>2 DEF SweepRetry, EngineOK
      <3> QED BY Zenon, <3>1, <3>2
    <2>5. retries' \subseteq RetryEntries
      BY Zenon, <1>3 DEF SweepRetry, EngineOK
    <2> QED BY Zenon, <1>3, <2>3, <2>4, <2>5 DEF EngineOK, SweepRetry
  <1> QED BY Zenon, <1>1, <1>2, <1>3

(* Everything done to a delivery. *)
LEMMA HandledType ==
    ASSUME DeliveriesOK, EngineOK, NEW d \in Deliveries, Handles(d)
    PROVE  EngineOK'
  <1> USE DEF routing, queues, control, loop
  <1>1. ASSUME NEW r \in Routes, Emit(r, d) PROVE EngineOK'
    <2>1. ready' \in [Routes -> Seq(Deliveries)] /\ ready_routes' \in Seq(Routes)
      BY Zenon, <1>1, EnqueueType DEF Emit, EngineOK
    <2> QED BY Zenon, <1>1, <2>1 DEF Emit, EngineOK
  <1>2. ASSUME NEW r \in Routes, Call(r, d) PROVE EngineOK'
    BY Zenon, <1>2 DEF Call, EngineOK
  <1>3. CASE JoinStaleAttempt(d) \/ JoinStaleCall(d) \/ CompleteCall(d)
    <2>1. UNCHANGED <<routing, queues, retries, control, sweep>>
      BY Zenon, <1>3 DEF JoinStaleAttempt, JoinStaleCall, CompleteCall
    <2> QED BY Zenon, <2>1 DEF EngineOK
  <1>4. CASE JoinPanickedAttempt(d) \/ JoinPanickedCall(d)
    <2>1. \A S \in SUBSET Deliveries :
             /\ [NoSweep EXCEPT !.event = "failed", !.emits = S] \in Sweeps
             /\ [NoSweep EXCEPT !.event = "failed", !.calls = S] \in Sweeps
      BY Zenon DEF NoSweep, Sweeps
    <2>2. InFlight \in SUBSET Deliveries /\ CallsInFlight \in SUBSET Deliveries
      BY Zenon DEF InFlight, CallsInFlight, Active, ActiveCalls
    <2>3. sweep' \in Sweeps
      BY Zenon, <1>4, <2>1, <2>2, ContinueType DEF JoinPanickedAttempt, JoinPanickedCall
    <2>4. UNCHANGED <<routing, queues, retries, control>>
      BY Zenon, <1>4 DEF JoinPanickedAttempt, JoinPanickedCall
    <2> QED BY Zenon, <2>3, <2>4 DEF EngineOK
  <1>5. CASE CompleteAttempt(d)
    <2>1. retries' \subseteq RetryEntries
      <3>1. CASE RetryAttempt(d)
        <4>1. active[d].inc \in Nat /\ active[d].attempts \in Nat
          BY Zenon, <3>1 DEF RetryAttempt, AttemptEnded, DeliveriesOK, Held
        <4>2. RetryEntry(d) \in RetryEntries
          BY Zenon, <4>1 DEF RetryEntry, RetryEntries
        <4>3. retries' = retries \cup {RetryEntry(d)} \/ retries' = retries
          BY Zenon, <1>5 DEF CompleteAttempt
        <4> QED BY Zenon, <4>2, <4>3 DEF EngineOK
      <3>2. CASE ~RetryAttempt(d)
        BY Zenon, <1>5, <3>2 DEF CompleteAttempt, EngineOK
      <3> QED BY Zenon, <3>1, <3>2
    <2> QED BY Zenon, <1>5, <2>1 DEF CompleteAttempt, EngineOK
  <1>6. CASE SweepEmit(d) \/ SweepCall(d)
    <2>1. /\ [sweep EXCEPT !.emits = @ \ {d}] \in Sweeps
          /\ [sweep EXCEPT !.calls = @ \ {d}] \in Sweeps
      BY Zenon DEF EngineOK, Sweeps
    <2>2. sweep' \in Sweeps
      BY Zenon, <1>6, <2>1, ContinueType DEF SweepEmit, SweepCall
    <2>3. UNCHANGED <<routing, queues, retries, control>>
      BY Zenon, <1>6 DEF SweepEmit, SweepCall
    <2> QED BY Zenon, <2>2, <2>3 DEF EngineOK
  <1>7. ASSUME NEW result, FinishTask(d, result) PROVE EngineOK'
    BY Zenon, <1>7 DEF FinishTask, EngineOK
  <1>8. CASE RetryFallsDue(d)
    BY Zenon, <1>8 DEF RetryFallsDue, EngineOK
  <1> QED BY Zenon, <1>1, <1>2, <1>3, <1>4, <1>5, <1>6, <1>7, <1>8 DEF Handles

(* Every step keeps the types. *)
LEMMA EngineType ==
    ASSUME DeliveriesOK, EngineOK, [Next]_vars
    PROVE  EngineOK'
  <1>1. CASE Quiet
    <2>1. "enabled" \in {"enabled", "disabled"} /\ TRUE \in BOOLEAN
      OBVIOUS
    <2>2. CASE Stop
      <3>1. CASE Routes = {}
        BY <2>2, <3>1 DEF Stop, EngineOK, queues
      <3> QED BY Zenon, <2>1, <2>2, <3>1, RoutingType
    <2> QED BY Zenon, <1>1, <2>1, <2>2, RoutingType, EndPreludeType, DeadlineType DEF Quiet
  <1>2. CASE \E d \in Deliveries : Handles(d)
    BY Zenon, <1>2, HandledType
  <1>3. CASE Dispatch
    <2>1. ready' \in [Routes -> Seq(Deliveries)] /\ ready_routes' \in Seq(Routes)
      BY Zenon, <1>3, DispatchChoice, TakeFairReadyType
    <2> QED BY Zenon, <1>3, <2>1 DEF Dispatch, EngineOK, routing, control, loop
  <1>4. CASE Crash \/ Start
    <2>1. NoSweep \in Sweeps
      BY DEF NoSweep, Sweeps
    <2>2. starts' \in Nat
      BY <1>4 DEF Crash, Start, EngineOK
    <2>3. FreshEngine
      BY Zenon, <1>4 DEF Crash, Start
    <2>4. ready' \in [Routes -> Seq(Deliveries)] /\ ready_routes' \in Seq(Routes)
      BY <2>3 DEF FreshEngine
    <2> QED BY Zenon, <2>1, <2>2, <2>3, <2>4 DEF FreshEngine, EngineOK
  <1>5. CASE UNCHANGED vars
    BY Zenon, <1>5 DEF vars, routing, queues, control, loop, EngineOK
  <1> QED BY Zenon, <1>1, <1>2, <1>3, <1>4, <1>5, StepKinds

-----------------------------------------------------------------------------
(* The loops over deliveries *)

(* No loop is left. *)
LEMMA Unswept ==
    ASSUME sweep' = NoSweep
    PROVE  SweepHeld'
  <1>1. NoSweep.emits = {} /\ NoSweep.calls = {} /\ NoSweep.retries = {}
    BY DEF NoSweep
  <1> QED BY Zenon, <1>1 DEF SweepHeld

(* A loop begins, or goes on with what is left of it. *)
LEMMA SweptOn ==
    ASSUME NEW rest, Continue(rest),
           rest.emits \subseteq Active', rest.calls \subseteq ActiveCalls',
           rest.event # "none",
           \A t \in rest.retries : ValidRetry(t)' => active'[t.delivery].due
    PROVE  SweepHeld'
  <1>1. CASE sweep' = NoSweep
    BY Zenon, <1>1, Unswept
  <1>2. CASE sweep' # NoSweep
    <2>1. sweep' = rest /\ phase' = "sweep"
      BY Zenon, <1>2 DEF Continue
    <2> QED BY Zenon, <2>1 DEF SweepHeld
  <1> QED BY Zenon, <1>1, <1>2

(* Steps outside of these loops. *)
LEMMA OutsideSweep ==
    ASSUME SweepHeld,
           \/ Quiet /\ ~ProcessDeadlines /\ phase # "sweep"
           \/ \E d \in Deliveries :
                 \/ \E r \in Routes : Emit(r, d) \/ Call(r, d)
                 \/ JoinStaleAttempt(d) \/ CompleteAttempt(d)
                 \/ JoinStaleCall(d) \/ CompleteCall(d)
                 \/ \E result \in Finished : FinishTask(d, result)
                 \/ RetryFallsDue(d)
           \/ Dispatch
    PROVE  SweepHeld'
  <1>1. phase # "sweep" /\ sweep' = sweep
    <2> USE DEF loop, CommandReady
    <2>1. CASE Quiet /\ ~ProcessDeadlines /\ phase # "sweep"
      BY Zenon, <2>1 DEF Quiet, Register, Enable, BeginDrain, DrainFallsDue, Stop, EndPrelude,
         ShutdownFallsDue, SweepRetry
    <2>2. ASSUME NEW d, NEW r, Emit(r, d) \/ Call(r, d) PROVE phase # "sweep" /\ sweep' = sweep
      BY Zenon, <2>2 DEF Emit, Call
    <2>3. ASSUME NEW d, \/ JoinStaleAttempt(d) \/ CompleteAttempt(d)
                        \/ JoinStaleCall(d) \/ CompleteCall(d)
                        \/ RetryFallsDue(d)
          PROVE  phase # "sweep" /\ sweep' = sweep
      BY Zenon, <2>3 DEF JoinStaleAttempt, CompleteAttempt, JoinStaleCall, CompleteCall,
         RetryFallsDue
    <2>4. ASSUME NEW d, NEW result, FinishTask(d, result) PROVE phase # "sweep" /\ sweep' = sweep
      BY Zenon, <2>4 DEF FinishTask
    <2>5. CASE Dispatch
      BY Zenon, <2>5 DEF Dispatch
    <2> QED BY Zenon, <2>1, <2>2, <2>3, <2>4, <2>5
  <1> QED BY Zenon, <1>1, Unswept DEF SweepHeld

(* A panic begins a loop over what is in flight. *)
LEMMA PanicSweep ==
    ASSUME NEW d \in Deliveries, JoinPanickedAttempt(d) \/ JoinPanickedCall(d)
    PROVE  SweepHeld'
  <1>1. \A S : LET e == [NoSweep EXCEPT !.event = "failed", !.emits = S]
                   c == [NoSweep EXCEPT !.event = "failed", !.calls = S]
               IN /\ e.emits = S /\ e.calls = {} /\ e.retries = {} /\ e.event # "none"
                  /\ c.calls = S /\ c.emits = {} /\ c.retries = {} /\ c.event # "none"
    BY DEF NoSweep
  <1>2. InFlight \subseteq Active' /\ CallsInFlight \subseteq ActiveCalls'
    <2>1. UNCHANGED <<active, active_calls>>
      BY Zenon DEF JoinPanickedAttempt, JoinPanickedCall, DropAttempt, DropCall, lanes
    <2> QED BY Zenon, <2>1 DEF InFlight, CallsInFlight, Active, ActiveCalls
  <1>3. CASE JoinPanickedAttempt(d)
    BY Zenon, <1>1, <1>2, <1>3, SweptOn DEF JoinPanickedAttempt
  <1>4. CASE JoinPanickedCall(d)
    BY ZenonT(60), <1>1, <1>2, <1>4, SweptOn DEF JoinPanickedCall
  <1> QED BY Zenon, <1>3, <1>4

(* The deadlines begin loops over retries, deliveries and calls. *)
LEMMA DeadlineSweep ==
    ASSUME ProcessDeadlines
    PROVE  SweepHeld'
  <1> DEFINE expires(held) == shutdown_deadline = "passed" \/ held.route \in ExpiredDrains
             emits == {d \in Active : expires(active[d])}
             cut == {d \in ActiveCalls : expires(active_calls[d])}
             event == IF shutdown_deadline = "passed" THEN "shutdown" ELSE "cancel"
             rest(stale) == [retries |-> DueRetries \cup stale, emits |-> emits,
                             calls |-> cut, event |-> event]
  <1>1. PICK stale \in SUBSET StaleRetries : Continue(rest(stale))
    BY Zenon DEF ProcessDeadlines
  <1>2. UNCHANGED <<active, active_calls>>
    BY Zenon DEF ProcessDeadlines, deliveries, lanes
  <1>3. emits \subseteq Active' /\ cut \subseteq ActiveCalls' /\ event # "none"
    BY Zenon, <1>2 DEF Active, ActiveCalls
  <1>4. \A t \in DueRetries \cup stale : ValidRetry(t)' => active'[t.delivery].due
    BY Zenon, <1>2 DEF DueRetries, StaleRetries, ValidRetry
  <1>5. /\ rest(stale).emits = emits /\ rest(stale).calls = cut /\ rest(stale).event = event
        /\ rest(stale).retries = DueRetries \cup stale
    BY Zenon
  <1> HIDE DEF emits, cut, event, rest
  <1> QED BY Zenon, <1>1, <1>3, <1>4, <1>5, SweptOn

(* One pass of a loop. *)
LEMMA PassSweep ==
    ASSUME EngineOK, DeliveriesOK, SweepHeld,
           \/ \E t \in sweep.retries : SweepRetry(t)
           \/ \E d \in Deliveries : SweepEmit(d) \/ SweepCall(d)
    PROVE  SweepHeld'
  <1> USE DEF deliveries, lanes
  <1>1. ASSUME NEW t \in sweep.retries, SweepRetry(t) PROVE SweepHeld'
    <2> DEFINE rest == [sweep EXCEPT !.retries = @ \ {t}]
    <2>1. /\ rest.emits = sweep.emits /\ rest.calls = sweep.calls
          /\ rest.event = sweep.event /\ rest.retries = sweep.retries \ {t}
      BY DEF EngineOK, Sweeps
    <2>2. Continue(rest) /\ UNCHANGED <<active, active_calls>>
      BY Zenon, <1>1 DEF SweepRetry
    <2> HIDE DEF rest
    <2>3. CASE sweep' = NoSweep
      BY Zenon, <2>3, Unswept
    <2>4. CASE sweep' # NoSweep
      <3>1. sweep' = rest /\ phase' = "sweep"
        BY Zenon, <2>2, <2>4 DEF Continue
      <3> QED BY Zenon, <2>1, <2>2, <3>1 DEF SweepHeld, Active, ActiveCalls, ValidRetry
    <2> QED BY Zenon, <2>3, <2>4
  <1>2. ASSUME NEW d \in Deliveries, SweepEmit(d) PROVE SweepHeld'
    <2> DEFINE rest == [sweep EXCEPT !.emits = @ \ {d}]
    <2>1. /\ rest.emits = sweep.emits \ {d} /\ rest.calls = sweep.calls
          /\ rest.event = sweep.event /\ rest.retries = sweep.retries
      BY DEF EngineOK, Sweeps
    <2>2. Continue(rest) /\ sweep.retries = {} /\ sweep.event # "none"
      BY Zenon, <1>2 DEF SweepEmit, SweepHeld
    <2>3. active' = [active EXCEPT ![d] = NoDelivery] /\ active_calls' = active_calls
      BY Zenon, <1>2 DEF SweepEmit, CutDelivery, EndDelivery, FinishDelivery
    <2>4. Active \ {d} \subseteq Active' /\ ActiveCalls' = ActiveCalls
      BY <2>3 DEF Active, ActiveCalls, DeliveriesOK
    <2> HIDE DEF rest
    <2> QED BY Zenon, <2>1, <2>2, <2>4, SweptOn DEF SweepHeld
  <1>3. ASSUME NEW d \in Deliveries, SweepCall(d) PROVE SweepHeld'
    <2> DEFINE rest == [sweep EXCEPT !.calls = @ \ {d}]
    <2>1. /\ rest.calls = sweep.calls \ {d} /\ rest.emits = sweep.emits
          /\ rest.event = sweep.event /\ rest.retries = sweep.retries
      BY DEF EngineOK, Sweeps
    <2>2. Continue(rest) /\ sweep.retries = {} /\ sweep.event # "none"
      BY Zenon, <1>3 DEF SweepCall, SweepHeld
    <2>3. active_calls' = [active_calls EXCEPT ![d] = NoDelivery] /\ active' = active
      BY Zenon, <1>3 DEF SweepCall, CutCall, EndCall, FinishCall
    <2>4. ActiveCalls \ {d} \subseteq ActiveCalls' /\ Active' = Active
      BY <2>3 DEF Active, ActiveCalls, DeliveriesOK
    <2> HIDE DEF rest
    <2> QED BY Zenon, <2>1, <2>2, <2>4, SweptOn DEF SweepHeld
  <1> QED BY Zenon, <1>1, <1>2, <1>3

(* Every step keeps to them. *)
LEMMA SweepNext ==
    ASSUME EngineOK, DeliveriesOK, SweepHeld, [Next]_vars
    PROVE  SweepHeld'
  <1>1. CASE Quiet
    <2>1. CASE ProcessDeadlines
      BY Zenon, <2>1, DeadlineSweep
    <2>2. CASE \E t \in sweep.retries : SweepRetry(t)
      BY Zenon, <2>2, PassSweep
    <2>3. CASE phase # "sweep" /\ ~ProcessDeadlines
      BY Zenon, <1>1, <2>3, OutsideSweep
    <2>4. phase # "sweep" \/ \E t \in sweep.retries : SweepRetry(t)
      BY Zenon, <1>1 DEF Quiet, Register, Enable, BeginDrain, DrainFallsDue, Stop, EndPrelude,
         ShutdownFallsDue, ProcessDeadlines, CommandReady
    <2> QED BY Zenon, <2>1, <2>2, <2>3, <2>4
  <1>2. CASE \E d \in Deliveries : Handles(d)
    BY Zenon, <1>2, OutsideSweep, PanicSweep, PassSweep DEF Handles
  <1>3. CASE Dispatch
    BY Zenon, <1>3, OutsideSweep
  <1>4. CASE Crash \/ Start
    BY Zenon, <1>4, Unswept DEF Crash, Start, FreshEngine
  <1>5. CASE UNCHANGED vars
    <2>1. UNCHANGED <<active, active_calls, phase, sweep>>
      BY Zenon, <1>5 DEF vars, loop, deliveries, lanes
    <2> QED BY Zenon, <2>1 DEF SweepHeld, Active, ActiveCalls, ValidRetry
  <1> QED BY Zenon, <1>1, <1>2, <1>3, <1>4, <1>5, StepKinds

-----------------------------------------------------------------------------
(* What the operations of EgressDeliveries do to one delivery *)

Unmoved(e) ==
    /\ active'[e] = active[e] /\ active_calls'[e] = active_calls[e]
    /\ attempts'[e] = attempts[e] /\ calls'[e] = calls[e]

(* An operation on one delivery leaves the others alone. *)
LEMMA OthersSame ==
    ASSUME DeliveriesOK, NEW d \in Deliveries, DeliveryStep(d)
    PROVE  \A e \in Deliveries \ {d} : Unmoved(e)
  <1>0. /\ attempts \in [Deliveries -> Tasks] /\ calls \in [Deliveries -> Tasks]
        /\ active \in [Deliveries -> Held \cup {NoDelivery}]
        /\ active_calls \in [Deliveries -> Held \cup {NoDelivery}]
    BY Zenon DEF DeliveriesOK
  <1>1. attempts' = attempts \/ \E v : attempts' = [attempts EXCEPT ![d] = v]
    BY Zenon DEF DeliveryStep, InsertFails, AcceptEmit, AcceptCall, Serve, StartAttempt,
       StartRecorded, StartUnrecorded, RetryAttempt, EndAttempt, CutDelivery, Aborted, CutCall,
       EndCall, DropAttempt, CompleteHeldCall, DropCall, EndTask, ComeDue, deliveries, tasks
  <1>2. calls' = calls \/ \E v : calls' = [calls EXCEPT ![d] = v]
    BY Zenon DEF DeliveryStep, InsertFails, AcceptEmit, AcceptCall, StartCall, FailCall, Serve,
       StartAttempt, RetryAttempt, EndAttempt, EndDelivery, CutDelivery, Aborted, CutCall,
       DropAttempt, CompleteHeldCall, DropCall, EndTask, ComeDue, deliveries, tasks
  <1>3. active_calls' = active_calls \/ \E v : active_calls' = [active_calls EXCEPT ![d] = v]
    BY Zenon DEF DeliveryStep, InsertFails, AcceptEmit, AcceptCall, StartCall, FailCall, Serve,
       StartAttempt, RetryAttempt, EndAttempt, EndDelivery, CutDelivery, CutCall, EndCall,
       FinishCall, DropAttempt, CompleteHeldCall, DropCall, EndTask, ComeDue, deliveries, lanes
  <1>4. \A e \in Deliveries \ {d} : active'[e] = active[e]
    <2>1. CASE Serve(d)
      BY Zenon, <1>0, <2>1 DEF Serve, StartAttempt, StartRecorded, StartUnrecorded,
         FinishDelivery, deliveries, lanes
    <2>2. CASE RetryAttempt(d) \/ ComeDue(d)
      BY Zenon, <1>0, <2>2 DEF RetryAttempt, ComeDue
    <2>3. CASE active' = active \/ \E v : active' = [active EXCEPT ![d] = v]
      BY Zenon, <1>0, <2>3
    <2> QED BY Zenon, <2>1, <2>2, <2>3 DEF DeliveryStep, InsertFails, AcceptEmit, AcceptCall,
            EndAttempt, EndDelivery, FinishDelivery, CutDelivery, CutCall, EndCall, DropAttempt,
            CompleteHeldCall, DropCall, EndTask, lanes
  <1> QED BY Zenon, <1>0, <1>1, <1>2, <1>3, <1>4 DEF Unmoved

(* What a step about delivery d may do to what is held of it. *)
LEMMA ActiveStep ==
    ASSUME DeliveriesOK, NEW d \in Deliveries, DeliveryStep(d)
    PROVE  \/ active'[d] = active[d]
           \/ active'[d] = NoDelivery
           \/ \E r \in Routes : AcceptEmit(r, d) /\ active'[d] = Admission(r, d)
           \/ /\ active[d] # NoDelivery
              /\ \/ /\ Servable(d) /\ active'[d].route = active[d].route
                    /\ active'[d].state = "in_flight" /\ active'[d].abort
                 \/ /\ RetryAttempt(d)
                    /\ active'[d] = [active[d] EXCEPT !.state = "waiting",
                                                      !.abort = FALSE, !.due = FALSE]
                 \/ /\ ComeDue(d)
                    /\ active'[d] = [active[d] EXCEPT !.due = TRUE]
  <1>1. active \in [Deliveries -> Held \cup {NoDelivery}]
    BY Zenon DEF DeliveriesOK
  <1>2. ASSUME NEW r \in Routes, AcceptEmit(r, d) PROVE active'[d] = Admission(r, d)
    BY Zenon, <1>1, <1>2 DEF AcceptEmit
  <1>3. ASSUME NEW r \in Routes, AcceptCall(r, d) PROVE active'[d] = active[d]
    BY Zenon, <1>3 DEF AcceptCall
  <1>4. CASE Serve(d)
    <2>1. CASE UNCHANGED deliveries
      BY Zenon, <2>1 DEF deliveries, lanes
    <2>2. CASE StartRecorded(d)
      <3>1. active[d] \in Held
        BY Zenon, <1>1, <1>4 DEF Serve, Servable
      <3>2. active'[d] = [active[d] EXCEPT !.state = "in_flight", !.due = FALSE,
                                   !.attempts = active[d].attempts + 1, !.abort = TRUE]
        BY Zenon, <1>1, <2>2 DEF StartRecorded
      <3>3. /\ active'[d].state = "in_flight" /\ active'[d].abort
            /\ active'[d].route = active[d].route
        BY <3>1, <3>2 DEF Held
      <3> QED BY Zenon, <1>4, <3>3 DEF Serve, Servable
    <2>3. CASE StartUnrecorded(d)
      BY Zenon, <1>1, <2>3 DEF StartUnrecorded, FinishDelivery
    <2> QED BY Zenon, <1>4, <2>1, <2>2, <2>3 DEF Serve, StartAttempt
  <1>5. CASE RetryAttempt(d)
    BY Zenon, <1>1, <1>5 DEF RetryAttempt, AttemptEnded
  <1>6. CASE EndAttempt(d)
    BY Zenon, <1>1, <1>6 DEF EndAttempt, EndDelivery, FinishDelivery
  <1>7. ASSUME NEW event, CutDelivery(d, event) PROVE active'[d] = NoDelivery
    BY Zenon, <1>1, <1>7 DEF CutDelivery, EndDelivery, FinishDelivery
  <1>8. ASSUME NEW event, CutCall(d, event) PROVE active' = active
    BY Zenon, <1>8 DEF CutCall, EndCall
  <1>9. CASE ComeDue(d)
    BY Zenon, <1>1, <1>9 DEF ComeDue
  <1>10. ASSUME \/ InsertFails(d) \/ DropAttempt(d) \/ DropCall(d) \/ CompleteHeldCall(d)
                \/ \E result \in Finished : EndTask(d, result)
         PROVE  active' = active
    BY Zenon, <1>10 DEF InsertFails, DropAttempt, DropCall, CompleteHeldCall, EndCall, EndTask,
       lanes
  <1> QED BY Zenon, <1>2, <1>3, <1>4, <1>5, <1>6, <1>7, <1>8, <1>9, <1>10 DEF DeliveryStep

-----------------------------------------------------------------------------
(* Routes and drains *)

Work(r) == \E d \in Deliveries : OnRoute(active[d], r) \/ OnRoute(active_calls[d], r)

(* The counters say which routes have work. *)
IdleExact == \A r \in Routes : IsIdle(usage[r]) <=> ~Work(r)

(* What a step leaves in the lanes it found there, on the same route, or it *)
(* has just been admitted.                                                   *)
Stays(e) ==
    /\ active'[e] # NoDelivery =>
          active[e] # NoDelivery /\ active'[e].route = active[e].route
    /\ active_calls'[e] # NoDelivery =>
          active_calls[e] # NoDelivery /\ active_calls'[e].route = active_calls[e].route

Admits(r, d) ==
    /\ CommandReady /\ registry[r] = "enabled"
    /\ AcceptEmit(r, d) \/ AcceptCall(r, d)
    /\ phase' = "dispatch"
    /\ UNCHANGED <<routing, retries, control, sweep>>

(* What is held and not admitted stays on its route. *)
LEMMA HandledStays ==
    ASSUME DeliveriesOK, NEW d \in Deliveries,
           \/ Serve(d) \/ RetryAttempt(d) \/ EndAttempt(d) \/ ComeDue(d)
           \/ \E event \in {"failed", "cancel", "shutdown"} :
                 active[d] # NoDelivery /\ CutDelivery(d, event)
    PROVE  \A e \in Deliveries : Stays(e)
  <1>0. DeliveryStep(d)
    BY Zenon DEF DeliveryStep
  <1>1. \A e \in Deliveries \ {d} : Stays(e)
    BY Zenon, <1>0, OthersSame DEF Unmoved, Stays
  <1>2. /\ active \in [Deliveries -> Held \cup {NoDelivery}]
        /\ active[d] # NoDelivery => active[d] \in Held
    BY Zenon DEF DeliveriesOK
  <1>3. active_calls' = active_calls
    BY Zenon DEF Serve, StartAttempt, RetryAttempt, EndAttempt, ComeDue, CutDelivery, EndDelivery,
       deliveries, lanes
  <1>4. \A h \in Held : /\ [h EXCEPT !.state = "waiting", !.abort = FALSE,
                                     !.due = FALSE].route = h.route
                        /\ [h EXCEPT !.due = TRUE].route = h.route
    BY DEF Held
  <1>5. active'[d] # NoDelivery => active[d] # NoDelivery /\ active'[d].route = active[d].route
    <2>1. CASE StartRecorded(d) /\ active[d] # NoDelivery
      <3> DEFINE n == active[d].attempts + 1
      <3>1. active'[d] = [active[d] EXCEPT !.state = "in_flight", !.due = FALSE,
                                   !.attempts = n, !.abort = TRUE]
        BY Zenon, <1>2, <2>1 DEF StartRecorded
      <3>2. active[d] \in Held
        BY Zenon, <1>2, <2>1
      <3> HIDE DEF n
      <3>3. active'[d].route = active[d].route
        BY <3>1, <3>2 DEF Held
      <3> QED BY Zenon, <2>1, <3>3
    <2>2. CASE RetryAttempt(d)
      <3>1. /\ active'[d] = [active[d] EXCEPT !.state = "waiting", !.abort = FALSE, !.due = FALSE]
            /\ active[d] # NoDelivery
        BY Zenon, <1>2, <2>2 DEF RetryAttempt, AttemptEnded
      <3> QED BY Zenon, <1>2, <1>4, <3>1
    <2>3. CASE ComeDue(d)
      <3>1. active'[d] = [active[d] EXCEPT !.due = TRUE] /\ active[d] # NoDelivery
        BY Zenon, <1>2, <2>3 DEF ComeDue
      <3> QED BY Zenon, <1>2, <1>4, <3>1
    <2>4. CASE FinishDelivery(d)
      BY Zenon, <1>2, <2>4 DEF FinishDelivery
    <2>5. CASE UNCHANGED deliveries
      BY Zenon, <2>5 DEF deliveries, lanes
    <2> QED BY Zenon, <2>1, <2>2, <2>3, <2>4, <2>5 DEF Serve, Servable, StartAttempt,
            StartUnrecorded, EndAttempt, CutDelivery, EndDelivery
  <1> QED BY Zenon, <1>1, <1>3, <1>5 DEF Stays

(* Only the handlers of Emit and Call admit a delivery. *)
LEMMA HandlesStays ==
    ASSUME EngineInv, NEW d \in Deliveries, Handles(d)
    PROVE  (\A e \in Deliveries : Stays(e)) \/ \E r \in Routes : Admits(r, d)
  <1> USE DEF Stays
  <1>0. DeliveriesOK /\ active_calls \in [Deliveries -> Held \cup {NoDelivery}]
    BY Zenon DEF EngineInv, DeliveriesOK
  <1>1. ASSUME NEW r \in Routes, Emit(r, d)
        PROVE  (\A e \in Deliveries : Stays(e)) \/ Admits(r, d)
    <2>1. CASE InsertFails(d)
      BY Zenon, <2>1 DEF InsertFails, lanes
    <2> QED BY Zenon, <1>1, <2>1 DEF Emit, Admits
  <1>2. ASSUME NEW r \in Routes, Call(r, d)
        PROVE  (\A e \in Deliveries : Stays(e)) \/ Admits(r, d)
    <2>1. CASE InsertFails(d)
      BY Zenon, <2>1 DEF InsertFails, lanes
    <2> QED BY Zenon, <1>2, <2>1 DEF Call, Admits
  <1>3. CASE \/ JoinStaleAttempt(d) \/ JoinPanickedAttempt(d)
             \/ JoinStaleCall(d) \/ JoinPanickedCall(d)
    <2>1. UNCHANGED lanes
      BY Zenon, <1>3 DEF JoinStaleAttempt, JoinPanickedAttempt, JoinStaleCall, JoinPanickedCall,
         DropAttempt, DropCall
    <2> QED BY Zenon, <2>1 DEF lanes
  <1>4. CASE CompleteAttempt(d) \/ SweepEmit(d)
    <2>1. CASE SweepEmit(d)
      <3>1. /\ active[d] # NoDelivery /\ sweep.event # "none"
            /\ sweep.event \in {"none", "failed", "cancel", "shutdown"}
        BY Zenon, <2>1 DEF SweepEmit, EngineInv, EngineOK, SweepHeld, Active, Sweeps
      <3> QED BY Zenon, <1>0, <2>1, <3>1, HandledStays DEF SweepEmit
    <2>2. CASE CompleteAttempt(d)
      BY Zenon, <1>0, <2>2, HandledStays DEF CompleteAttempt
    <2> QED BY Zenon, <1>4, <2>1, <2>2
  <1>5. CASE CompleteCall(d) \/ SweepCall(d)
    <2>1. active' = active /\ active_calls' = [active_calls EXCEPT ![d] = NoDelivery]
      BY Zenon, <1>5 DEF CompleteCall, SweepCall, CompleteHeldCall, EndCall, CutCall, FinishCall
    <2> QED BY Zenon, <1>0, <2>1
  <1>6. ASSUME NEW result, FinishTask(d, result) PROVE \A e \in Deliveries : Stays(e)
    BY Zenon, <1>6 DEF FinishTask, EndTask, lanes
  <1>7. CASE RetryFallsDue(d)
    BY Zenon, <1>0, <1>7, HandledStays DEF RetryFallsDue
  <1> QED BY Zenon, <1>1, <1>2, <1>3, <1>4, <1>5, <1>6, <1>7 DEF Handles

(* So no step brings work to a route that is not enabled. *)
LEMMA StaysStep ==
    ASSUME EngineInv, [Next]_vars
    PROVE  (\A e \in Deliveries : Stays(e)) \/ \E r \in Routes, d \in Deliveries : Admits(r, d)
  <1> USE DEF Stays
  <1>1. CASE Quiet
    BY Zenon, <1>1, QuietDeliveries DEF deliveries, lanes
  <1>2. CASE \E d \in Deliveries : Handles(d)
    BY Zenon, <1>2, HandlesStays
  <1>3. CASE Dispatch
    BY Zenon, <1>3, DispatchDeliveries, HandledStays DEF EngineInv
  <1>4. CASE Crash \/ Start
    BY Zenon, <1>4 DEF Crash, Start, LoseDeliveries, RecoverDeliveries, HoldNothing
  <1>5. CASE UNCHANGED vars
    BY Zenon, <1>5 DEF vars, deliveries, lanes
  <1> QED BY Zenon, <1>1, <1>2, <1>3, <1>4, <1>5, StepKinds

(* A route leaves the registry only when it has no work. *)
LEMMA RegistryStep ==
    ASSUME EngineInv, [Next]_vars, NEW r \in Routes, registry'[r] = "absent"
    PROVE  \/ registry[r] = "absent"
           \/ UNCHANGED deliveries /\ IsIdle(usage[r])
           \/ Crash \/ Start
  <1>0. registry \in [Routes -> {"absent", "enabled", "disabled"}]
    BY Zenon DEF EngineInv, EngineOK
  <1>1. ASSUME NEW q \in Routes, NEW state \in {"enabled", "disabled"}, Register(q, state)
        PROVE  registry[r] = "absent"
    BY <1>0, <1>1 DEF Register
  <1>2. ASSUME NEW q \in Routes, Enable(q) PROVE registry[r] = "absent"
    BY <1>0, <1>2 DEF Enable
  <1>3. ASSUME NEW q \in Routes, NEW remove \in BOOLEAN, BeginDrain(q, remove)
        PROVE  registry[r] = "absent" \/ IsIdle(usage[r])
    <2>1. registry' = [registry EXCEPT ![q] = IF IsIdle(usage[q]) /\ remove THEN "absent"
                                              ELSE "disabled"]
      BY Zenon, <1>3 DEF BeginDrain
    <2>2. CASE q = r
      BY <1>0, <2>1, <2>2
    <2>3. CASE q # r
      BY <1>0, <2>1, <2>3
    <2> QED BY Zenon, <2>2, <2>3
  <1>4. CASE EndPrelude
    BY Zenon, <1>4 DEF EndPrelude, CompleteEmptyDrains
  <1>5. CASE Quiet
    <2>1. UNCHANGED deliveries
      BY Zenon, <1>5, QuietDeliveries
    <2>2. CASE \/ Stop \/ ProcessDeadlines \/ ShutdownFallsDue
               \/ \E q \in Routes : DrainFallsDue(q)
               \/ \E t \in sweep.retries : SweepRetry(t)
      BY Zenon, <2>2 DEF Stop, ProcessDeadlines, ShutdownFallsDue, DrainFallsDue, SweepRetry,
         routing
    <2> QED BY Zenon, <1>1, <1>2, <1>3, <1>4, <1>5, <2>1, <2>2 DEF Quiet, EndPrelude
  <1>6. ASSUME NEW d \in Deliveries, Handles(d) PROVE registry' = registry
    BY Zenon, <1>6 DEF Handles, Emit, Call, JoinStaleAttempt, JoinPanickedAttempt, CompleteAttempt,
       JoinStaleCall, JoinPanickedCall, CompleteCall, SweepEmit, SweepCall, FinishTask,
       RetryFallsDue, routing
  <1>7. CASE Dispatch \/ UNCHANGED vars
    BY Zenon, <1>7 DEF Dispatch, vars, routing
  <1> QED BY Zenon, <1>5, <1>6, <1>7, StepKinds

(* While the engine is suspended in select!, no work comes or goes. *)
LEMMA SuspendedWork ==
    ASSUME NEW d \in Deliveries, Handles(d), DeliveriesOK, phase' = "select", NEW r, Work(r)
    PROVE  Work(r)'
  <1>1. CASE UNCHANGED <<active, active_calls>>
    BY Zenon, <1>1 DEF Work
  <1>2. CASE RetryFallsDue(d)
    <2>1. /\ active \in [Deliveries -> Held \cup {NoDelivery}]
          /\ active[d] # NoDelivery /\ active_calls' = active_calls
          /\ active' = [active EXCEPT ![d].due = TRUE]
      BY Zenon, <1>2 DEF RetryFallsDue, ComeDue, DeliveriesOK
    <2>2. active[d] \in Held
      BY Zenon, <2>1
    <2>3. /\ [active[d] EXCEPT !.due = TRUE].route = active[d].route
          /\ [active[d] EXCEPT !.due = TRUE].state = active[d].state
          /\ active[d].state # "none"
      BY <2>2 DEF Held, LifecycleStates
    <2>4. active'[d].route = active[d].route /\ active'[d] # NoDelivery
      <3>1. NoDelivery.state = "none"
        BY DEF NoDelivery
      <3> QED BY Zenon, <2>1, <2>3, <3>1
    <2>5. \A e \in Deliveries \ {d} : active'[e] = active[e]
      BY Zenon, <2>1
    <2> QED BY Zenon, <2>1, <2>4, <2>5 DEF Work, OnRoute
  <1>3. RetryFallsDue(d) \/ UNCHANGED <<active, active_calls>>
    BY Zenon DEF Handles, Emit, Call, JoinStaleAttempt, JoinPanickedAttempt, CompleteAttempt,
       JoinStaleCall, JoinPanickedCall, CompleteCall, SweepEmit, SweepCall, FinishTask,
       Continue, InsertFails, EndTask, lanes
  <1> QED BY Zenon, <1>1, <1>2, <1>3

(* A drain begins on a route that has work, closes it and keeps it closed,  *)
(* and is not waited for when there is nothing to wait for.                 *)
LEMMA DrainsStep ==
    ASSUME EngineInv, IdleExact, DrainsSound, [Next]_vars,
           NEW r \in Routes, drains'[r] # NoDrain
    PROVE  registry'[r] = "disabled" /\ ~stopping' /\ (phase' = "select" => Work(r)')
  <1> DEFINE Goal == registry'[r] = "disabled" /\ ~stopping' /\ (phase' = "select" => Work(r)')
  <1>0. /\ registry \in [Routes -> {"absent", "enabled", "disabled"}]
        /\ drains \in [Routes -> Drains \cup {NoDrain}]
        /\ drains[r] # NoDrain =>
              registry[r] = "disabled" /\ ~stopping /\ (phase = "select" => Work(r))
    BY Zenon DEF EngineInv, EngineOK, DrainsSound, Work
  <1>1. ASSUME NEW q \in Routes, NEW state, Register(q, state) PROVE Goal
    <2>1. drains[r] # NoDrain /\ registry[q] = "absent" /\ phase' = "dispatch"
          /\ stopping' = stopping /\ registry' = [registry EXCEPT ![q] = state]
      BY Zenon, <1>1 DEF Register, control
    <2>2. q # r
      BY Zenon, <1>0, <2>1
    <2> QED BY Zenon, <1>0, <2>1, <2>2
  <1>2. ASSUME NEW q \in Routes, Enable(q) PROVE Goal
    <2>1. drains' = drains /\ drains[q] = NoDrain /\ phase' = "dispatch"
          /\ stopping' = stopping /\ registry' = [registry EXCEPT ![q] = "enabled"]
      BY Zenon, <1>2 DEF Enable, control
    <2>2. q # r
      BY Zenon, <2>1
    <2> QED BY Zenon, <1>0, <2>1, <2>2
  <1>3. ASSUME NEW q \in Routes, NEW remove \in BOOLEAN, BeginDrain(q, remove) PROVE Goal
    <2> DEFINE drain == [remove |-> remove, deadline |-> "armed"]
    <2>1. /\ drains[q] = NoDrain /\ phase' = "dispatch" /\ ~stopping /\ stopping' = stopping
          /\ drains' = IF IsIdle(usage[q]) THEN drains ELSE [drains EXCEPT ![q] = drain]
          /\ registry' = [registry EXCEPT ![q] = IF IsIdle(usage[q]) /\ remove
                                                 THEN "absent" ELSE "disabled"]
      BY Zenon, <1>3 DEF BeginDrain, CommandReady, control
    <2> HIDE DEF drain
    <2>2. CASE q = r
      <3>1. ~IsIdle(usage[r])
        BY Zenon, <2>1, <2>2
      <3>2. registry'[r] = "disabled"
        BY Zenon, <1>0, <2>1, <2>2, <3>1
      <3> QED BY Zenon, <2>1, <3>2
    <2>3. CASE q # r
      <3>1. drains'[r] = drains[r] /\ registry'[r] = registry[r]
        BY Zenon, <1>0, <2>1, <2>3
      <3> QED BY Zenon, <1>0, <2>1, <3>1
    <2> QED BY Zenon, <2>2, <2>3
  <1>4. ASSUME NEW q \in Routes, DrainFallsDue(q) PROVE Goal
    <2>1. drains[r] # NoDrain
      <3>1. NoDrain.deadline = "none"
        BY DEF NoDrain
      <3>2. CASE q = r
        BY Zenon, <1>4, <3>1, <3>2 DEF DrainFallsDue
      <3>3. CASE q # r
        BY Zenon, <1>0, <1>4, <3>3 DEF DrainFallsDue
      <3> QED BY Zenon, <3>2, <3>3
    <2>2. UNCHANGED <<registry, stopping, phase, active, active_calls>>
      BY Zenon, <1>4 DEF DrainFallsDue, control, loop, deliveries, lanes
    <2> QED BY Zenon, <1>0, <2>1, <2>2 DEF Work
  <1>5. CASE EndPrelude
    <2>1. drains[r] # NoDrain /\ ~IsIdle(usage[r]) /\ registry'[r] = registry[r]
      BY Zenon, <1>5 DEF EndPrelude, CompleteEmptyDrains
    <2>2. stopping' = stopping /\ UNCHANGED <<active, active_calls>>
      BY Zenon, <1>5 DEF EndPrelude, control, deliveries, lanes
    <2>3. Work(r)
      BY Zenon, <2>1 DEF IdleExact
    <2> QED BY Zenon, <1>0, <2>1, <2>2, <2>3 DEF Work
  <1>6. CASE \/ ProcessDeadlines \/ ShutdownFallsDue
             \/ \E t \in sweep.retries : SweepRetry(t)
    <2>1. /\ UNCHANGED <<registry, drains, stopping, active, active_calls>>
          /\ phase' = "select" => phase = "select"
      BY Zenon, <1>6 DEF ProcessDeadlines, ShutdownFallsDue, SweepRetry, Continue, routing,
         control, loop, deliveries, lanes
    <2> QED BY Zenon, <1>0, <2>1 DEF Work
  <1>7. CASE Stop \/ Crash \/ Start
    BY Zenon, <1>7 DEF Stop, Crash, Start, FreshEngine
  <1>8. ASSUME NEW d \in Deliveries, Handles(d) PROVE Goal
    <2>1. UNCHANGED <<registry, drains, stopping>> /\ (phase' = "select" => phase = "select")
      BY Zenon, <1>8 DEF Handles, Emit, Call, JoinStaleAttempt, JoinPanickedAttempt,
         CompleteAttempt, JoinStaleCall, JoinPanickedCall, CompleteCall, SweepEmit, SweepCall,
         FinishTask, RetryFallsDue, routing, control, loop, Continue, CommandReady
    <2>2. DeliveriesOK
      BY Zenon DEF EngineInv
    <2> QED BY Zenon, <1>0, <1>8, <2>1, <2>2, SuspendedWork
  <1>9. CASE Dispatch
    BY Zenon, <1>0, <1>9 DEF Dispatch, routing, control, loop
  <1>10. CASE UNCHANGED vars
    <2>1. UNCHANGED <<registry, drains, stopping, phase, active, active_calls>>
      BY Zenon, <1>10 DEF vars, routing, control, loop, deliveries, lanes
    <2> QED BY Zenon, <1>0, <2>1 DEF Work
  <1>11. CASE Quiet
    BY Zenon, <1>1, <1>2, <1>3, <1>4, <1>5, <1>6, <1>7, <1>11 DEF Quiet
  <1> QED BY Zenon, <1>7, <1>8, <1>9, <1>10, <1>11, StepKinds

(* Every step keeps the drains sound. *)
LEMMA DrainsNext ==
    ASSUME EngineInv, IdleExact, DeliveriesOK', DrainsSound, [Next]_vars
    PROVE  DrainsSound'
  <1>1. DeliveriesOK /\ DeliveriesOK'
    BY Zenon DEF EngineInv
  <1>2. ASSUME NEW r \in Routes, Work(r)' PROVE registry'[r] # "absent"
    <2> SUFFICES ASSUME registry'[r] = "absent" PROVE FALSE
      OBVIOUS
    <2>1. ~Crash /\ ~Start
      <3>1. HoldNothing => \A e \in Deliveries :
               active'[e] = NoDelivery /\ active_calls'[e] = NoDelivery
        BY Zenon DEF HoldNothing
      <3>2. ~HoldNothing
        BY Zenon, <1>2, <3>1 DEF Work, OnRoute
      <3> QED BY Zenon, <3>2 DEF Crash, Start, LoseDeliveries, RecoverDeliveries
    <2>2. CASE registry[r] = "absent"
      <3>1. ~Work(r)
        <4>1. \A e \in Deliveries :
                 /\ active[e] # NoDelivery => registry[active[e].route] # "absent"
                 /\ active_calls[e] # NoDelivery => registry[active_calls[e].route] # "absent"
          BY Zenon DEF DrainsSound, Active, ActiveCalls
        <4> QED BY Zenon, <2>2, <4>1 DEF Work, OnRoute
      <3>2. ~\A e \in Deliveries : Stays(e)
        BY Zenon, <1>2, <3>1 DEF Stays, Work, OnRoute
      <3>3. PICK q \in Routes, d \in Deliveries : Admits(q, d)
        BY Zenon, <3>2, StaysStep
      <3>4. q # r
        BY Zenon, <2>2, <3>3 DEF Admits
      <3>5. \A e \in Deliveries : /\ OnRoute(active'[e], r) => OnRoute(active[e], r)
                                  /\ OnRoute(active_calls'[e], r) => OnRoute(active_calls[e], r)
        <4>1. Admission(q, d).route = q /\ CallAdmission(q, d).route = q
          BY DEF Admission, CallAdmission
        <4>2. \/ /\ active' = [active EXCEPT ![d] = Admission(q, d)]
                 /\ active_calls' = active_calls
              \/ /\ active' = active
                 /\ \/ active_calls' = [active_calls EXCEPT ![d] = CallAdmission(q, d)]
                    \/ active_calls' = active_calls
          BY Zenon, <3>3 DEF Admits, AcceptEmit, AcceptCall, StartCall, FailCall
        <4>3. /\ active \in [Deliveries -> Held \cup {NoDelivery}]
              /\ active_calls \in [Deliveries -> Held \cup {NoDelivery}]
          BY Zenon, <1>1 DEF DeliveriesOK
        <4> QED BY Zenon, <3>4, <4>1, <4>2, <4>3 DEF OnRoute
      <3> QED BY Zenon, <1>2, <3>1, <3>5 DEF Work
    <2>3. CASE UNCHANGED deliveries /\ IsIdle(usage[r])
      <3>1. ~Work(r)
        BY Zenon, <2>3 DEF IdleExact
      <3> QED BY Zenon, <1>2, <2>3, <3>1 DEF Work, deliveries, lanes
    <2> QED BY Zenon, <2>1, <2>2, <2>3, RegistryStep
  <1>3. ASSUME NEW d \in Deliveries, NEW r \in Routes,
               OnRoute(active'[d], r) \/ OnRoute(active_calls'[d], r)
        PROVE  registry'[r] # "absent"
    BY Zenon, <1>2, <1>3 DEF Work
  <1>4. ASSUME NEW d \in Deliveries
        PROVE  /\ active'[d] # NoDelivery => registry'[active'[d].route] # "absent"
               /\ active_calls'[d] # NoDelivery => registry'[active_calls'[d].route] # "absent"
    <2>1. /\ active'[d] # NoDelivery => active'[d].route \in Routes
          /\ active_calls'[d] # NoDelivery => active_calls'[d].route \in Routes
      BY Zenon, <1>1 DEF DeliveriesOK, Held
    <2> QED BY Zenon, <1>3, <2>1 DEF OnRoute
  <1> QED BY Zenon, <1>4, DrainsStep DEF DrainsSound, Work, Active, ActiveCalls

(* A drain ends when its route is idle, or with the engine's admission. *)
LEMMA DrainEnds ==
    ASSUME EngineInv, [Next]_vars, NEW r \in Routes, drains[r] # NoDrain, drains'[r] = NoDrain
    PROVE  (UNCHANGED deliveries /\ IsIdle(usage[r])) \/ Stop \/ Crash \/ Start
  <1>0. drains \in [Routes -> Drains \cup {NoDrain}]
    BY Zenon DEF EngineInv, EngineOK
  <1>1. ASSUME NEW q \in Routes, NEW remove \in BOOLEAN, BeginDrain(q, remove) PROVE FALSE
    <2>1. PICK drain : drains' = drains \/ drains' = [drains EXCEPT ![q] = drain]
      BY Zenon, <1>1 DEF BeginDrain
    <2>2. q # r
      BY Zenon, <1>1 DEF BeginDrain
    <2> QED BY Zenon, <1>0, <2>1, <2>2
  <1>2. ASSUME NEW q \in Routes, DrainFallsDue(q) PROVE FALSE
    <2>1. CASE q = r
      <3>1. drains[r] \in Drains /\ drains'[r] = [drains[r] EXCEPT !.deadline = "passed"]
        BY Zenon, <1>0, <1>2, <2>1 DEF DrainFallsDue
      <3>2. drains'[r].deadline = "passed"
        BY <3>1 DEF Drains
      <3> QED BY <3>2 DEF NoDrain
    <2>2. CASE q # r
      BY Zenon, <1>0, <1>2, <2>2 DEF DrainFallsDue
    <2> QED BY Zenon, <2>1, <2>2
  <1>3. CASE EndPrelude
    BY Zenon, <1>3 DEF EndPrelude, CompleteEmptyDrains
  <1>4. CASE Quiet
    BY Zenon, <1>1, <1>2, <1>3, <1>4 DEF Quiet, Register, Enable, ProcessDeadlines,
       ShutdownFallsDue, SweepRetry, routing
  <1>5. ASSUME NEW d \in Deliveries, Handles(d) PROVE FALSE
    BY Zenon, <1>5 DEF Handles, Emit, Call, JoinStaleAttempt, JoinPanickedAttempt,
       CompleteAttempt, JoinStaleCall, JoinPanickedCall, CompleteCall, SweepEmit, SweepCall,
       FinishTask, RetryFallsDue, routing
  <1>6. CASE Dispatch \/ UNCHANGED vars
    BY Zenon, <1>6 DEF Dispatch, vars, routing
  <1> QED BY Zenon, <1>4, <1>5, <1>6, StepKinds

(* What disable_route and unregister_route are answered, for one route. *)
DrainedOn(r) ==
    ( /\ Continuing
      /\ ~stopping'
      /\ \/ registry[r] # "absent" /\ registry'[r] = "absent"
         \/ drains[r] # NoDrain /\ drains'[r] = NoDrain )
    => \A d \in Deliveries : ~OnRoute(active'[d], r) /\ ~OnRoute(active_calls'[d], r)

(* They are answered when there is no work. *)
LEMMA DrainedStep ==
    ASSUME EngineInv, IdleExact, [Next]_vars, NEW r \in Routes
    PROVE  DrainedOn(r)
  <1>1. CASE UNCHANGED deliveries /\ IsIdle(usage[r])
    <2>1. ~Work(r)
      BY Zenon, <1>1 DEF IdleExact
    <2> QED BY Zenon, <1>1, <2>1 DEF DrainedOn, Work, deliveries, lanes
  <1>2. CASE Crash \/ Start
    BY Zenon, <1>2 DEF Crash, Start, LoseDeliveries, RecoverDeliveries, Continuing, DrainedOn
  <1>3. CASE Stop
    BY Zenon, <1>3 DEF Stop, DrainedOn
  <1> QED BY Zenon, <1>1, <1>2, <1>3, RegistryStep, DrainEnds DEF DrainedOn

-----------------------------------------------------------------------------
(* Tasks *)

LiveTasks == {"running"} \cup Finished

(* What is in flight has a task left to join, or is about to be ended by    *)
(* the loop after a panic.                                                  *)
TaskLeft(e) ==
    /\ (active[e] # NoDelivery /\ active[e].abort) =>
          attempts[e] \in LiveTasks \/ e \in sweep.emits
    /\ (active_calls[e] # NoDelivery /\ active_calls[e].abort) =>
          calls[e] \in LiveTasks \/ e \in sweep.calls

HasTask == \A e \in Deliveries : TaskLeft(e)

(* What a loop still has to do. *)
LEMMA ContinueLeft ==
    ASSUME NEW rest \in Sweeps, Continue(rest)
    PROVE  sweep'.emits = rest.emits /\ sweep'.calls = rest.calls
  <1>1. NoSweep.emits = {} /\ NoSweep.calls = {}
    BY DEF NoSweep
  <1> QED BY Zenon, <1>1 DEF Continue

(* Steps that neither hold nor let go of a task. *)
LEMMA QuietTasks ==
    ASSUME EngineInv, HasTask, Quiet
    PROVE  HasTask'
  <1>0. UNCHANGED <<active, active_calls, attempts, calls>>
    BY Zenon, QuietDeliveries DEF deliveries, lanes, tasks
  <1>1. sweep.emits \subseteq sweep'.emits /\ sweep.calls \subseteq sweep'.calls
    <2>1. CASE sweep' = sweep
      BY Zenon, <2>1
    <2>2. CASE sweep = NoSweep
      <3>1. NoSweep.emits = {} /\ NoSweep.calls = {}
        BY DEF NoSweep
      <3> QED BY Zenon, <2>2, <3>1
    <2>3. ASSUME NEW t \in sweep.retries, SweepRetry(t)
          PROVE  sweep'.emits = sweep.emits /\ sweep'.calls = sweep.calls
      <3> DEFINE rest == [sweep EXCEPT !.retries = @ \ {t}]
      <3>1. rest \in Sweeps /\ rest.emits = sweep.emits /\ rest.calls = sweep.calls
        BY Zenon DEF EngineInv, EngineOK, Sweeps
      <3>2. Continue(rest)
        BY Zenon, <2>3 DEF SweepRetry
      <3> HIDE DEF rest
      <3> QED BY Zenon, <3>1, <3>2, ContinueLeft
    <2>4. CASE ProcessDeadlines
      BY Zenon, <2>2, <2>4 DEF ProcessDeadlines, EngineInv, SweepHeld
    <2> QED BY Zenon, <2>1, <2>3, <2>4 DEF Quiet, Register, Enable, BeginDrain, DrainFallsDue,
               Stop, EndPrelude, ShutdownFallsDue, loop
  <1> QED BY Zenon, <1>0, <1>1 DEF HasTask, TaskLeft

(* Serving a delivery gives it a task, or lets go of it. *)
LEMMA ServeTasks ==
    ASSUME EngineInv, HasTask, NEW d \in Deliveries, Serve(d), sweep' = sweep
    PROVE  HasTask'
  <1>1. DeliveryStep(d)
    BY Zenon DEF DeliveryStep
  <1>2. \A e \in Deliveries \ {d} : TaskLeft(e)'
    BY Zenon, <1>1, OthersSame DEF EngineInv, HasTask, TaskLeft, Unmoved
  <1>3. DeliveriesOK
    BY Zenon DEF EngineInv
  <1>4. CASE UNCHANGED deliveries
    BY Zenon, <1>4 DEF deliveries, lanes, tasks, HasTask, TaskLeft
  <1>5. CASE StartAttempt(d)
    <2>1. active_calls' = active_calls /\ calls' = calls
      BY Zenon, <1>5 DEF StartAttempt
    <2>2. CASE StartRecorded(d)
      <3>1. attempts'[d] = "running"
        BY Zenon, <1>3, <2>2 DEF StartRecorded, DeliveriesOK
      <3> QED BY Zenon, <1>2, <2>1, <3>1 DEF HasTask, TaskLeft, LiveTasks
    <2>3. CASE StartUnrecorded(d)
      <3>1. active'[d] = NoDelivery
        BY Zenon, <1>3, <2>3 DEF StartUnrecorded, FinishDelivery, DeliveriesOK
      <3> QED BY Zenon, <1>2, <2>1, <3>1 DEF HasTask, TaskLeft
    <2> QED BY Zenon, <1>5, <2>2, <2>3 DEF StartAttempt
  <1> QED BY Zenon, <1>4, <1>5 DEF Serve

(* The delivery a handler is about, where no loop begins or goes on. *)
LEMMA OneTask ==
    ASSUME EngineInv, HasTask, NEW d \in Deliveries, DeliveryStep(d), sweep' = sweep,
           TaskLeft(d)'
    PROVE  HasTask'
  BY ZenonT(60), OthersSame DEF EngineInv, HasTask, TaskLeft, Unmoved

(* Admission. *)
LEMMA AdmitTasks ==
    ASSUME EngineInv, HasTask, NEW d \in Deliveries, NEW r \in Routes, Emit(r, d) \/ Call(r, d)
    PROVE  HasTask'
  <1>0. /\ sweep' = sweep
        /\ active \in [Deliveries -> Held \cup {NoDelivery}]
        /\ active_calls \in [Deliveries -> Held \cup {NoDelivery}]
        /\ calls \in [Deliveries -> Tasks]
        /\ TaskLeft(d)
    BY Zenon DEF Emit, Call, loop, EngineInv, DeliveriesOK, HasTask
  <1>1. DeliveryStep(d)
    BY Zenon DEF Emit, Call, DeliveryStep
  <1>2. CASE InsertFails(d)
    BY Zenon, <1>0, <1>2 DEF InsertFails, lanes, tasks, HasTask, TaskLeft
  <1>3. CASE AcceptEmit(r, d)
    <2>1. ~Admission(r, d).abort
      BY DEF Admission
    <2>2. ~active'[d].abort /\ UNCHANGED <<active_calls, calls>>
      BY Zenon, <1>0, <1>3, <2>1 DEF AcceptEmit, tasks
    <2> QED BY Zenon, <1>0, <1>1, <2>2, OneTask DEF TaskLeft
  <1>4. CASE AcceptCall(r, d)
    <2>1. UNCHANGED <<active, attempts>>
      BY Zenon, <1>4 DEF AcceptCall
    <2>2. calls'[d] = "running" \/ UNCHANGED <<active_calls, calls>>
      BY Zenon, <1>0, <1>4 DEF AcceptCall, StartCall, FailCall
    <2> QED BY Zenon, <1>0, <1>1, <2>1, <2>2, OneTask DEF TaskLeft, LiveTasks
  <1> QED BY Zenon, <1>2, <1>3, <1>4 DEF Emit, Call

(* A task that is joined without a consequence is nobody's. *)
LEMMA StaleTasks ==
    ASSUME EngineInv, HasTask, NEW d \in Deliveries, JoinStaleAttempt(d) \/ JoinStaleCall(d)
    PROVE  HasTask'
  <1>0. /\ sweep' = sweep /\ sweep = NoSweep /\ UNCHANGED <<active, active_calls>>
        /\ TaskLeft(d)
    BY Zenon DEF JoinStaleAttempt, JoinStaleCall, DropAttempt, DropCall, lanes, EngineInv,
       SweepHeld, HasTask
  <1>1. NoSweep.emits = {} /\ NoSweep.calls = {}
    BY DEF NoSweep
  <1>2. "cancelled" \notin LiveTasks
    BY Zenon DEF LiveTasks, Finished
  <1>3. DeliveryStep(d)
    BY Zenon DEF JoinStaleAttempt, JoinStaleCall, DeliveryStep
  <1>4. CASE JoinStaleAttempt(d)
    <2>1. ~(active[d] # NoDelivery /\ active[d].abort)
      BY Zenon, <1>0, <1>1, <1>2, <1>4 DEF JoinStaleAttempt, TaskLeft
    <2>2. calls' = calls
      BY Zenon, <1>4 DEF JoinStaleAttempt, DropAttempt
    <2> QED BY Zenon, <1>0, <1>3, <2>1, <2>2, OneTask DEF TaskLeft
  <1>5. CASE JoinStaleCall(d)
    <2>1. ~(active_calls[d] # NoDelivery /\ active_calls[d].abort)
      BY Zenon, <1>0, <1>1, <1>2, <1>5 DEF JoinStaleCall, TaskLeft
    <2>2. attempts' = attempts
      BY Zenon, <1>5 DEF JoinStaleCall, DropCall
    <2> QED BY Zenon, <1>0, <1>3, <2>1, <2>2, OneTask DEF TaskLeft
  <1> QED BY Zenon, <1>4, <1>5

(* After a panic everything in flight is about to end. *)
LEMMA PanickedTasks ==
    ASSUME EngineInv, HasTask, NEW d \in Deliveries, JoinPanickedAttempt(d) \/ JoinPanickedCall(d)
    PROVE  HasTask'
  <1>0. sweep = NoSweep /\ UNCHANGED <<active, active_calls>>
    BY Zenon DEF JoinPanickedAttempt, JoinPanickedCall, DropAttempt, DropCall, lanes, EngineInv,
       SweepHeld
  <1>1. NoSweep.emits = {} /\ NoSweep.calls = {}
    BY DEF NoSweep
  <1>2. \A S \in SUBSET Deliveries :
           LET e == [NoSweep EXCEPT !.event = "failed", !.emits = S]
               c == [NoSweep EXCEPT !.event = "failed", !.calls = S]
           IN e \in Sweeps /\ e.emits = S /\ c \in Sweeps /\ c.calls = S
    BY Zenon DEF NoSweep, Sweeps
  <1>3. InFlight \in SUBSET Deliveries /\ CallsInFlight \in SUBSET Deliveries
    BY Zenon DEF InFlight, CallsInFlight, Active, ActiveCalls
  <1>4. CASE JoinPanickedAttempt(d)
    <2>1. sweep'.emits = InFlight /\ calls' = calls
      BY Zenon, <1>2, <1>3, <1>4, ContinueLeft DEF JoinPanickedAttempt, DropAttempt
    <2> QED BY Zenon, <1>0, <1>1, <2>1 DEF HasTask, TaskLeft, InFlight, Active
  <1>5. CASE JoinPanickedCall(d)
    <2>1. sweep'.calls = CallsInFlight /\ attempts' = attempts
      BY Zenon, <1>2, <1>3, <1>5, ContinueLeft DEF JoinPanickedCall, DropCall
    <2> QED BY Zenon, <1>0, <1>1, <2>1 DEF HasTask, TaskLeft, CallsInFlight, ActiveCalls
  <1> QED BY Zenon, <1>4, <1>5

(* What has ended is let go of, or waits for its retry. *)
LEMMA CompletedTasks ==
    ASSUME EngineInv, HasTask, NEW d \in Deliveries,
           CompleteAttempt(d) \/ CompleteCall(d) \/ RetryFallsDue(d)
    PROVE  HasTask'
  <1>0. /\ sweep' = sweep /\ TaskLeft(d) /\ DeliveriesOK
        /\ active \in [Deliveries -> Held \cup {NoDelivery}]
        /\ active_calls \in [Deliveries -> Held \cup {NoDelivery}]
    BY Zenon DEF CompleteAttempt, CompleteCall, RetryFallsDue, loop, EngineInv, DeliveriesOK, HasTask
  <1>1. DeliveryStep(d)
    BY Zenon DEF CompleteAttempt, CompleteCall, RetryFallsDue, DeliveryStep
  <1>2. \A h \in Held : /\ [h EXCEPT !.state = "waiting", !.abort = FALSE, !.due = FALSE].abort = FALSE
                        /\ [h EXCEPT !.due = TRUE].abort = h.abort
    BY DEF Held
  <1>3. CASE RetryAttempt(d)
    <2>1. active[d] \in Held /\ UNCHANGED <<active_calls, calls>>
      BY Zenon, <1>0, <1>3 DEF RetryAttempt, AttemptEnded
    <2>2. active'[d] = [active[d] EXCEPT !.state = "waiting", !.abort = FALSE, !.due = FALSE]
      BY <1>0, <1>3, <2>1 DEF RetryAttempt
    <2>3. active'[d].abort = FALSE
      BY Zenon, <1>2, <2>1, <2>2
    <2> QED BY Zenon, <1>0, <1>1, <2>1, <2>3, OneTask DEF TaskLeft
  <1>4. CASE EndAttempt(d)
    <2>1. active'[d] = NoDelivery /\ UNCHANGED <<active_calls, calls>>
      BY Zenon, <1>0, <1>4 DEF EndAttempt, EndDelivery, FinishDelivery
    <2> QED BY Zenon, <1>0, <1>1, <2>1, OneTask DEF TaskLeft
  <1>5. CASE CompleteCall(d)
    <2>1. active_calls'[d] = NoDelivery /\ UNCHANGED <<active, attempts>>
      BY Zenon, <1>0, <1>5 DEF CompleteCall, CompleteHeldCall, EndCall, FinishCall
    <2> QED BY Zenon, <1>0, <1>1, <2>1, OneTask DEF TaskLeft
  <1>6. CASE RetryFallsDue(d)
    <2>1. /\ active[d] \in Held /\ UNCHANGED <<active_calls, attempts, calls>>
          /\ active'[d] = [active[d] EXCEPT !.due = TRUE]
      BY Zenon, <1>0, <1>6 DEF RetryFallsDue, ComeDue, tasks
    <2>2. active'[d].abort = active[d].abort /\ active[d] # NoDelivery
      BY Zenon, <1>2, <1>6, <2>1 DEF RetryFallsDue, ComeDue
    <2> QED BY Zenon, <1>0, <1>1, <2>1, <2>2, OneTask DEF TaskLeft
  <1> QED BY Zenon, <1>3, <1>4, <1>5, <1>6 DEF CompleteAttempt

(* A task that ends is left to join. *)
LEMMA FinishedTasks ==
    ASSUME EngineInv, HasTask, NEW d \in Deliveries, NEW result \in Finished, FinishTask(d, result)
    PROVE  HasTask'
  <1>0. /\ sweep' = sweep /\ TaskLeft(d) /\ UNCHANGED <<active, active_calls>>
        /\ attempts \in [Deliveries -> Tasks] /\ calls \in [Deliveries -> Tasks]
    BY Zenon DEF FinishTask, EndTask, lanes, loop, EngineInv,
       DeliveriesOK, HasTask
  <1>1. DeliveryStep(d)
    BY Zenon DEF FinishTask, DeliveryStep
  <1>2. \/ attempts'[d] = result /\ calls' = calls
        \/ calls'[d] = result /\ attempts' = attempts
    BY Zenon, <1>0 DEF FinishTask, EndTask
  <1> QED BY Zenon, <1>0, <1>1, <1>2, OneTask DEF TaskLeft, LiveTasks

(* A delivery that a loop ends is let go of. *)
LEMMA SweptTasks ==
    ASSUME EngineInv, HasTask, NEW d \in Deliveries, SweepEmit(d) \/ SweepCall(d)
    PROVE  HasTask'
  <1>0. /\ active \in [Deliveries -> Held \cup {NoDelivery}]
        /\ active_calls \in [Deliveries -> Held \cup {NoDelivery}]
    BY Zenon DEF EngineInv, DeliveriesOK
  <1>1. \A e \in Deliveries \ {d} : Unmoved(e)
    BY Zenon, HandledDeliveries, OthersSame DEF EngineInv, Handles
  <1>2. LET m == [sweep EXCEPT !.emits = @ \ {d}]
            c == [sweep EXCEPT !.calls = @ \ {d}]
        IN /\ m \in Sweeps /\ m.emits = sweep.emits \ {d} /\ m.calls = sweep.calls
           /\ c \in Sweeps /\ c.emits = sweep.emits /\ c.calls = sweep.calls \ {d}
    BY Zenon DEF EngineInv, EngineOK, Sweeps
  <1>3. CASE SweepEmit(d)
    <2>1. /\ sweep'.emits = sweep.emits \ {d} /\ sweep'.calls = sweep.calls
          /\ active'[d] = NoDelivery /\ UNCHANGED <<active_calls, calls>>
      BY Zenon, <1>0, <1>2, <1>3, ContinueLeft
         DEF SweepEmit, CutDelivery, EndDelivery, FinishDelivery
    <2>2. TaskLeft(d)'
      BY Zenon, <2>1 DEF HasTask, TaskLeft
    <2> QED BY Zenon, <1>1, <2>1, <2>2 DEF EngineInv, HasTask, TaskLeft, Unmoved
  <1>4. CASE SweepCall(d)
    <2>1. /\ sweep'.calls = sweep.calls \ {d} /\ sweep'.emits = sweep.emits
          /\ active_calls'[d] = NoDelivery /\ UNCHANGED <<active, attempts>>
      BY Zenon, <1>0, <1>2, <1>4, ContinueLeft DEF SweepCall, CutCall, EndCall, FinishCall
    <2>2. TaskLeft(d)'
      BY Zenon, <2>1 DEF HasTask, TaskLeft
    <2> QED BY Zenon, <1>1, <2>1, <2>2 DEF EngineInv, HasTask, TaskLeft, Unmoved
  <1> QED BY Zenon, <1>3, <1>4

(* Every step leaves a task to whatever is in flight. *)
LEMMA TasksNext ==
    ASSUME EngineInv, HasTask, [Next]_vars
    PROVE  HasTask'
  <1>1. CASE Quiet
    BY Zenon, <1>1, QuietTasks
  <1>2. CASE \E d \in Deliveries : Handles(d)
    BY Zenon, <1>2, AdmitTasks, StaleTasks, PanickedTasks, CompletedTasks, FinishedTasks,
       SweptTasks DEF Handles
  <1>3. CASE Dispatch
    BY Zenon, <1>3, DispatchDeliveries, ServeTasks DEF EngineInv, Dispatch, loop
  <1>4. CASE Crash \/ Start
    BY Zenon, <1>4 DEF Crash, Start, LoseDeliveries, RecoverDeliveries, HoldNothing, HasTask,
       TaskLeft
  <1>5. CASE UNCHANGED vars
    BY Zenon, <1>5 DEF vars, deliveries, lanes, tasks, loop, HasTask, TaskLeft
  <1> QED BY Zenon, <1>1, <1>2, <1>3, <1>4, <1>5, StepKinds

-----------------------------------------------------------------------------
(* Queues and the rotation *)

In(x, s) == \E k \in 1 .. Len(s) : s[k] = x
Distinct(s) == \A k, l \in 1 .. Len(s) : s[k] = s[l] => k = l

(* Sequences one after the other. *)
LEMMA InConcat ==
    ASSUME NEW S, NEW s \in Seq(S), NEW t \in Seq(S)
    PROVE  /\ s \o t \in Seq(S)
           /\ \A x : In(x, s \o t) <=> In(x, s) \/ In(x, t)
           /\ (Distinct(s) /\ Distinct(t) /\ \A x : ~(In(x, s) /\ In(x, t))) => Distinct(s \o t)
  <1>1. /\ s \o t \in Seq(S) /\ Len(s \o t) = Len(s) + Len(t)
        /\ Len(s) \in Nat /\ Len(t) \in Nat
        /\ \A k \in 1 .. Len(s) : (s \o t)[k] = s[k]
        /\ \A k \in 1 .. Len(t) : (s \o t)[Len(s) + k] = t[k]
    OBVIOUS
  <1> DEFINE u == s \o t
  <1> HIDE DEF u
  <1>2. \A k \in 1 .. Len(u) : k \in 1 .. Len(s) \/ (k - Len(s) \in 1 .. Len(t)
                                                     /\ u[k] = t[k - Len(s)])
    <2> SUFFICES ASSUME NEW k \in 1 .. Len(u), k \notin 1 .. Len(s)
                 PROVE  k - Len(s) \in 1 .. Len(t) /\ u[k] = t[k - Len(s)]
      OBVIOUS
    <2>1. k - Len(s) \in 1 .. Len(t) /\ Len(s) + (k - Len(s)) = k
      BY <1>1 DEF u
    <2> QED BY <1>1, <2>1 DEF u
  <1>3. \A x : In(x, u) <=> In(x, s) \/ In(x, t)
    <2>1. ASSUME NEW x, In(x, u) PROVE In(x, s) \/ In(x, t)
      BY Zenon, <1>1, <1>2, <2>1 DEF In, u
    <2>2. 1 .. Len(s) \subseteq 1 .. Len(u) /\ \A k \in 1 .. Len(t) : Len(s) + k \in 1 .. Len(u)
      BY <1>1 DEF u
    <2>3. ASSUME NEW x, In(x, s) \/ In(x, t) PROVE In(x, u)
      BY Zenon, <1>1, <2>2, <2>3 DEF In, u
    <2> QED BY Zenon, <2>1, <2>3
  <1>4. ASSUME Distinct(s), Distinct(t), \A x : ~(In(x, s) /\ In(x, t)) PROVE Distinct(u)
    <2> SUFFICES ASSUME NEW k \in 1 .. Len(u), NEW l \in 1 .. Len(u), u[k] = u[l] PROVE k = l
      BY Zenon DEF Distinct
    <2>1. CASE k \in 1 .. Len(s) /\ l \in 1 .. Len(s)
      BY Zenon, <1>1, <1>4, <2>1 DEF Distinct, u
    <2>2. CASE k \notin 1 .. Len(s) /\ l \notin 1 .. Len(s)
      <3>1. k - Len(s) = l - Len(s)
        BY Zenon, <1>2, <1>4, <2>2 DEF Distinct
      <3> QED BY <1>1, <3>1
    <2>3. ASSUME NEW m \in 1 .. Len(u), NEW n \in 1 .. Len(u), u[m] = u[n],
                 m \in 1 .. Len(s), n \notin 1 .. Len(s)
          PROVE  FALSE
      <3>1. In(u[m], s)
        BY Zenon, <1>1, <2>3 DEF In, u
      <3>2. In(u[n], t)
        BY Zenon, <1>2, <2>3 DEF In
      <3> QED BY Zenon, <1>4, <2>3, <3>1, <3>2
    <2> QED BY Zenon, <2>1, <2>2, <2>3
  <1> QED BY Zenon, <1>1, <1>3, <1>4 DEF u

(* A sequence, split at one of its positions. *)
LEMMA InParts ==
    ASSUME NEW S, NEW s \in Seq(S), NEW i \in 1 .. Len(s)
    PROVE  LET before == SubSeq(s, 1, i - 1)
               after == SubSeq(s, i + 1, Len(s))
           IN /\ before \in Seq(S) /\ after \in Seq(S)
              /\ \A x : In(x, before) <=> \E k \in 1 .. i - 1 : s[k] = x
              /\ \A x : In(x, s) <=> In(x, before) \/ x = s[i] \/ In(x, after)
              /\ Distinct(s) =>
                    /\ Distinct(before) /\ Distinct(after)
                    /\ ~In(s[i], before) /\ ~In(s[i], after)
                    /\ \A x : ~(In(x, before) /\ In(x, after))
  <1> DEFINE before == SubSeq(s, 1, i - 1)
             after == SubSeq(s, i + 1, Len(s))
  <1>0. Len(s) \in Nat /\ i \in Nat /\ i >= 1 /\ i <= Len(s)
    OBVIOUS
  <1>1. /\ before \in Seq(S) /\ Len(before) = i - 1
        /\ \A k \in 1 .. i - 1 : before[k] = s[k]
    <2>1. i - 1 \in 0 .. Len(s) /\ 1 \in 1 .. Len(s) + 1
      BY <1>0
    <2>2. /\ before \in Seq(S)
          /\ Len(before) = IF 1 <= i - 1 THEN i - 1 - 1 + 1 ELSE 0
          /\ \A k \in 1 .. Len(before) : before[k] = s[1 + k - 1]
      BY Zenon, <2>1, PartType
    <2> HIDE DEF before
    <2>3. Len(before) = i - 1
      BY <1>0, <2>2
    <2>4. \A k \in 1 .. i - 1 : 1 + k - 1 = k
      OBVIOUS
    <2> QED BY Zenon, <2>2, <2>3, <2>4
  <1>2. /\ after \in Seq(S) /\ Len(after) = Len(s) - i
        /\ \A k \in 1 .. Len(s) - i : after[k] = s[i + k]
    <2>1. Len(s) \in 0 .. Len(s) /\ i + 1 \in 1 .. Len(s) + 1
      BY <1>0
    <2>2. /\ after \in Seq(S)
          /\ Len(after) = IF i + 1 <= Len(s) THEN Len(s) - (i + 1) + 1 ELSE 0
          /\ \A k \in 1 .. Len(after) : after[k] = s[i + 1 + k - 1]
      BY Zenon, <2>1, PartType
    <2> HIDE DEF after
    <2>3. Len(after) = Len(s) - i
      BY <1>0, <2>2
    <2>4. \A k \in 1 .. Len(s) - i : i + 1 + k - 1 = i + k
      BY <1>0
    <2> QED BY Zenon, <2>2, <2>3, <2>4
  <1> HIDE DEF before, after
  <1>3. \A k \in 1 .. Len(s) : k \in 1 .. i - 1 \/ k = i
                               \/ (k - i \in 1 .. Len(s) - i /\ i + (k - i) = k)
    BY <1>0
  <1>4. /\ 1 .. i - 1 \subseteq 1 .. Len(s)
        /\ \A k \in 1 .. Len(s) - i : i + k \in 1 .. Len(s) /\ i + k # i
        /\ \A k \in 1 .. i - 1 : k # i
        /\ \A k \in 1 .. i - 1, l \in 1 .. Len(s) - i : k # i + l
        /\ \A k, l \in 1 .. Len(s) - i : i + k = i + l => k = l
    BY <1>0
  <1>5. \A x : In(x, before) <=> \E k \in 1 .. i - 1 : s[k] = x
    BY Zenon, <1>1 DEF In
  <1>6. \A x : In(x, after) <=> \E k \in 1 .. Len(s) - i : s[i + k] = x
    BY Zenon, <1>2 DEF In
  <1>7. ASSUME NEW x, In(x, s) PROVE In(x, before) \/ x = s[i] \/ In(x, after)
    <2>1. PICK k \in 1 .. Len(s) : s[k] = x
      BY Zenon, <1>7 DEF In
    <2>2. CASE k - i \in 1 .. Len(s) - i /\ i + (k - i) = k
      BY Zenon, <1>6, <2>1, <2>2
    <2> QED BY Zenon, <1>3, <1>5, <2>1, <2>2
  <1>8. ASSUME NEW x, In(x, before) \/ x = s[i] \/ In(x, after) PROVE In(x, s)
    BY Zenon, <1>4, <1>5, <1>6, <1>8 DEF In
  <1>9. ASSUME Distinct(s)
        PROVE  /\ Distinct(before) /\ Distinct(after)
               /\ ~In(s[i], before) /\ ~In(s[i], after)
               /\ \A x : ~(In(x, before) /\ In(x, after))
    <2>1. Distinct(before)
      BY Zenon, <1>1, <1>4, <1>9 DEF Distinct
    <2>2. Distinct(after)
      BY Zenon, <1>2, <1>4, <1>9 DEF Distinct
    <2>3. ASSUME NEW k \in 1 .. i - 1 PROVE k \in 1 .. Len(s) /\ k # i /\ s[k] # s[i]
      BY Zenon, <1>4, <1>9 DEF Distinct
    <2>4. ASSUME NEW k \in 1 .. Len(s) - i PROVE i + k \in 1 .. Len(s) /\ s[i + k] # s[i]
      BY Zenon, <1>4, <1>9 DEF Distinct
    <2>5. ASSUME NEW k \in 1 .. i - 1, NEW l \in 1 .. Len(s) - i PROVE s[k] # s[i + l]
      BY Zenon, <1>4, <1>9 DEF Distinct
    <2>6. ~In(s[i], before) /\ ~In(s[i], after)
      BY Zenon, <1>5, <1>6, <2>3, <2>4
    <2>7. \A x : ~(In(x, before) /\ In(x, after))
      BY Zenon, <1>5, <1>6, <2>5
    <2> QED BY Zenon, <2>1, <2>2, <2>6, <2>7
  <1> QED BY Zenon, <1>1, <1>2, <1>5, <1>7, <1>8, <1>9 DEF before, after

(* The passed routes at their limit, each once. *)
LEMMA PassedRoutes ==
    ASSUME NEW s \in Seq(Routes), Distinct(s), NEW passed \in Passed(s)
    PROVE  /\ passed \in Seq(Routes) /\ Distinct(passed)
           /\ \A q : In(q, passed) <=> In(q, s) /\ AtLimit(q)
  <1>1. passed \in Seq(Routes) /\ DOMAIN passed = 1 .. Len(passed) /\ DOMAIN s = 1 .. Len(s)
        /\ Len(passed) \in Nat /\ Len(s) \in Nat
    BY PassedType
  <1>2. /\ {passed[k] : k \in DOMAIN passed}
              = {s[k] : k \in {k \in DOMAIN s : AtLimit(s[k])}}
        /\ \A m, n \in DOMAIN passed : m < n =>
              \E k, l \in DOMAIN s : k < l /\ s[k] = passed[m] /\ s[l] = passed[n]
    BY Zenon DEF Passed
  <1>3. \A q : In(q, passed) <=> q \in {passed[k] : k \in DOMAIN passed}
    BY Zenon, <1>1 DEF In
  <1>4. \A q : In(q, s) /\ AtLimit(q) <=> q \in {s[k] : k \in {k \in DOMAIN s : AtLimit(s[k])}}
    BY Zenon, <1>1 DEF In
  <1>5. ASSUME NEW m \in 1 .. Len(passed), NEW n \in 1 .. Len(passed), m < n,
               passed[m] = passed[n]
        PROVE  FALSE
    <2>0. m \in DOMAIN passed /\ n \in DOMAIN passed
      BY Zenon, <1>1
    <2>1. PICK k \in DOMAIN s, l \in DOMAIN s :
             k < l /\ s[k] = passed[m] /\ s[l] = passed[n]
      BY Zenon, <1>2, <1>5, <2>0
    <2>2. k \in 1 .. Len(s) /\ l \in 1 .. Len(s) /\ k = l
      BY Zenon, <1>1, <1>5, <2>1 DEF Distinct
    <2> QED BY <2>1, <2>2
  <1>6. \A m, n \in 1 .. Len(passed) : m = n \/ m < n \/ n < m
    OBVIOUS
  <1>7. Distinct(passed)
    BY Zenon, <1>5, <1>6 DEF Distinct
  <1> QED BY Zenon, <1>1, <1>2, <1>3, <1>4, <1>7

(* A route is in the rotation, once, exactly while its queue is not empty. *)
Rotation ==
    /\ Distinct(ready_routes)
    /\ \A r \in Routes : In(r, ready_routes) <=> ready[r] # <<>>

(* An empty queue has no entries. *)
LEMMA EmptyQueue ==
    ASSUME NEW S, NEW s \in Seq(S)
    PROVE  /\ s = << >> <=> Len(s) = 0
           /\ s = << >> => Distinct(s) /\ \A x : ~In(x, s)
           /\ (\A x : ~In(x, s)) => s = << >>
  <1>1. s = << >> <=> Len(s) = 0
    OBVIOUS
  <1>2. Len(s) = 0 => 1 .. Len(s) = {}
    OBVIOUS
  <1>3. Len(s) # 0 => 1 \in 1 .. Len(s)
    OBVIOUS
  <1> QED BY Zenon, <1>1, <1>2, <1>3 DEF In, Distinct

(* A sequence of one. *)
LEMMA Single ==
    ASSUME NEW S, NEW x \in S
    PROVE  <<x>> \in Seq(S) /\ Distinct(<<x>>) /\ (\A y : In(y, <<x>>) <=> y = x) /\ <<x>> # << >>
  <1>1. <<x>> \in Seq(S) /\ Len(<<x>>) = 1 /\ <<x>>[1] = x
    OBVIOUS
  <1>2. \A k \in 1 .. Len(<<x>>) : k = 1
    BY <1>1
  <1>3. 1 \in 1 .. Len(<<x>>)
    BY <1>1
  <1>4. <<x>> # << >>
    BY <1>1
  <1> QED BY Zenon, <1>1, <1>2, <1>3, <1>4 DEF In, Distinct

(* What is in a queue. *)
LEMMA QueuedIn ==
    ASSUME EngineOK, NEW d, NEW r \in Routes
    PROVE  Queued(d, r) <=> In(d, ready[r])
  <1>1. ready[r] \in Seq(Deliveries)
    BY Zenon DEF EngineOK
  <1>2. DOMAIN ready[r] = 1 .. Len(ready[r])
    BY <1>1
  <1> QED BY Zenon, <1>2 DEF Queued, In

(* enqueue_ready adds one entry, and the route if it had none. *)
LEMMA EnqueueQueues ==
    ASSUME EngineOK, Rotation, NEW r \in Routes, NEW d \in Deliveries, EnqueueReady(r, d)
    PROVE  /\ \A e, q : q \in Routes => (In(e, ready'[q]) <=> In(e, ready[q]) \/ (e = d /\ q = r))
           /\ Rotation'
  <1>1. ready \in [Routes -> Seq(Deliveries)] /\ ready_routes \in Seq(Routes)
    BY Zenon DEF EngineOK
  <1>2. ready[r] \in Seq(Deliveries)
    BY Zenon, <1>1
  <1>3. /\ ready'[r] = ready[r] \o <<d>>
        /\ \A q \in Routes \ {r} : ready'[q] = ready[q]
    <2>1. Append(ready[r], d) = ready[r] \o <<d>>
      BY <1>2
    <2> QED BY Zenon, <1>1, <2>1 DEF EnqueueReady
  <1>4. ready'[r] \in Seq(Deliveries) /\ \A e : In(e, ready'[r]) <=> In(e, ready[r]) \/ e = d
    <2>1. <<d>> \in Seq(Deliveries) /\ \A e : In(e, <<d>>) <=> e = d
      BY Zenon, Single
    <2>2. /\ ready[r] \o <<d>> \in Seq(Deliveries)
          /\ \A e : In(e, ready[r] \o <<d>>) <=> In(e, ready[r]) \/ In(e, <<d>>)
      BY Zenon, <1>2, <2>1, InConcat
    <2> QED BY Zenon, <1>3, <2>1, <2>2
  <1>5. ready'[r] # << >>
    BY Zenon, <1>4, EmptyQueue
  <1>6. Rotation'
    <2>1. CASE ready[r] = << >>
      <3>1. ready_routes' = ready_routes \o <<r>>
        <4>1. Append(ready_routes, r) = ready_routes \o <<r>>
          BY <1>1
        <4> QED BY Zenon, <2>1, <4>1 DEF EnqueueReady
      <3>2. ~In(r, ready_routes)
        BY Zenon, <2>1 DEF Rotation
      <3>3. Distinct(ready_routes') /\ \A q : In(q, ready_routes') <=> In(q, ready_routes) \/ q = r
        <4>1. <<r>> \in Seq(Routes) /\ Distinct(<<r>>) /\ \A q : In(q, <<r>>) <=> q = r
          BY Zenon, Single
        <4>2. Distinct(ready_routes) /\ \A q : ~(In(q, ready_routes) /\ In(q, <<r>>))
          BY Zenon, <3>2, <4>1 DEF Rotation
        <4>3. /\ Distinct(ready_routes \o <<r>>)
              /\ \A q : In(q, ready_routes \o <<r>>) <=> In(q, ready_routes) \/ In(q, <<r>>)
          BY Zenon, <1>1, <4>1, <4>2, InConcat
        <4> QED BY Zenon, <3>1, <4>1, <4>3
      <3> QED BY Zenon, <1>3, <1>5, <3>3 DEF Rotation, Distinct, In
    <2>2. CASE ready[r] # << >>
      <3>1. ready_routes' = ready_routes
        BY Zenon, <2>2 DEF EnqueueReady
      <3> QED BY Zenon, <1>3, <1>5, <2>2, <3>1 DEF Rotation, Distinct, In
    <2> QED BY Zenon, <2>1, <2>2
  <1> QED BY Zenon, <1>3, <1>4, <1>6

(* A queue without anything to serve. *)
LEMMA DeadQueue ==
    ASSUME EngineOK, NEW k \in 1 .. Len(ready_routes), ~Serves(k), ~AtLimit(ready_routes[k]),
           NEW e, In(e, ready[ready_routes[k]])
    PROVE  ~Servable(e)
  <1>1. ready_routes[k] \in Routes
    BY DEF EngineOK
  <1>2. Queued(e, ready_routes[k])
    BY Zenon, <1>1, QueuedIn
  <1> QED BY Zenon, <1>2 DEF Queued, Serves

(* Steps that let go of queue entries let go of what cannot be served. *)
Unqueues(S) ==
    \A e, q : q \in Routes =>
       /\ In(e, ready'[q]) => In(e, ready[q])
       /\ In(e, ready[q]) => In(e, ready'[q]) \/ ~Servable(e) \/ e \in S

(* take_fair_ready, in terms of the rotation before it. *)
LEMMA TakenRotation ==
    ASSUME EngineOK, Rotation, NEW i \in 1 .. Len(ready_routes),
           NEW j \in 1 .. Len(ready[ready_routes[i]]), TakeFairReady(i, j)
    PROVE  LET r == ready_routes[i]
               rest == SubSeq(ready[r], j + 1, Len(ready[r]))
               before == SubSeq(ready_routes, 1, i - 1)
               after == SubSeq(ready_routes, i + 1, Len(ready_routes))
           IN /\ \A q : In(q, ready_routes') <=> \/ In(q, after)
                                                 \/ In(q, before) /\ AtLimit(q)
                                                 \/ rest # << >> /\ q = r
              /\ Distinct(ready_routes')
  <1> DEFINE r == ready_routes[i]
             rest == SubSeq(ready[r], j + 1, Len(ready[r]))
             before == SubSeq(ready_routes, 1, i - 1)
             after == SubSeq(ready_routes, i + 1, Len(ready_routes))
             tail == IF rest = << >> THEN << >> ELSE <<r>>
  <1>1. ready_routes \in Seq(Routes) /\ r \in Routes /\ Distinct(ready_routes)
    BY DEF EngineOK, Rotation
  <1>2. PICK passed \in Passed(before) : ready_routes' = after \o passed \o tail
    BY Zenon DEF TakeFairReady
  <1>3. /\ before \in Seq(Routes) /\ after \in Seq(Routes)
        /\ Distinct(before) /\ Distinct(after) /\ ~In(r, before) /\ ~In(r, after)
        /\ \A q : ~(In(q, before) /\ In(q, after))
    BY Zenon, <1>1, InParts
  <1>4. /\ tail \in Seq(Routes) /\ Distinct(tail)
        /\ \A q : In(q, tail) <=> rest # << >> /\ q = r
    <2>1. << >> \in Seq(Routes)
      OBVIOUS
    <2>2. <<r>> \in Seq(Routes) /\ Distinct(<<r>>) /\ \A q : In(q, <<r>>) <=> q = r
      BY Zenon, <1>1, Single
    <2> HIDE DEF rest, r
    <2>3. CASE rest = << >>
      BY Zenon, <2>1, <2>3, EmptyQueue
    <2>4. CASE rest # << >>
      BY Zenon, <2>2, <2>4
    <2> QED BY Zenon, <2>3, <2>4
  <1> HIDE DEF before, after, tail, rest, r
  <1>5. /\ passed \in Seq(Routes) /\ Distinct(passed)
        /\ \A q : In(q, passed) <=> In(q, before) /\ AtLimit(q)
    BY Zenon, <1>3, PassedRoutes
  <1>6. /\ after \o passed \in Seq(Routes) /\ Distinct(after \o passed)
        /\ \A q : In(q, after \o passed) <=> In(q, after) \/ In(q, passed)
    <2>1. \A q : ~(In(q, after) /\ In(q, passed))
      BY Zenon, <1>3, <1>5
    <2> QED BY <1>3, <1>5, <2>1, InConcat
  <1>7. /\ Distinct(after \o passed \o tail)
        /\ \A q : In(q, after \o passed \o tail) <=> In(q, after \o passed) \/ In(q, tail)
    <2>1. \A q : ~(In(q, after \o passed) /\ In(q, tail))
      BY Zenon, <1>3, <1>4, <1>5, <1>6
    <2> QED BY Zenon, <1>4, <1>6, <2>1, InConcat
  <1>8. \A q : In(q, ready_routes') <=> \/ In(q, after)
                                        \/ In(q, before) /\ AtLimit(q)
                                        \/ rest # << >> /\ q = r
    BY Zenon, <1>2, <1>4, <1>5, <1>6, <1>7
  <1>9. Distinct(ready_routes')
    BY Zenon, <1>2, <1>7
  <1> QED BY Zenon, <1>8, <1>9 DEF before, after, rest, r

(* take_fair_ready keeps the rotation and drops dead entries only. *)
LEMMA TakeQueues ==
    ASSUME EngineOK, Rotation, NEW i \in 1 .. Len(ready_routes),
           NEW j \in 1 .. Len(ready[ready_routes[i]]),
           FairChoice(i, j), TakeFairReady(i, j)
    PROVE  Rotation' /\ Unqueues({ready[ready_routes[i]][j]})
  <1> DEFINE r == ready_routes[i]
             queue == ready[r]
             rest == SubSeq(queue, j + 1, Len(queue))
             skipped == SubSeq(queue, 1, j - 1)
             before == SubSeq(ready_routes, 1, i - 1)
             after == SubSeq(ready_routes, i + 1, Len(ready_routes))
             dropped == {ready_routes[k] : k \in {k \in 1 .. i - 1 : ~AtLimit(ready_routes[k])}}
  <1>1. ready_routes \in Seq(Routes) /\ r \in Routes /\ Distinct(ready_routes)
        /\ ready \in [Routes -> Seq(Deliveries)]
    BY DEF EngineOK, Rotation
  <1>2. queue \in Seq(Deliveries)
    BY Zenon, <1>1
  <1>3. /\ \A q : In(q, ready_routes') <=> \/ In(q, after)
                                           \/ In(q, before) /\ AtLimit(q)
                                           \/ rest # << >> /\ q = r
        /\ Distinct(ready_routes')
    BY Zenon, TakenRotation
  <1>4. /\ \A q : In(q, before) <=> \E k \in 1 .. i - 1 : ready_routes[k] = q
        /\ \A q : In(q, ready_routes) <=> In(q, before) \/ q = r \/ In(q, after)
        /\ ~In(r, before) /\ ~In(r, after)
        /\ \A q : ~(In(q, before) /\ In(q, after))
    BY Zenon, <1>1, InParts
  <1>5. ready' = [q \in Routes |-> IF q = r THEN rest
                                   ELSE IF q \in dropped THEN << >> ELSE ready[q]]
    BY Zenon DEF TakeFairReady
  <1>6. \A q : q \in dropped <=> In(q, before) /\ ~AtLimit(q)
    BY ZenonT(60), <1>4
  <1>7. /\ \A e : In(e, skipped) <=> \E k \in 1 .. j - 1 : queue[k] = e
        /\ \A e : In(e, queue) <=> In(e, skipped) \/ e = queue[j] \/ In(e, rest)
    <2>1. j \in 1 .. Len(queue)
      OBVIOUS
    <2> HIDE DEF queue
    <2> QED BY ZenonT(60), <1>2, <2>1, InParts
  <1>8. /\ \A k \in 1 .. i - 1 : ~Serves(k)
        /\ \A k \in 1 .. j - 1 : ~Servable(queue[k])
    BY Zenon DEF FairChoice
  <1>9. 1 .. i - 1 \subseteq 1 .. Len(ready_routes)
    BY <1>1
  <1>10. \A q \in dropped : \A e : In(e, ready[q]) => ~Servable(e)
    BY Zenon, <1>8, <1>9, DeadQueue
  <1> HIDE DEF r, queue, rest, skipped, before, after, dropped
  <1>11. /\ ready'[r] = rest /\ r \notin dropped
         /\ \A q \in Routes \ {r} : ready'[q] = IF q \in dropped THEN << >> ELSE ready[q]
    BY Zenon, <1>1, <1>4, <1>5, <1>6
  <1>12. ASSUME NEW q \in Routes PROVE In(q, ready_routes') <=> ready'[q] # << >>
    <2>1. CASE q = r
      BY Zenon, <1>3, <1>4, <1>11, <2>1
    <2>2. CASE q # r /\ q \in dropped
      BY Zenon, <1>3, <1>4, <1>6, <1>11, <2>2
    <2>3. CASE q # r /\ q \notin dropped
      <3>1. In(q, ready_routes) <=> ready[q] # << >>
        BY Zenon DEF Rotation
      <3> QED BY Zenon, <1>3, <1>4, <1>6, <1>11, <2>3, <3>1
    <2> QED BY Zenon, <2>1, <2>2, <2>3
  <1>13. Rotation'
    BY Zenon, <1>3, <1>12 DEF Rotation
  <1>14. ASSUME NEW e, NEW q \in Routes
         PROVE  /\ In(e, ready'[q]) => In(e, ready[q])
                /\ In(e, ready[q]) => In(e, ready'[q]) \/ ~Servable(e) \/ e = queue[j]
    <2>1. CASE q = r
      BY Zenon, <1>7, <1>8, <1>11, <2>1 DEF queue
    <2>2. CASE q # r /\ q \in dropped
      <3>1. << >> \in Seq(Deliveries)
        OBVIOUS
      <3>2. ~In(e, ready'[q])
        BY Zenon, <1>11, <2>2, <3>1, EmptyQueue
      <3> QED BY Zenon, <1>10, <2>2, <3>2
    <2>3. CASE q # r /\ q \notin dropped
      BY Zenon, <1>11, <2>3
    <2> QED BY Zenon, <2>1, <2>2, <2>3
  <1> QED BY Zenon, <1>13, <1>14 DEF Unqueues, queue, r

(* So does the last, fruitless turn of take_fair_ready. *)
LEMMA EndQueues ==
    ASSUME EngineOK, Rotation, EndPrelude
    PROVE  Rotation' /\ Unqueues({})
  <1>1. ready_routes \in Seq(Routes) /\ ready \in [Routes -> Seq(Deliveries)]
        /\ Distinct(ready_routes)
    BY Zenon DEF EngineOK, Rotation
  <1>2. CASE UNCHANGED queues
    BY Zenon, <1>2 DEF queues, Rotation, Unqueues, Distinct, In
  <1>3. CASE /\ \A i \in DOMAIN ready_routes : ~Serves(i)
             /\ ready_routes' \in Passed(ready_routes)
             /\ ready' = [r \in Routes |-> IF InRotation(r) /\ ~AtLimit(r)
                                           THEN << >> ELSE ready[r]]
    <2>1. Distinct(ready_routes') /\ \A q : In(q, ready_routes') <=> In(q, ready_routes) /\ AtLimit(q)
      BY Zenon, <1>1, <1>3, PassedRoutes
    <2>2. DOMAIN ready_routes = 1 .. Len(ready_routes)
      BY <1>1
    <2>3. \A q : InRotation(q) <=> In(q, ready_routes)
      BY Zenon, <2>2 DEF InRotation, In
    <2>4. \A q \in Routes : ready'[q] = IF In(q, ready_routes) /\ ~AtLimit(q)
                                        THEN << >> ELSE ready[q]
      BY Zenon, <1>3, <2>3
    <2>5. Rotation'
      BY Zenon, <2>1, <2>4 DEF Rotation
    <2>6. ASSUME NEW e, NEW q \in Routes
          PROVE  /\ In(e, ready'[q]) => In(e, ready[q])
                 /\ In(e, ready[q]) => In(e, ready'[q]) \/ ~Servable(e)
      <3>1. CASE In(q, ready_routes) /\ ~AtLimit(q)
        <4>1. << >> \in Seq(Deliveries)
          OBVIOUS
        <4>2. ~In(e, ready'[q])
          BY Zenon, <2>4, <3>1, <4>1, EmptyQueue
        <4>3. PICK k \in 1 .. Len(ready_routes) : ready_routes[k] = q
          BY Zenon, <3>1 DEF In
        <4>4. In(e, ready[q]) => ~Servable(e)
          BY Zenon, <1>3, <2>2, <3>1, <4>3, DeadQueue
        <4> QED BY Zenon, <4>2, <4>4
      <3>2. CASE ~(In(q, ready_routes) /\ ~AtLimit(q))
        BY Zenon, <2>4, <3>2
      <3> QED BY Zenon, <3>1, <3>2
    <2> QED BY Zenon, <2>5, <2>6 DEF Unqueues
  <1> QED BY Zenon, <1>2, <1>3 DEF EndPrelude

(* A delivery has an abort handle while its lifecycle is in flight. *)
SteadyOne(e) ==
    active[e] # NoDelivery => (active[e].abort <=> active[e].state = "in_flight")

Steady == \A e \in Deliveries : SteadyOne(e)

(* Every step keeps the handle and the lifecycle together. *)
LEMMA SteadyNext ==
    ASSUME EngineInv, Steady, [Next]_vars
    PROVE  Steady'
  <1>0. DeliveriesOK /\ EngineOK /\ SweepHeld
    BY Zenon DEF EngineInv
  <1>1. CASE UNCHANGED deliveries
    BY Zenon, <1>1 DEF deliveries, lanes, Steady, SteadyOne
  <1>2. ASSUME NEW d \in Deliveries, DeliveryStep(d) PROVE Steady'
    <2>1. \A e \in Deliveries \ {d} : SteadyOne(e)'
      BY Zenon, <1>2, <1>0, OthersSame DEF Unmoved, Steady, SteadyOne
    <2>2. SteadyOne(d)'
      <3>1. active \in [Deliveries -> Held \cup {NoDelivery}]
        BY Zenon, <1>0 DEF DeliveriesOK
      <3>2. CASE active'[d] = active[d] \/ active'[d] = NoDelivery
        BY Zenon, <3>2 DEF Steady, SteadyOne
      <3>3. ASSUME NEW r \in Routes, active'[d] = Admission(r, d) PROVE SteadyOne(d)'
        <4>1. ~Admission(r, d).abort /\ Admission(r, d).state # "in_flight"
          BY Zenon DEF Admission
        <4> QED BY Zenon, <3>3, <4>1 DEF SteadyOne
      <3>4. CASE active'[d].state = "in_flight" /\ active'[d].abort
        BY Zenon, <3>4 DEF SteadyOne
      <3>5. CASE /\ active[d] # NoDelivery
                 /\ active'[d] = [active[d] EXCEPT !.state = "waiting",
                                                   !.abort = FALSE, !.due = FALSE]
        <4>1. active[d] \in Held
          BY Zenon, <3>1, <3>5
        <4>2. ~active'[d].abort /\ active'[d].state = "waiting"
          BY <3>5, <4>1 DEF Held
        <4> QED BY Zenon, <4>2 DEF SteadyOne
      <3>6. CASE /\ active[d] # NoDelivery
                 /\ active'[d] = [active[d] EXCEPT !.due = TRUE]
        <4>1. active[d] \in Held
          BY Zenon, <3>1, <3>6
        <4>2. active'[d].abort = active[d].abort /\ active'[d].state = active[d].state
          BY <3>6, <4>1 DEF Held
        <4> QED BY Zenon, <3>6, <4>2 DEF Steady, SteadyOne
      <3> QED BY Zenon, <1>0, <1>2, <3>2, <3>3, <3>4, <3>5, <3>6, ActiveStep
    <2> QED BY Zenon, <2>1, <2>2 DEF Steady
  <1>3. CASE Quiet
    BY Zenon, <1>1, <1>3, QuietDeliveries
  <1>4. CASE \E d \in Deliveries : Handles(d)
    BY Zenon, <1>0, <1>2, <1>4, HandledDeliveries
  <1>5. CASE Dispatch
    BY Zenon, <1>0, <1>2, <1>5, DispatchDeliveries DEF DeliveryStep
  <1>6. CASE Crash \/ Start
    <2>1. \A e \in Deliveries : active'[e] = NoDelivery
      BY Zenon, <1>6 DEF Crash, Start, LoseDeliveries, RecoverDeliveries, HoldNothing
    <2> QED BY Zenon, <2>1 DEF Steady, SteadyOne
  <1>7. CASE UNCHANGED vars
    BY Zenon, <1>1, <1>7 DEF vars
  <1> QED BY Zenon, <1>3, <1>4, <1>5, <1>6, <1>7, StepKinds

(* What a handler does to the delivery it is about, to the queues and to the *)
(* retry heap.                                                               *)
LEMMA HandledQueues ==
    ASSUME EngineInv, NEW d \in Deliveries, Handles(d)
    PROVE  \/ \E r \in Routes : /\ AcceptEmit(r, d) /\ active'[d] = Admission(r, d)
                                /\ EnqueueReady(r, d) /\ UNCHANGED retries
           \/ /\ UNCHANGED queues
              /\ \/ /\ active'[d] = active[d] \/ active'[d] = NoDelivery
                    /\ UNCHANGED retries
                 \/ /\ active[d] # NoDelivery
                    /\ active'[d] = [active[d] EXCEPT !.state = "waiting",
                                                      !.abort = FALSE, !.due = FALSE]
                    /\ retries' = retries \cup {RetryEntry(d)}
                 \/ /\ active[d] # NoDelivery
                    /\ active[d].state = "waiting"
                    /\ active'[d] = [active[d] EXCEPT !.due = TRUE]
                    /\ UNCHANGED retries
  <1>1. active \in [Deliveries -> Held \cup {NoDelivery}]
    BY Zenon DEF EngineInv, DeliveriesOK
  <1>2. ASSUME NEW r \in Routes, Emit(r, d)
        PROVE  \/ /\ AcceptEmit(r, d) /\ active'[d] = Admission(r, d)
                  /\ EnqueueReady(r, d) /\ UNCHANGED retries
               \/ UNCHANGED queues /\ active' = active /\ UNCHANGED retries
    BY Zenon, <1>1, <1>2 DEF Emit, AcceptEmit, InsertFails, lanes
  <1>3. ASSUME NEW r \in Routes, Call(r, d)
        PROVE  UNCHANGED queues /\ active' = active /\ UNCHANGED retries
    BY Zenon, <1>3 DEF Call, AcceptCall, InsertFails, lanes
  <1>4. ASSUME \/ JoinStaleAttempt(d) \/ JoinPanickedAttempt(d)
               \/ JoinStaleCall(d) \/ JoinPanickedCall(d) \/ CompleteCall(d)
               \/ SweepCall(d) \/ \E result \in Finished : FinishTask(d, result)
        PROVE  UNCHANGED queues /\ active' = active /\ UNCHANGED retries
    BY Zenon, <1>4 DEF JoinStaleAttempt, JoinPanickedAttempt, JoinStaleCall, JoinPanickedCall,
       CompleteCall, SweepCall, FinishTask, DropAttempt, DropCall, CompleteHeldCall, CutCall,
       EndCall, EndTask, lanes
  <1>5. CASE SweepEmit(d)
    BY Zenon, <1>1, <1>5 DEF SweepEmit, CutDelivery, EndDelivery, FinishDelivery
  <1>6. CASE CompleteAttempt(d)
    <2>1. CASE RetryAttempt(d) /\ retries' = retries \cup {RetryEntry(d)}
      BY Zenon, <1>1, <1>6, <2>1 DEF CompleteAttempt, RetryAttempt, AttemptEnded
    <2>2. CASE EndAttempt(d) /\ UNCHANGED retries
      BY Zenon, <1>1, <1>6, <2>2 DEF CompleteAttempt, EndAttempt, EndDelivery, FinishDelivery
    <2> QED BY Zenon, <1>6, <2>1, <2>2 DEF CompleteAttempt
  <1>7. CASE RetryFallsDue(d)
    BY Zenon, <1>1, <1>7 DEF RetryFallsDue, ComeDue
  <1> QED BY Zenon, <1>2, <1>3, <1>4, <1>5, <1>6, <1>7 DEF Handles

(* What a step that touches no delivery does to the queues. *)
LEMMA QuietQueues ==
    ASSUME Quiet
    PROVE  \/ EndPrelude
           \/ \E t \in sweep.retries : SweepRetry(t)
           \/ UNCHANGED <<queues, retries>>
  BY Zenon DEF Quiet, Register, Enable, BeginDrain, DrainFallsDue, Stop, ProcessDeadlines,
     ShutdownFallsDue

(* The engine starts with nothing queued. *)
LEMMA FreshRotation ==
    ASSUME ready = [r \in Routes |-> << >>], ready_routes = << >>
    PROVE  Rotation
  <1>1. << >> \in Seq(Routes)
    BY SMTT(30)
  <1> QED BY Zenon, <1>1, EmptyQueue DEF Rotation

(* Every step keeps the rotation. *)
LEMMA RotationNext ==
    ASSUME EngineInv, Rotation, [Next]_vars
    PROVE  Rotation'
  <1>0. EngineOK
    BY Zenon DEF EngineInv
  <1>1. CASE UNCHANGED queues
    BY Zenon, <1>1 DEF queues, Rotation, Distinct, In
  <1>2. ASSUME NEW t \in sweep.retries, SweepRetry(t) PROVE Rotation'
    <2>1. CASE ValidRetry(t)
      <3>1. t.delivery \in Deliveries
        BY <1>0 DEF EngineOK, Sweeps, RetryEntries
      <3>2. active[t.delivery].route \in Routes
        <4>1. active[t.delivery] \in Held
          BY Zenon, <2>1, <3>1 DEF ValidRetry, EngineInv, DeliveriesOK
        <4> QED BY <4>1 DEF Held
      <3>3. EnqueueReady(active[t.delivery].route, t.delivery)
        BY Zenon, <1>2, <2>1 DEF SweepRetry
      <3> QED BY Zenon, <1>0, <3>1, <3>2, <3>3, EnqueueQueues
    <2> QED BY Zenon, <1>1, <1>2, <2>1 DEF SweepRetry
  <1>3. CASE Quiet
    BY Zenon, <1>0, <1>1, <1>2, <1>3, QuietQueues, EndQueues
  <1>4. CASE \E d \in Deliveries : Handles(d)
    BY Zenon, <1>0, <1>1, <1>4, HandledQueues, EnqueueQueues
  <1>5. CASE Dispatch
    BY Zenon, <1>0, <1>5, DispatchChoice, TakeQueues
  <1>6. CASE Crash \/ Start
    <2>1. ready' = [r \in Routes |-> << >>] /\ ready_routes' = << >>
      BY Zenon, <1>6 DEF Crash, Start, FreshEngine
    <2>2. << >> \in Seq(Routes)
      OBVIOUS
    <2> QED BY Zenon, <2>1, <2>2, EmptyQueue DEF Rotation
  <1>7. CASE UNCHANGED vars
    BY Zenon, <1>1, <1>7 DEF vars
  <1> QED BY Zenon, <1>3, <1>4, <1>5, <1>6, <1>7, StepKinds

(* A held delivery that is not in flight will be looked at again. *)
HeapEntry(e) == \E t \in retries : t.delivery = e /\ ValidRetry(t)

Waiting(e) ==
    active[e] # NoDelivery =>
       /\ active[e].state = "ready" => In(e, ready[active[e].route])
       /\ active[e].state = "waiting" =>
             (active[e].due /\ In(e, ready[active[e].route])) \/ HeapEntry(e)

(* It does, if it keeps its live entries. *)
LEMMA KeepsWaiting ==
    ASSUME EngineInv, Steady, NEW e \in Deliveries, Waiting(e), active'[e] = active[e],
           \A q \in Routes : In(e, ready[q]) => In(e, ready'[q]) \/ ~Servable(e),
           \A t \in retries : t.delivery = e /\ ValidRetry(t) => t \in retries'
    PROVE  Waiting(e)'
  <1> SUFFICES ASSUME active[e] # NoDelivery, active[e].state # "in_flight"
               PROVE  Waiting(e)'
    <2>1. active[e].state = "in_flight" => active[e].state # "ready" /\ active[e].state # "waiting"
      OBVIOUS
    <2> QED BY Zenon, <2>1 DEF Waiting
  <1>1. active[e].route \in Routes
    <2>1. active[e] \in Held
      BY Zenon DEF EngineInv, DeliveriesOK
    <2> QED BY <2>1 DEF Held
  <1>2. Servable(e)
    BY Zenon DEF Steady, SteadyOne, Servable
  <1>3. HeapEntry(e) => HeapEntry(e)'
    <2>1. ASSUME NEW t \in retries, t.delivery = e, ValidRetry(t) PROVE ValidRetry(t)' /\ t \in retries'
      BY Zenon, <2>1 DEF ValidRetry
    <2> QED BY Zenon, <2>1 DEF HeapEntry
  <1> QED BY Zenon, <1>1, <1>2, <1>3 DEF Waiting

(* process_retry_deadlines puts what is due into its queue. *)
LEMMA RequeuedWaits ==
    ASSUME EngineInv, Steady, Rotation, NEW t \in sweep.retries, SweepRetry(t),
           NEW e \in Deliveries, Waiting(e)
    PROVE  Waiting(e)'
  <1>1. EngineOK /\ t.delivery \in Deliveries
    BY DEF EngineInv, EngineOK, Sweeps, RetryEntries
  <1>2. active' = active /\ retries' = retries \ {t}
    BY Zenon DEF SweepRetry, deliveries, lanes
  <1>3. CASE ~ValidRetry(t)
    <2>1. UNCHANGED queues
      BY Zenon, <1>3 DEF SweepRetry
    <2> QED BY Zenon, <1>2, <1>3, <2>1, KeepsWaiting DEF queues, In
  <1>4. CASE ValidRetry(t)
    <2> DEFINE r == active[t.delivery].route
    <2>1. /\ active[t.delivery] # NoDelivery /\ active[t.delivery].state = "waiting"
          /\ active[t.delivery].due
      BY Zenon, <1>4 DEF ValidRetry, EngineInv, SweepHeld
    <2>2. r \in Routes
      <3>1. active[t.delivery] \in Held
        BY Zenon, <1>1, <2>1 DEF EngineInv, DeliveriesOK
      <3> QED BY <3>1 DEF Held
    <2>3. EnqueueReady(r, t.delivery)
      BY Zenon, <1>4 DEF SweepRetry
    <2> HIDE DEF r
    <2>4. \A f, q : q \in Routes =>
             (In(f, ready'[q]) <=> In(f, ready[q]) \/ (f = t.delivery /\ q = r))
      BY Zenon, <1>1, <2>2, <2>3, EnqueueQueues
    <2>5. CASE e # t.delivery
      BY Zenon, <1>2, <2>4, <2>5, KeepsWaiting
    <2>6. CASE e = t.delivery
      <3>1. In(e, ready'[active'[e].route])
        BY Zenon, <1>2, <2>2, <2>4, <2>6 DEF r
      <3>2. active'[e].due
        BY Zenon, <1>2, <2>1, <2>6
      <3> QED BY Zenon, <3>1, <3>2 DEF Waiting
    <2> QED BY Zenon, <2>5, <2>6
  <1> QED BY Zenon, <1>3, <1>4

(* A handler queues what it accepts and what it retries. *)
LEMMA HandledWaits ==
    ASSUME EngineInv, Steady, Rotation, NEW d \in Deliveries, Handles(d),
           NEW e \in Deliveries, Waiting(e)
    PROVE  Waiting(e)'
  <1>0. DeliveriesOK /\ EngineOK /\ SweepHeld /\ active \in [Deliveries -> Held \cup {NoDelivery}]
    BY Zenon DEF EngineInv, DeliveriesOK
  <1>1. CASE e # d
    <2>1. active'[e] = active[e]
      BY Zenon, <1>0, <1>1, HandledDeliveries, OthersSame DEF Unmoved
    <2>2. /\ \A q \in Routes : In(e, ready[q]) => In(e, ready'[q])
          /\ retries \subseteq retries'
      BY Zenon, <1>0, HandledQueues, EnqueueQueues DEF queues
    <2> QED BY Zenon, <2>1, <2>2, KeepsWaiting
  <1>2. ASSUME NEW r \in Routes, active'[d] = Admission(r, d), EnqueueReady(r, d)
        PROVE  Waiting(d)'
    <2>1. Admission(r, d).state = "ready" /\ Admission(r, d).route = r
      BY Zenon DEF Admission
    <2>2. In(d, ready'[r])
      BY Zenon, <1>0, <1>2, EnqueueQueues
    <2>3. active'[d].state # "waiting"
      BY <1>2, <2>1
    <2> QED BY Zenon, <1>2, <2>1, <2>2, <2>3 DEF Waiting
  <1>3. ASSUME UNCHANGED queues, UNCHANGED retries, active'[d] = active[d], Waiting(d)
        PROVE  Waiting(d)'
    BY Zenon, <1>3, KeepsWaiting DEF queues
  <1>4. ASSUME active'[d] = NoDelivery PROVE Waiting(d)'
    BY Zenon, <1>4 DEF Waiting
  <1>5. ASSUME active[d] # NoDelivery,
               active'[d] = [active[d] EXCEPT !.state = "waiting", !.abort = FALSE, !.due = FALSE],
               retries' = retries \cup {RetryEntry(d)}
        PROVE  Waiting(d)'
    <2>1. active[d] \in Held
      BY Zenon, <1>0, <1>5
    <2>2. /\ active'[d].state = "waiting" /\ active'[d].inc = active[d].inc
          /\ active'[d].attempts = active[d].attempts
      BY <1>5, <2>1 DEF Held
    <2>3. RetryEntry(d).delivery = d /\ RetryEntry(d).inc = active[d].inc
          /\ RetryEntry(d).attempts = active[d].attempts
      BY Zenon DEF RetryEntry
    <2>4. PICK u \in retries' : /\ u.delivery = d /\ u.inc = active'[d].inc
                                /\ u.attempts = active'[d].attempts
      BY Zenon, <1>5, <2>2, <2>3
    <2>5. CASE active'[d] = NoDelivery
      BY Zenon, <2>5, <1>4
    <2>6. CASE active'[d] # NoDelivery
      <3>1. ValidRetry(u)'
        BY Zenon, <2>2, <2>4, <2>6 DEF ValidRetry
      <3>2. HeapEntry(d)'
        BY Zenon, <2>4, <3>1 DEF HeapEntry
      <3>3. active'[d].state # "ready"
        BY <2>2
      <3> QED BY Zenon, <3>2, <3>3 DEF Waiting
    <2> QED BY Zenon, <2>5, <2>6
  <1>6. ASSUME active[d] # NoDelivery, active[d].state = "waiting", Waiting(d),
               active'[d] = [active[d] EXCEPT !.due = TRUE], UNCHANGED retries, UNCHANGED queues
        PROVE  Waiting(d)'
    <2>1. active[d] \in Held
      BY Zenon, <1>0, <1>6
    <2>2. /\ active'[d].state = "waiting" /\ active'[d].inc = active[d].inc
          /\ active'[d].attempts = active[d].attempts /\ active'[d].route = active[d].route
          /\ active'[d].due
      BY <1>6, <2>1 DEF Held
    <2>3. active'[d].state # "ready"
      BY <2>2
    <2>4. CASE In(d, ready[active[d].route])
      <3>1. In(d, ready'[active'[d].route])
        BY Zenon, <1>6, <2>2, <2>4 DEF queues
      <3> QED BY Zenon, <2>2, <2>3, <3>1 DEF Waiting
    <2>5. CASE HeapEntry(d) /\ active'[d] # NoDelivery
      <3>1. HeapEntry(d)'
        <4>1. PICK t \in retries : t.delivery = d /\ ValidRetry(t)
          BY Zenon, <2>5 DEF HeapEntry
        <4>2. ValidRetry(t)' /\ t \in retries'
          BY Zenon, <1>6, <2>2, <2>5, <4>1 DEF ValidRetry
        <4> QED BY Zenon, <4>1, <4>2 DEF HeapEntry
      <3> QED BY Zenon, <2>3, <3>1 DEF Waiting
    <2> QED BY Zenon, <1>4, <1>6, <2>4, <2>5 DEF Waiting
  <1> QED BY Zenon, <1>1, <1>2, <1>3, <1>4, <1>5, <1>6, HandledQueues

(* dispatch_ready starts what it takes from a queue, or it waits for its    *)
(* deadline.                                                                *)
LEMMA ServedWaits ==
    ASSUME EngineInv, Steady, Rotation, Dispatch, NEW e \in Deliveries, Waiting(e)
    PROVE  Waiting(e)'
  <1>0. DeliveriesOK /\ EngineOK /\ retries' = retries
    BY Zenon DEF EngineInv, Dispatch
  <1>1. PICK d \in Deliveries : Serve(d) /\ Unqueues({d})
    BY Zenon, <1>0, DispatchChoice, TakeQueues
  <1>2. DeliveryStep(d)
    BY Zenon, <1>1 DEF DeliveryStep
  <1>3. CASE e # d
    <2>1. active'[e] = active[e]
      BY Zenon, <1>0, <1>2, <1>3, OthersSame DEF Unmoved
    <2>2. \A q \in Routes : In(e, ready[q]) => In(e, ready'[q]) \/ ~Servable(e)
      BY Zenon, <1>1, <1>3 DEF Unqueues
    <2> QED BY Zenon, <1>0, <2>1, <2>2, KeepsWaiting
  <1>4. CASE e = d /\ StartAttempt(d)
    <2>0. active \in [Deliveries -> Held \cup {NoDelivery}] /\ active[d] # NoDelivery
      BY Zenon, <1>0, <1>1 DEF DeliveriesOK, Serve, Servable
    <2>1. CASE StartRecorded(d)
      <3>1. active[d] \in Held
        BY Zenon, <2>0
      <3>2. active'[d] = [active[d] EXCEPT !.state = "in_flight", !.due = FALSE,
                                   !.attempts = active[d].attempts + 1, !.abort = TRUE]
        BY Zenon, <2>0, <2>1 DEF StartRecorded
      <3>3. active'[d].state = "in_flight"
        BY <3>1, <3>2 DEF Held
      <3>4. active'[d].state # "ready" /\ active'[d].state # "waiting"
        BY <3>3
      <3> QED BY Zenon, <1>4, <3>4 DEF Waiting
    <2>2. CASE StartUnrecorded(d)
      BY Zenon, <1>4, <2>0, <2>2 DEF StartUnrecorded, FinishDelivery, Waiting
    <2> QED BY Zenon, <1>4, <2>1, <2>2 DEF StartAttempt
  <1>5. CASE e = d /\ ~DriveStarts(active[d].state, active[d].due) /\ UNCHANGED deliveries
    <2>1. active' = active /\ active[d] # NoDelivery
      BY Zenon, <1>1, <1>5 DEF deliveries, lanes, Serve, Servable
    <2>2. active[d].state # "ready"
      BY Zenon, <1>5 DEF DriveStarts
    <2>3. active[d].state = "waiting" => HeapEntry(d)
      BY Zenon, <1>5, <2>1 DEF DriveStarts, Waiting
    <2>4. HeapEntry(d) => HeapEntry(d)'
      BY Zenon, <1>0, <2>1 DEF HeapEntry, ValidRetry
    <2> QED BY Zenon, <1>5, <2>1, <2>2, <2>3, <2>4 DEF Waiting
  <1> QED BY Zenon, <1>1, <1>3, <1>4, <1>5 DEF Serve

(* Every step keeps every delivery waited for. *)
LEMMA WaitingNext ==
    ASSUME EngineInv, Steady, Rotation, [Next]_vars, NEW e \in Deliveries, Waiting(e)
    PROVE  Waiting(e)'
  <1>1. ASSUME active' = active, UNCHANGED <<queues, retries>> PROVE Waiting(e)'
    BY Zenon, <1>1, KeepsWaiting DEF queues
  <1>2. CASE EndPrelude
    <2>1. EngineOK /\ active' = active
      BY Zenon, <1>2 DEF EngineInv, EndPrelude, deliveries, lanes
    <2>2. \A q \in Routes : In(e, ready[q]) => In(e, ready'[q]) \/ ~Servable(e)
      BY Zenon, <1>2, <2>1, EndQueues DEF Unqueues
    <2>3. \A t \in retries : ValidRetry(t) => t \in retries'
      BY Zenon, <1>2 DEF EndPrelude, DiscardStaleRetries, StaleRetries
    <2> QED BY Zenon, <2>1, <2>2, <2>3, KeepsWaiting
  <1>3. CASE Quiet
    <2>1. active' = active
      BY Zenon, <1>3, QuietDeliveries DEF deliveries, lanes
    <2> QED BY Zenon, <1>1, <1>2, <1>3, <2>1, QuietQueues, RequeuedWaits
  <1>4. CASE \E d \in Deliveries : Handles(d)
    BY Zenon, <1>4, HandledWaits
  <1>5. CASE Dispatch
    BY Zenon, <1>5, ServedWaits
  <1>6. CASE Crash \/ Start
    <2>1. active'[e] = NoDelivery
      BY Zenon, <1>6 DEF Crash, Start, LoseDeliveries, RecoverDeliveries, HoldNothing
    <2> QED BY Zenon, <2>1 DEF Waiting
  <1>7. CASE UNCHANGED vars
    <2>1. active' = active /\ UNCHANGED <<queues, retries>>
      BY Zenon, <1>7 DEF vars, deliveries, lanes
    <2> QED BY Zenon, <1>1, <2>1
  <1> QED BY Zenon, <1>3, <1>4, <1>5, <1>6, <1>7, StepKinds

(* The queues and the heap lose no held delivery, in every state. *)
QueuesInv == Steady /\ Rotation /\ \A e \in Deliveries : Waiting(e)

LEMMA QueuesInit == Init => QueuesInv
  <1> SUFFICES ASSUME Init PROVE QueuesInv
    OBVIOUS
  <1>1. \A e \in Deliveries : active[e] = NoDelivery
    BY Zenon DEF Init, DeliveriesInit
  <1>2. Rotation
    BY Zenon, FreshRotation DEF Init
  <1> QED BY Zenon, <1>1, <1>2 DEF QueuesInv, Steady, SteadyOne, Waiting

LEMMA QueuesNext ==
    ASSUME EngineInv, QueuesInv, [Next]_vars
    PROVE  QueuesInv'
  BY Zenon, SteadyNext, RotationNext, WaitingNext DEF QueuesInv

-----------------------------------------------------------------------------
(* The limit of a route *)

(* An operation admits one delivery at most. *)
LEMMA AdmissionsStep ==
    ASSUME DeliveriesOK, NEW d \in Deliveries, DeliveryStep(d)
    PROVE  /\ \A e \in Deliveries \ {d} : admissions'[e] = admissions[e]
           /\ admissions'[d] = admissions[d] \/ admissions'[d] = admissions[d] + 1
  <1>1. admissions \in [Deliveries -> Nat]
    BY Zenon DEF DeliveriesOK
  <1>2. admissions' = admissions \/ admissions' = [admissions EXCEPT ![d] = @ + 1]
    BY Zenon DEF DeliveryStep, InsertFails, AcceptEmit, AcceptCall, Admitted, Serve, StartAttempt,
       RetryAttempt, EndAttempt, EndDelivery, CutDelivery, CutCall, EndCall, DropAttempt, DropCall,
       CompleteHeldCall, EndTask, ComeDue, deliveries, history
  <1> QED BY Zenon, <1>1, <1>2

(* The route a queue entry belongs to: an identifier admitted once only is  *)
(* in the queue of the route that holds it, if any does.                    *)
HomedOne(e) ==
    /\ active[e] # NoDelivery => admissions[e] # 0
    /\ \A r \in Routes : In(e, ready[r]) =>
          /\ admissions[e] # 0
          /\ admissions[e] = 1 /\ active[e] # NoDelivery => active[e].route = r

Homed == \A e \in Deliveries : HomedOne(e)

LEMMA KeepsHome ==
    ASSUME NEW e \in Deliveries, HomedOne(e), admissions'[e] = admissions[e],
           active'[e] # NoDelivery =>
              active[e] # NoDelivery /\ active'[e].route = active[e].route,
           \A q \in Routes : In(e, ready'[q]) =>
              In(e, ready[q]) \/ (active[e] # NoDelivery /\ q = active[e].route)
    PROVE  HomedOne(e)'
  BY Zenon DEF HomedOne

(* An identifier admitted again may stand in any queue. *)
LEMMA AdmittedHome ==
    ASSUME DeliveriesOK, NEW e \in Deliveries, HomedOne(e), admissions'[e] = admissions[e] + 1,
           \A q \in Routes : In(e, ready'[q]) => In(e, ready[q]) \/ q = active'[e].route
    PROVE  HomedOne(e)'
  <1>1. admissions[e] \in Nat
    BY Zenon DEF DeliveriesOK
  <1>2. admissions'[e] # 0 /\ (admissions[e] # 0 => admissions'[e] # 1)
    BY <1>1
  <1> QED BY Zenon, <1>2 DEF HomedOne

(* The handlers. *)
LEMMA HandledHome ==
    ASSUME EngineInv, Rotation, Homed, NEW d \in Deliveries, Handles(d), NEW e \in Deliveries
    PROVE  HomedOne(e)'
  <1>0. /\ DeliveriesOK /\ EngineOK /\ SweepHeld /\ HomedOne(e) /\ DeliveryStep(d)
        /\ active \in [Deliveries -> Held \cup {NoDelivery}]
    BY Zenon, HandledDeliveries DEF EngineInv, Homed, DeliveriesOK
  <1>1. CASE e # d
    <2>1. active'[e] = active[e] /\ admissions'[e] = admissions[e]
      BY Zenon, <1>0, <1>1, OthersSame, AdmissionsStep DEF Unmoved
    <2>2. \A q \in Routes : In(e, ready'[q]) => In(e, ready[q])
      BY Zenon, <1>0, <1>1, HandledQueues, EnqueueQueues DEF queues
    <2> QED BY Zenon, <1>0, <2>1, <2>2, KeepsHome
  <1>2. ASSUME NEW r \in Routes, AcceptEmit(r, d), active'[d] = Admission(r, d),
               EnqueueReady(r, d), e = d
        PROVE  HomedOne(e)'
    <2>1. admissions'[d] = admissions[d] + 1
      BY Zenon, <1>0, <1>2 DEF AcceptEmit, Admitted, DeliveriesOK
    <2>2. Admission(r, d).route = r
      BY Zenon DEF Admission
    <2>3. \A q \in Routes : In(d, ready'[q]) => In(d, ready[q]) \/ q = active'[d].route
      BY Zenon, <1>0, <1>2, <2>2, EnqueueQueues
    <2> QED BY Zenon, <1>0, <1>2, <2>1, <2>3, AdmittedHome
  <1>3. ASSUME UNCHANGED queues, e = d,
               active'[d] # NoDelivery =>
                  active[d] # NoDelivery /\ active'[d].route = active[d].route
        PROVE  HomedOne(e)'
    <2>1. ready' = ready
      BY Zenon, <1>3 DEF queues
    <2>2. CASE admissions'[d] = admissions[d]
      BY Zenon, <1>0, <1>3, <2>1, <2>2, KeepsHome
    <2>3. CASE admissions'[d] = admissions[d] + 1
      BY Zenon, <1>0, <1>3, <2>1, <2>3, AdmittedHome
    <2> QED BY Zenon, <1>0, <2>2, <2>3, AdmissionsStep
  <1>4. ASSUME active[d] # NoDelivery,
               \/ active'[d] = [active[d] EXCEPT !.state = "waiting", !.abort = FALSE, !.due = FALSE]
               \/ active'[d] = [active[d] EXCEPT !.due = TRUE]
        PROVE  active'[d].route = active[d].route
    <2>1. active[d] \in Held
      BY Zenon, <1>0, <1>4
    <2> QED BY Zenon, <1>4, <2>1 DEF Held
  <1> QED BY Zenon, <1>1, <1>2, <1>3, <1>4, HandledQueues

(* Every step. *)
LEMMA HomedNext ==
    ASSUME EngineInv, Rotation, Homed, [Next]_vars
    PROVE  Homed'
  <1>0. DeliveriesOK /\ EngineOK
    BY Zenon DEF EngineInv
  <1>1. ASSUME UNCHANGED deliveries, NEW e \in Deliveries,
               \A q \in Routes : In(e, ready'[q]) =>
                  In(e, ready[q]) \/ (active[e] # NoDelivery /\ q = active[e].route)
        PROVE  HomedOne(e)'
    <2>1. active' = active /\ admissions' = admissions
      BY Zenon, <1>1 DEF deliveries, lanes, history
    <2> QED BY Zenon, <1>1, <2>1, KeepsHome DEF Homed
  <1>2. ASSUME UNCHANGED deliveries, UNCHANGED queues PROVE Homed'
    BY Zenon, <1>1, <1>2 DEF Homed, queues
  <1>3. ASSUME NEW t \in sweep.retries, SweepRetry(t), UNCHANGED deliveries PROVE Homed'
    <2>1. CASE ValidRetry(t)
      <3> DEFINE r == active[t.delivery].route
      <3>1. t.delivery \in Deliveries /\ active[t.delivery] # NoDelivery
        BY <1>0, <2>1 DEF EngineOK, Sweeps, RetryEntries, ValidRetry
      <3>2. r \in Routes
        <4>1. active[t.delivery] \in Held
          BY Zenon, <1>0, <3>1 DEF DeliveriesOK
        <4> QED BY <4>1 DEF Held
      <3>3. EnqueueReady(r, t.delivery)
        BY Zenon, <1>3, <2>1 DEF SweepRetry
      <3> HIDE DEF r
      <3>4. \A f, q : q \in Routes =>
               (In(f, ready'[q]) <=> In(f, ready[q]) \/ (f = t.delivery /\ q = r))
        BY Zenon, <1>0, <3>1, <3>2, <3>3, EnqueueQueues
      <3> QED BY Zenon, <1>1, <1>3, <3>1, <3>4 DEF Homed, r
    <2> QED BY Zenon, <1>2, <1>3, <2>1 DEF SweepRetry
  <1>4. CASE Quiet
    <2>1. UNCHANGED deliveries
      BY Zenon, <1>4, QuietDeliveries
    <2>2. CASE EndPrelude
      <3>1. \A e, q : q \in Routes /\ In(e, ready'[q]) => In(e, ready[q])
        BY Zenon, <1>0, <2>2, EndQueues DEF Unqueues
      <3> QED BY Zenon, <1>1, <2>1, <3>1 DEF Homed
    <2> QED BY Zenon, <1>2, <1>3, <1>4, <2>1, <2>2, QuietQueues
  <1>5. CASE \E d \in Deliveries : Handles(d)
    BY Zenon, <1>5, HandledHome DEF Homed
  <1>6. CASE Dispatch
    <2>1. PICK d \in Deliveries : Serve(d) /\ Unqueues({d})
      BY Zenon, <1>0, <1>6, DispatchChoice, TakeQueues
    <2>2. \A e, q : q \in Routes /\ In(e, ready'[q]) => In(e, ready[q])
      BY Zenon, <2>1 DEF Unqueues
    <2>3. admissions' = admissions
      BY Zenon, <2>1 DEF Serve, StartAttempt, deliveries, history
    <2>4. \A e \in Deliveries : active'[e] # NoDelivery =>
             active[e] # NoDelivery /\ active'[e].route = active[e].route
      BY Zenon, <1>0, <2>1, HandledStays DEF Stays
    <2> QED BY Zenon, <2>2, <2>3, <2>4, KeepsHome DEF Homed
  <1>7. CASE Crash \/ Start
    <2>0. \A q \in Routes : ready'[q] = << >>
      BY Zenon, <1>7 DEF Crash, Start, FreshEngine
    <2>1. \A e \in Deliveries : active'[e] = NoDelivery
      BY Zenon, <1>7 DEF Crash, Start, LoseDeliveries, RecoverDeliveries, HoldNothing
    <2>2. << >> \in Seq(Deliveries)
      OBVIOUS
    <2> QED BY Zenon, <2>0, <2>1, <2>2, EmptyQueue DEF Homed, HomedOne
  <1>8. CASE UNCHANGED vars
    BY Zenon, <1>2, <1>8 DEF vars
  <1> QED BY Zenon, <1>4, <1>5, <1>6, <1>7, <1>8, StepKinds

(* Attempts in flight on a route. *)
Flies(e, r) == active[e] # NoDelivery /\ active[e].abort /\ active[e].route = r

(* Of the handlers, none starts an attempt. *)
LEMMA HandledFlies ==
    ASSUME EngineInv, NEW d \in Deliveries, Handles(d), NEW e \in Deliveries, NEW r, Flies(e, r)'
    PROVE  Flies(e, r)
  <1>0. /\ DeliveriesOK /\ EngineOK /\ SweepHeld /\ DeliveryStep(d)
        /\ active \in [Deliveries -> Held \cup {NoDelivery}]
    BY Zenon, HandledDeliveries DEF EngineInv, DeliveriesOK
  <1>1. CASE active'[e] = active[e]
    BY Zenon, <1>1 DEF Flies
  <1>2. CASE e # d
    BY Zenon, <1>0, <1>1, <1>2, OthersSame DEF Unmoved
  <1>3. ASSUME NEW q \in Routes, active'[e] = Admission(q, d) PROVE FALSE
    <2>1. ~Admission(q, d).abort
      BY Zenon DEF Admission
    <2> QED BY Zenon, <1>3, <2>1 DEF Flies
  <1>4. ASSUME e = d, active[d] # NoDelivery,
               active'[d] = [active[d] EXCEPT !.state = "waiting", !.abort = FALSE, !.due = FALSE]
        PROVE  FALSE
    <2>1. active[d] \in Held
      BY Zenon, <1>0, <1>4
    <2>2. ~active'[d].abort
      BY <1>4, <2>1 DEF Held
    <2> QED BY Zenon, <1>4, <2>2 DEF Flies
  <1>5. ASSUME e = d, active[d] # NoDelivery, active'[d] = [active[d] EXCEPT !.due = TRUE]
        PROVE  Flies(e, r)
    <2>1. active[d] \in Held
      BY Zenon, <1>0, <1>5
    <2>2. active'[d].abort = active[d].abort /\ active'[d].route = active[d].route
      BY <1>5, <2>1 DEF Held
    <2> QED BY Zenon, <1>5, <2>2 DEF Flies
  <1> QED BY Zenon, <1>1, <1>2, <1>3, <1>4, <1>5, HandledQueues DEF Flies

(* dispatch_ready starts one on the route whose queue it reads, where the   *)
(* identifier was admitted once.                                            *)
LEMMA ServedFlies ==
    ASSUME EngineInv, Homed, Dispatch, NEW r \in Routes,
           \A d \in Deliveries : admissions[d] <= 1
    PROVE  \E d \in Deliveries :
              /\ \A e \in Deliveries \ {d} : Flies(e, r)' => Flies(e, r)
              /\ Flies(d, r)' => ~AtLimit(r)
  <1>0. DeliveriesOK /\ EngineOK
    BY Zenon DEF EngineInv
  <1>1. PICK i \in 1 .. Len(ready_routes) :
           /\ ready_routes[i] \in Routes
           /\ ready[ready_routes[i]] \in Seq(Deliveries)
           /\ \E j \in 1 .. Len(ready[ready_routes[i]]) :
                 /\ ready[ready_routes[i]][j] \in Deliveries
                 /\ FairChoice(i, j)
                 /\ Serve(ready[ready_routes[i]][j])
    BY Zenon, <1>0, DispatchChoice
  <1>2. PICK j \in 1 .. Len(ready[ready_routes[i]]) :
           /\ ready[ready_routes[i]][j] \in Deliveries
           /\ FairChoice(i, j)
           /\ Serve(ready[ready_routes[i]][j])
    BY Zenon, <1>1
  <1>3. PICK q \in Routes, d \in Deliveries : ~AtLimit(q) /\ Serve(d) /\ In(d, ready[q])
    BY Zenon, <1>1, <1>2 DEF FairChoice, Serves, In
  <1>4. active[d] # NoDelivery /\ DeliveryStep(d)
    BY Zenon, <1>3 DEF Serve, Servable, DeliveryStep
  <1>5. active[d].route = q
    <2>1. admissions[d] # 0 /\ (admissions[d] = 1 => active[d].route = q)
      BY Zenon, <1>3, <1>4 DEF Homed, HomedOne
    <2>2. admissions[d] \in Nat /\ admissions[d] <= 1
      BY Zenon, <1>0, <1>3 DEF DeliveriesOK
    <2>3. admissions[d] = 1
      BY SMTT(30), <2>1, <2>2
    <2> QED BY Zenon, <2>1, <2>3
  <1>6. active'[d] # NoDelivery => active'[d].route = active[d].route
    BY Zenon, <1>0, <1>3, HandledStays DEF Stays
  <1>7. Flies(d, r)' => ~AtLimit(r)
    BY Zenon, <1>3, <1>5, <1>6 DEF Flies
  <1>8. \A e \in Deliveries \ {d} : Flies(e, r)' => Flies(e, r)
    BY Zenon, <1>0, <1>3, <1>4, OthersSame DEF Unmoved, Flies
  <1> QED BY Zenon, <1>3, <1>7, <1>8

(* Every step: what is in flight on a route was, but for one that is        *)
(* started below the limit.                                                 *)
LEMMA FlightNext ==
    ASSUME EngineInv, Homed, [Next]_vars, NEW r \in Routes,
           \A d \in Deliveries : admissions'[d] <= 1
    PROVE  \/ \A e \in Deliveries : Flies(e, r)' => Flies(e, r)
           \/ /\ ~AtLimit(r)
              /\ \E d \in Deliveries : \A e \in Deliveries \ {d} : Flies(e, r)' => Flies(e, r)
  <1>1. CASE UNCHANGED deliveries
    BY Zenon, <1>1 DEF deliveries, lanes, Flies
  <1>2. CASE Quiet
    BY Zenon, <1>1, <1>2, QuietDeliveries
  <1>3. CASE \E d \in Deliveries : Handles(d)
    BY Zenon, <1>3, HandledFlies
  <1>4. CASE Dispatch
    <2>1. admissions' = admissions
      BY Zenon, <1>4, DispatchDeliveries
         DEF EngineInv, Serve, StartAttempt, deliveries, history
    <2> QED BY Zenon, <1>4, <2>1, ServedFlies
  <1>5. CASE Crash \/ Start
    <2>1. \A e \in Deliveries : active'[e] = NoDelivery
      BY Zenon, <1>5 DEF Crash, Start, LoseDeliveries, RecoverDeliveries, HoldNothing
    <2> QED BY Zenon, <2>1 DEF Flies
  <1>6. CASE UNCHANGED vars
    BY Zenon, <1>1, <1>6 DEF vars
  <1> QED BY Zenon, <1>2, <1>3, <1>4, <1>5, <1>6, StepKinds

(* An identifier is never admitted less often than before. *)
LEMMA AdmissionsGrow ==
    ASSUME EngineInv, [Next]_vars, NEW d \in Deliveries, admissions'[d] <= 1
    PROVE  admissions[d] <= 1
  <1>0. DeliveriesOK /\ EngineOK /\ SweepHeld
    BY Zenon DEF EngineInv
  <1>1. admissions[d] \in Nat
    BY Zenon, <1>0 DEF DeliveriesOK
  <1>2. CASE admissions'[d] = admissions[d] \/ admissions'[d] = admissions[d] + 1
    BY <1>1, <1>2
  <1>3. CASE UNCHANGED deliveries
    BY Zenon, <1>2, <1>3 DEF deliveries, history
  <1>4. ASSUME NEW e \in Deliveries, DeliveryStep(e) PROVE admissions[d] <= 1
    BY Zenon, <1>0, <1>2, <1>4, AdmissionsStep
  <1>5. CASE Quiet
    BY Zenon, <1>3, <1>5, QuietDeliveries
  <1>6. CASE \E e \in Deliveries : Handles(e)
    BY Zenon, <1>0, <1>4, <1>6, HandledDeliveries
  <1>7. CASE Dispatch
    BY Zenon, <1>0, <1>4, <1>7, DispatchDeliveries DEF DeliveryStep
  <1>8. CASE Crash \/ Start
    <2>1. admissions' = admissions
      BY Zenon, <1>8 DEF Crash, Start, LoseDeliveries, RecoverDeliveries
    <2> QED BY Zenon, <1>2, <2>1
  <1>9. CASE UNCHANGED vars
    BY Zenon, <1>3, <1>9 DEF vars
  <1> QED BY Zenon, <1>5, <1>6, <1>7, <1>8, <1>9, StepKinds

-----------------------------------------------------------------------------
(* Fairness of the rotation *)

(* The front of a sequence is the front of every longer one. *)
LEMMA Front ==
    ASSUME NEW S, NEW s \in Seq(S), NEW t \in Seq(S), NEW u \in Seq(S)
    PROVE  /\ s \o t \o u \in Seq(S)
           /\ \A n \in 1 .. Len(s) : n \in DOMAIN (s \o t \o u) /\ (s \o t \o u)[n] = s[n]
  <1>1. /\ s \o t \in Seq(S) /\ Len(s \o t) = Len(s) + Len(t)
        /\ \A n \in 1 .. Len(s) : (s \o t)[n] = s[n]
    OBVIOUS
  <1> DEFINE v == s \o t
  <1> HIDE DEF v
  <1>2. v \in Seq(S)
    BY <1>1 DEF v
  <1>3. /\ v \o u \in Seq(S) /\ DOMAIN (v \o u) = 1 .. Len(v) + Len(u)
        /\ \A n \in 1 .. Len(v) : (v \o u)[n] = v[n]
    BY <1>2
  <1>4. Len(u) \in Nat /\ Len(t) \in Nat /\ Len(s) \in Nat
    OBVIOUS
  <1>5. \A n \in 1 .. Len(s) : n \in 1 .. Len(v) /\ n \in 1 .. Len(v) + Len(u)
    BY <1>1, <1>4 DEF v
  <1> QED BY Zenon, <1>1, <1>3, <1>5 DEF v

(* Only dispatch_ready sends, in the prelude. *)
LEMMA DispatchSends ==
    ASSUME [Next]_vars, phase = "dispatch", sent' # sent
    PROVE  Dispatch
  <1>1. phase # "select" /\ phase # "sweep" /\ phase # "down" /\ phase # "stopped"
    OBVIOUS
  <1>2. CASE UNCHANGED deliveries
    BY Zenon, <1>2 DEF deliveries, history
  <1>3. CASE Quiet
    BY Zenon, <1>2, <1>3, QuietDeliveries
  <1>4. CASE \E d \in Deliveries : Handles(d)
    BY Zenon, <1>1, <1>4 DEF Handles, Emit, Call, CommandReady, JoinStaleAttempt,
       JoinPanickedAttempt, CompleteAttempt, JoinStaleCall, JoinPanickedCall, CompleteCall,
       SweepEmit, SweepCall, FinishTask, RetryFallsDue
  <1>5. CASE Crash
    BY Zenon, <1>5 DEF Crash, LoseDeliveries
  <1>6. CASE Start
    BY Zenon, <1>1, <1>6 DEF Start, RecoverDeliveries, Running
  <1>7. CASE UNCHANGED vars
    BY Zenon, <1>2, <1>7 DEF vars
  <1> QED BY Zenon, <1>3, <1>4, <1>5, <1>6, <1>7, StepKinds

(* The first route that can be served is served. *)
LEMMA FirstServed ==
    ASSUME EngineOK, Dispatch, NEW i \in DOMAIN ready_routes,
           \A h \in 1 .. i - 1 : ~Serves(h), Serves(i)
    PROVE  /\ i \in 1 .. Len(ready_routes)
           /\ \E j \in 1 .. Len(ready[ready_routes[i]]) : TakeFairReady(i, j)
  <1>1. ready_routes \in Seq(Routes) /\ DOMAIN ready_routes = 1 .. Len(ready_routes)
    BY DEF EngineOK
  <1>2. PICK l \in 1 .. Len(ready_routes) :
           \E j \in 1 .. Len(ready[ready_routes[l]]) : FairChoice(l, j) /\ TakeFairReady(l, j)
    BY Zenon, DispatchChoice
  <1>3. Serves(l) /\ \A h \in 1 .. l - 1 : ~Serves(h)
    BY Zenon, <1>2 DEF FairChoice
  <1>4. i \in 1 .. l - 1 \/ l \in 1 .. i - 1 \/ i = l
    BY <1>1
  <1> QED BY Zenon, <1>1, <1>2, <1>3, <1>4

(* What stands behind it then stands before it. *)
LEMMA ServedGoesLast ==
    ASSUME EngineInv, Rotation, [Next]_vars, phase = "dispatch", sent' # sent,
           NEW i \in DOMAIN ready_routes, NEW k \in DOMAIN ready_routes,
           \A h \in 1 .. i - 1 : ~Serves(h), Serves(i), k # i, Serves(k)
    PROVE  \E m \in DOMAIN ready_routes' :
              /\ ready_routes'[m] = ready_routes[k]
              /\ \A n \in DOMAIN ready_routes' :
                    ready_routes'[n] = ready_routes[i] => m < n
  <1> DEFINE before == SubSeq(ready_routes, 1, i - 1)
             after == SubSeq(ready_routes, i + 1, Len(ready_routes))
  <1>0. EngineOK /\ Dispatch
    BY Zenon, DispatchSends DEF EngineInv
  <1>1. ready_routes \in Seq(Routes) /\ DOMAIN ready_routes = 1 .. Len(ready_routes)
    BY <1>0 DEF EngineOK
  <1>2. i \in 1 .. Len(ready_routes) /\ k \in 1 .. Len(ready_routes) /\ ready_routes[i] \in Routes
    BY <1>1
  <1>3. PICK j \in 1 .. Len(ready[ready_routes[i]]) : TakeFairReady(i, j)
    BY Zenon, <1>0, FirstServed
  <1>4. PICK passed \in Passed(before), tail \in {<< >>, <<ready_routes[i]>>} :
           ready_routes' = after \o passed \o tail
    BY Zenon, <1>3 DEF TakeFairReady
  <1>5. before \in Seq(Routes) /\ after \in Seq(Routes) /\ ~In(ready_routes[i], after)
    BY Zenon, <1>1, <1>2, InParts DEF Rotation
  <1>6. passed \in Seq(Routes)
    BY Zenon, <1>4, <1>5, PassedType
  <1>7. tail \in Seq(Routes)
    <2>1. << >> \in Seq(Routes)
      OBVIOUS
    <2>2. <<ready_routes[i]>> \in Seq(Routes)
      BY <1>2
    <2> QED BY Zenon, <1>4, <2>1, <2>2
  <1>8. k > i
    <2>1. k \notin 1 .. i - 1
      BY Zenon
    <2> QED BY <1>2, <2>1
  <1>9. k - i \in 1 .. Len(after) /\ after[k - i] = ready_routes[k]
    <2>1. Len(after) = Len(ready_routes) - i
      BY SMTT(30), <1>1, <1>2
    <2>2. k - i \in 1 .. Len(after) /\ i + 1 + (k - i) - 1 = k
      <3>1. Len(ready_routes) \in Nat /\ i \in Nat /\ k \in Nat /\ k <= Len(ready_routes)
        BY <1>1, <1>2
      <3> HIDE DEF after
      <3> QED BY SMTT(30), <1>8, <2>1, <3>1
    <2>3. after[k - i] = ready_routes[i + 1 + (k - i) - 1]
      BY SMTT(30), <1>1, <1>2, <2>2
    <2> QED BY Zenon, <2>2, <2>3
  <1> HIDE DEF before, after
  <1>10. /\ ready_routes' \in Seq(Routes)
         /\ \A n \in 1 .. Len(after) : n \in DOMAIN ready_routes' /\ ready_routes'[n] = after[n]
    <2>1. /\ after \o passed \o tail \in Seq(Routes)
          /\ \A n \in 1 .. Len(after) : /\ n \in DOMAIN (after \o passed \o tail)
                                       /\ (after \o passed \o tail)[n] = after[n]
      BY <1>5, <1>6, <1>7, Front
    <2> QED BY Zenon, <1>4, <2>1
  <1>11. ASSUME NEW n \in DOMAIN ready_routes', ready_routes'[n] = ready_routes[i]
         PROVE  k - i < n
    <2>1. n \notin 1 .. Len(after)
      BY Zenon, <1>5, <1>10, <1>11 DEF In
    <2>2. n \in Nat /\ n >= 1 /\ Len(after) \in Nat
      BY <1>5, <1>10
    <2> QED BY SMTT(30), <1>2, <1>9, <2>1, <2>2
  <1> QED BY Zenon, <1>9, <1>10, <1>11
=============================================================================
