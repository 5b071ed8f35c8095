---------------------- MODULE EgressDeliveries_proofs -----------------------
(***************************************************************************)
(* The life of a delivery, for any finite set of deliveries, any set of    *)
(* routes, any limits and any combination of log faults: the engine and    *)
(* its log agree, nothing is sent unrecorded, no accepted delivery is      *)
(* lost, every call is answered and terminal outcomes are final. And the   *)
(* counters of the engine are what its maps contain, within the limits.    *)
(***************************************************************************)
EXTENDS EgressDeliveries, FiniteSetTheorems, TLAPS

-----------------------------------------------------------------------------
(* The operators *)

(* saturating_sub yields a natural number. *)
LEMMA MinusType == \A a, b \in Nat : Minus(a, b) \in Nat
  BY DEF Minus

(* A condition counts for one or nothing. *)
LEMMA OneType == \A c : One(c) \in Nat
  BY Zenon DEF One

(* admit_emit charges counters that stay natural numbers. *)
LEMMA WithDeliveryType ==
    ASSUME NEW u \in Usage, NEW d \in Deliveries
    PROVE  WithDelivery(u, d) \in Usage
  <1>1. u.pending + 1 \in Nat /\ u.bytes + Size[d] \in Nat
    BY SizeAssumption DEF Usage
  <1> QED BY Zenon, <1>1 DEF Usage, WithDelivery

(* finish_delivery gives back to counters that stay natural numbers. *)
LEMMA WithoutDeliveryType ==
    ASSUME NEW u \in Usage, NEW d \in Deliveries
    PROVE  WithoutDelivery(u, d) \in Usage /\ Settled(WithoutDelivery(u, d)) \in Usage
  <1>1. Size[d] \in Nat
    BY Zenon, SizeAssumption
  <1>2. One(active[d].abort) \in Nat
    BY Zenon, OneType
  <1>3. WithoutDelivery(u, d) \in Usage
    BY Zenon, <1>1, <1>2, MinusType DEF WithoutDelivery, Usage
  <1> QED BY Zenon, <1>3 DEF Settled, NoUsage, Usage

(* clear_in_flight, abort_in_flight and finish_call *)
LEMMA WithoutOneType ==
    ASSUME NEW u \in Usage
    PROVE  /\ WithoutInFlight(u) \in Usage
           /\ Settled(WithoutCall(u)) \in Usage
  <1>1. WithoutInFlight(u) \in Usage /\ WithoutCall(u) \in Usage
    BY Zenon, MinusType DEF WithoutInFlight, WithoutCall, Usage
  <1> QED BY Zenon, <1>1 DEF Settled, NoUsage, Usage

(* Every event ends a delivery with an outcome the runtime may record. *)
LEMMA TerminalOutcomeType ==
    ASSUME NEW state, NEW event
    PROVE  /\ TerminalOutcome(state, event) \in Outcomes
           /\ TerminalOutcome(state, event) # "unknown_after_crash"
  BY Zenon DEF TerminalOutcome, Outcomes

(* What is held has a route and a number of attempts. *)
LEMMA HeldType ==
    ASSUME DeliveriesOK, NEW d \in Deliveries
    PROVE  /\ active[d] # NoDelivery =>
                 active[d] \in Held /\ active[d].route \in Routes
                                    /\ active[d].attempts \in Nat
           /\ active_calls[d] # NoDelivery =>
                 active_calls[d] \in Held /\ active_calls[d].route \in Routes
                                          /\ active_calls[d].attempts \in Nat
  BY Zenon DEF DeliveriesOK, Held

(* What is held is not what stands for nothing. *)
LEMMA HeldIsSome == \A h : h.state # "none" => h # NoDelivery
  BY DEF NoDelivery

(* The effect of finish_delivery on the lane. *)
LEMMA FinishDeliveryType ==
    ASSUME DeliveriesOK, NEW d \in Deliveries, active[d] # NoDelivery,
           FinishDelivery(d)
    PROVE  /\ active' \in [Deliveries -> Held \cup {NoDelivery}]
           /\ usage' \in [Routes -> Usage]
           /\ global' \in Usage
  <1>1. active' \in [Deliveries -> Held \cup {NoDelivery}]
    BY Zenon DEF FinishDelivery, DeliveriesOK
  <1>2. active[d].route \in Routes
    BY Zenon, HeldType
  <1>3. usage' \in [Routes -> Usage]
    BY Zenon, <1>2, WithoutDeliveryType DEF FinishDelivery, DeliveriesOK
  <1>4. global' \in Usage
    BY Zenon, WithoutDeliveryType DEF FinishDelivery, DeliveriesOK
  <1> QED BY Zenon, <1>1, <1>3, <1>4

(* The effect of finish_call on the lane. *)
LEMMA FinishCallType ==
    ASSUME DeliveriesOK, NEW d \in Deliveries, active_calls[d] # NoDelivery,
           NEW answer \in Answers, FinishCall(d, answer)
    PROVE  /\ active_calls' \in [Deliveries -> Held \cup {NoDelivery}]
           /\ usage' \in [Routes -> Usage]
           /\ global' \in Usage
           /\ answers' \in [Deliveries -> Answers]
  <1>1. active_calls' \in [Deliveries -> Held \cup {NoDelivery}]
    BY Zenon DEF FinishCall, DeliveriesOK
  <1>2. active_calls[d].route \in Routes
    BY Zenon, HeldType
  <1>3. usage' \in [Routes -> Usage]
    BY Zenon, <1>2, WithoutOneType DEF FinishCall, DeliveriesOK
  <1>4. global' \in Usage
    <2>1. One(active_calls[d].abort) \in Nat
      BY Zenon, OneType
    <2> QED BY Zenon, <2>1, MinusType DEF FinishCall, DeliveriesOK, Usage
  <1>5. answers' \in [Deliveries -> Answers]
    BY Zenon DEF FinishCall, DeliveriesOK
  <1> QED BY Zenon, <1>1, <1>3, <1>4, <1>5

(* Whatever the write did, the log and the overrides hold records. *)
LEMMA PersistTerminalType ==
    ASSUME DeliveriesOK, NEW l \in Logs, NEW d \in Deliveries, NEW count \in Nat,
           NEW outcome \in Outcomes, NEW degraded \in BOOLEAN,
           PersistTerminal(l, d, count, outcome, degraded)
    PROVE  log' \in Logs /\ overrides' \in Logs /\ persistence_degraded' \in BOOLEAN
  <1>1. WithOutcome(l, d, outcome) \in Logs
    BY Zenon, OutcomeType
  <1>2. [overrides EXCEPT ![d] = [state |-> outcome, attempts |-> count]] \in Logs
    BY Zenon DEF DeliveriesOK, Logs, Records, LogStates
  <1>3. overrides \in Logs
    BY Zenon DEF DeliveriesOK, Logs
  <1>4. log' \in Logs /\ overrides' \in Logs
    BY Zenon, <1>1, <1>2, <1>3 DEF PersistTerminal
  <1>5. persistence_degraded' \in {degraded, TRUE}
    BY Zenon DEF PersistTerminal
  <1>6. persistence_degraded' \in BOOLEAN
    BY Zenon, <1>5
  <1> QED BY Zenon, <1>4, <1>6

(* Reclaiming leaves a log, in which a record is as it was, or gone if it   *)
(* was old enough.                                                          *)
LEMMA ReclaimingType ==
    ASSUME DeliveriesOK, NEW l \in Reclaimings
    PROVE  /\ l \in Logs
           /\ \A d \in Deliveries : l[d] = log[d] \/ (d \in Forgettable /\ l[d] = Absent)
  <1>1. PICK forgotten \in SUBSET Forgettable : l = Without(log, forgotten)
    BY Zenon DEF Reclaimings
  <1>2. log \in Logs
    BY Zenon DEF DeliveriesOK, Logs
  <1> QED BY <1>1, <1>2, WithoutType

(* A new delivery, and a call already in flight, are held properly. *)
LEMMA AdmissionType ==
    ASSUME DeliveriesOK, NEW r \in Routes, NEW d \in Deliveries
    PROVE  /\ Admission(r, d) \in Held
           /\ CallAdmission(r, d) \in Held
  <1>1. admissions[d] + 1 \in Nat
    BY DEF DeliveriesOK
  <1>2. Admission(r, d) \in Held
    BY Zenon, <1>1 DEF Admission, Held, LifecycleStates
  <1>3. ASSUME NEW h \in Held
        PROVE  [h EXCEPT !.state = "in_flight", !.attempts = 1, !.abort = TRUE] \in Held
    BY Zenon DEF Held, LifecycleStates
  <1> QED BY Zenon, <1>2, <1>3 DEF CallAdmission

-----------------------------------------------------------------------------
(* Type correctness, an operation at a time *)

(* Engine::new builds a well-typed engine. *)
LEMMA InitType == DeliveriesInit => DeliveriesOK
  <1> SUFFICES ASSUME DeliveriesInit PROVE DeliveriesOK
    OBVIOUS
  <1>1. persistence_degraded \in BOOLEAN
    BY Zenon DEF DeliveriesInit
  <1>2. NoUsage \in Usage
    BY Zenon DEF NoUsage, Usage
  <1>3. EmptyLog \in Logs /\ overrides \in Logs
    BY Zenon, EmptyLogType DEF DeliveriesInit, Logs
  <1> QED BY Zenon, <1>1, <1>2, <1>3 DEF DeliveriesInit, DeliveriesOK, Tasks, Logs, Phases, Answers

(* A failed insert_intent changes at most the log, to a log. *)
LEMMA InsertFailsType ==
    ASSUME DeliveriesOK, phase' \in Phases, NEW d \in Deliveries, InsertFails(d)
    PROVE  DeliveriesOK'
  <1>1. PICK l \in Reclaimings :
           \/ log' = l /\ UNCHANGED sent
           \/ log' = WithIntent(l, d) /\ sent' = [sent EXCEPT ![d] = 0]
    BY Zenon DEF InsertFails
  <1>2. l \in Logs
    BY Zenon, ReclaimingType
  <1>3. log' \in Logs
    BY Zenon, <1>1, <1>2, IntentType
  <1>4. sent' \in [Deliveries -> Nat]
    BY <1>1 DEF DeliveriesOK
  <1>5. accepted' \subseteq Deliveries
    BY Zenon DEF InsertFails, Remembered, DeliveriesOK
  <1> QED BY Zenon, <1>3, <1>4, <1>5 DEF Logs, DeliveriesOK, InsertFails, lanes, tasks

(* admit_emit keeps the types. *)
LEMMA AcceptEmitType ==
    ASSUME DeliveriesOK, phase' \in Phases, NEW r \in Routes, NEW d \in Deliveries,
           AcceptEmit(r, d)
    PROVE  DeliveriesOK'
  <1>1. PICK l \in Reclaimings : log' = WithIntent(l, d)
    BY Zenon DEF AcceptEmit
  <1>2. log' \in Logs
    BY Zenon, <1>1, ReclaimingType, IntentType
  <1>3. active' \in [Deliveries -> Held \cup {NoDelivery}]
    BY Zenon, AdmissionType DEF AcceptEmit, DeliveriesOK
  <1>4. usage' \in [Routes -> Usage] /\ global' \in Usage
    BY Zenon, WithDeliveryType DEF AcceptEmit, DeliveriesOK
  <1>5. /\ admissions' \in [Deliveries -> Nat] /\ accepted' \subseteq Deliveries
        /\ sent' \in [Deliveries -> Nat] /\ answers' \in [Deliveries -> Answers]
    BY DEF AcceptEmit, Admitted, Remembered, DeliveriesOK, Answers
  <1> QED BY Zenon, <1>2, <1>3, <1>4, <1>5 DEF AcceptEmit, DeliveriesOK, Logs, tasks

(* admit_call, prepare_call and start_call keep the types. *)
LEMMA AcceptCallType ==
    ASSUME DeliveriesOK, phase' \in Phases, NEW r \in Routes, NEW d \in Deliveries,
           AcceptCall(r, d)
    PROVE  DeliveriesOK'
  <1>1. PICK l \in Reclaimings :
           StartCall(r, d, WithIntent(l, d)) \/ FailCall(d, WithIntent(l, d))
    BY Zenon DEF AcceptCall
  <1> DEFINE i == WithIntent(l, d)
  <1>2. i \in Logs /\ WithAttempt(i, d, 1) \in Logs
    BY Zenon, ReclaimingType, IntentType, AttemptType
  <1>3. /\ admissions' \in [Deliveries -> Nat] /\ accepted' \subseteq Deliveries
        /\ UNCHANGED <<active, attempts>>
    BY DEF AcceptCall, Admitted, Remembered, DeliveriesOK
  <1> HIDE DEF i
  <1>4. CASE StartCall(r, d, i)
    <2>1. log' \in Logs
      BY Zenon, <1>2, <1>4 DEF StartCall
    <2>2. active_calls' \in [Deliveries -> Held \cup {NoDelivery}]
      BY Zenon, <1>4, AdmissionType DEF StartCall, DeliveriesOK
    <2>3. usage' \in [Routes -> Usage] /\ global' \in Usage
      <3> DEFINE charge(u) == [u EXCEPT !.calls = @ + 1]
      <3>1. \A u \in Usage : charge(u) \in Usage
        BY DEF Usage
      <3>2. usage' = [usage EXCEPT ![r] = charge(@)] /\ global' = charge(global)
        BY Zenon, <1>4 DEF StartCall
      <3> HIDE DEF charge
      <3> QED BY Zenon, <3>1, <3>2 DEF DeliveriesOK
    <2>4. /\ calls' \in [Deliveries -> Tasks] /\ sent' \in [Deliveries -> Nat]
          /\ answers' \in [Deliveries -> Answers]
      BY Zenon, <1>4 DEF StartCall, DeliveriesOK, Tasks, Answers
    <2> QED BY Zenon, <1>3, <1>4, <2>1, <2>2, <2>3, <2>4 DEF StartCall, DeliveriesOK, Logs
  <1>5. CASE FailCall(d, i)
    <2>1. PICK written \in Logs : PersistTerminal(written, d, 1, "failed", TRUE)
      BY Zenon, <1>2, <1>5 DEF FailCall
    <2>2. "failed" \in Outcomes /\ 1 \in Nat
      BY Zenon DEF Outcomes
    <2>3. log' \in Logs /\ overrides' \in Logs /\ persistence_degraded' \in BOOLEAN
      BY Zenon, <2>1, <2>2, PersistTerminalType
    <2>4. /\ sent' \in [Deliveries -> Nat]
          /\ answers' \in [Deliveries -> Answers]
          /\ UNCHANGED <<active_calls, usage, global, calls>>
      BY Zenon, <1>5 DEF FailCall, DeliveriesOK, Answers
    <2> QED BY Zenon, <1>3, <2>3, <2>4 DEF DeliveriesOK, Logs
  <1> QED BY Zenon, <1>1, <1>4, <1>5 DEF i

(* start_attempt, recorded or not, keeps the types. *)
LEMMA StartAttemptType ==
    ASSUME DeliveriesOK, phase' \in Phases, NEW d \in Deliveries,
           active[d] # NoDelivery, StartAttempt(d)
    PROVE  DeliveriesOK'
  <1> DEFINE count == active[d].attempts + 1
  <1>1. active[d] \in Held /\ active[d].route \in Routes /\ count \in Nat
    BY HeldType
  <1>2. log \in Logs /\ overrides \in Logs
    BY Zenon DEF DeliveriesOK, Logs
  <1>3. WithAttempt(log, d, count) \in Logs
    BY Zenon, <1>1, <1>2, AttemptType
  <1>4. UNCHANGED <<active_calls, calls, admissions, accepted, answers>>
    BY Zenon DEF StartAttempt
  <1> HIDE DEF count
  <1>5. CASE StartRecorded(d)
    <2>1. active' \in [Deliveries -> Held \cup {NoDelivery}]
      <3> DEFINE h == [active[d] EXCEPT !.state = "in_flight", !.due = FALSE,
                                        !.attempts = count, !.abort = TRUE]
      <3>1. h \in Held
        BY Zenon, <1>1 DEF Held, LifecycleStates
      <3>2. active' = [active EXCEPT ![d] = h]
        BY Zenon, <1>5 DEF StartRecorded, count, DeliveriesOK
      <3> HIDE DEF h
      <3> QED BY Zenon, <3>1, <3>2 DEF DeliveriesOK
    <2>2. usage' \in [Routes -> Usage] /\ global' \in Usage
      <3> DEFINE charge(u) == [u EXCEPT !.in_flight = @ + 1]
      <3>1. \A u \in Usage : charge(u) \in Usage
        BY DEF Usage
      <3>2. /\ usage' = [usage EXCEPT ![active[d].route] = charge(@)]
            /\ global' = charge(global)
        BY Zenon, <1>5 DEF StartRecorded
      <3> HIDE DEF charge
      <3> QED BY Zenon, <1>1, <3>1, <3>2 DEF DeliveriesOK
    <2>3. attempts' \in [Deliveries -> Tasks] /\ sent' \in [Deliveries -> Nat]
      BY <1>5 DEF StartRecorded, DeliveriesOK, Tasks
    <2>4. log' \in Logs /\ UNCHANGED <<overrides, persistence_degraded>>
      BY Zenon, <1>3, <1>5 DEF StartRecorded, count
    <2> QED BY Zenon, <1>4, <2>1, <2>2, <2>3, <2>4 DEF DeliveriesOK, Logs
  <1>6. CASE StartUnrecorded(d)
    <2>1. PICK written \in Logs : PersistTerminal(written, d, count, "failed", TRUE)
      BY Zenon, <1>2, <1>3, <1>6 DEF StartUnrecorded, count
    <2>2. "failed" \in Outcomes
      BY Zenon DEF Outcomes
    <2>3. log' \in Logs /\ overrides' \in Logs /\ persistence_degraded' \in BOOLEAN
      BY Zenon, <1>1, <2>1, <2>2, PersistTerminalType
    <2>4. FinishDelivery(d) /\ UNCHANGED <<attempts, sent>>
      BY Zenon, <1>6 DEF StartUnrecorded
    <2> QED BY Zenon, <1>4, <2>3, <2>4, FinishDeliveryType DEF DeliveriesOK, Logs
  <1> QED BY Zenon, <1>5, <1>6 DEF StartAttempt

(* complete_attempt, to be retried, keeps the types. *)
LEMMA RetryAttemptType ==
    ASSUME DeliveriesOK, phase' \in Phases, NEW d \in Deliveries, RetryAttempt(d)
    PROVE  DeliveriesOK'
  <1>1. active[d] \in Held /\ active[d].route \in Routes
    BY Zenon, HeldType DEF RetryAttempt, AttemptEnded
  <1> DEFINE h == [active[d] EXCEPT !.state = "waiting", !.abort = FALSE, !.due = FALSE]
  <1>2. h \in Held
    BY Zenon, <1>1 DEF Held, LifecycleStates
  <1>3. active' = [active EXCEPT ![d] = h]
    BY Zenon DEF RetryAttempt, DeliveriesOK
  <1> HIDE DEF h
  <1>4. active' \in [Deliveries -> Held \cup {NoDelivery}]
    BY Zenon, <1>2, <1>3 DEF DeliveriesOK
  <1>5. usage' \in [Routes -> Usage] /\ global' \in Usage
    BY Zenon, <1>1, WithoutOneType DEF RetryAttempt, DeliveriesOK
  <1>6. attempts' \in [Deliveries -> Tasks]
    BY Zenon DEF RetryAttempt, DeliveriesOK, Tasks
  <1> QED BY Zenon, <1>4, <1>5, <1>6 DEF RetryAttempt, DeliveriesOK, records, history

(* A held delivery that ends leaves the types intact. *)
LEMMA EndDeliveryType ==
    ASSUME DeliveriesOK, phase' \in Phases, NEW d \in Deliveries, NEW event,
           active[d] # NoDelivery, attempts' \in [Deliveries -> Tasks],
           EndDelivery(d, event)
    PROVE  DeliveriesOK'
  <1>1. log \in Logs /\ persistence_degraded \in BOOLEAN /\ active[d].attempts \in Nat
    BY Zenon, HeldType DEF DeliveriesOK, Logs
  <1>2. log' \in Logs /\ overrides' \in Logs /\ persistence_degraded' \in BOOLEAN
    BY Zenon, <1>1, TerminalOutcomeType, PersistTerminalType DEF EndDelivery
  <1> QED BY Zenon, <1>2, FinishDeliveryType DEF EndDelivery, DeliveriesOK, Logs, history

(* A held call that ends leaves the types intact. *)
LEMMA EndCallType ==
    ASSUME DeliveriesOK, phase' \in Phases, NEW d \in Deliveries, NEW event,
           active_calls[d] # NoDelivery, NEW answer \in Answers,
           calls' \in [Deliveries -> Tasks], EndCall(d, event, answer)
    PROVE  DeliveriesOK'
  <1>1. log \in Logs /\ persistence_degraded \in BOOLEAN
        /\ active_calls[d].attempts \in Nat
    BY Zenon, HeldType DEF DeliveriesOK, Logs
  <1>2. log' \in Logs /\ overrides' \in Logs /\ persistence_degraded' \in BOOLEAN
    BY Zenon, <1>1, TerminalOutcomeType, PersistTerminalType DEF EndCall
  <1> QED BY Zenon, <1>2, FinishCallType DEF EndCall, DeliveriesOK, Logs

(* An aborted task is a task. *)
LEMMA AbortedType ==
    ASSUME NEW set \in [Deliveries -> Tasks], NEW d \in Deliveries
    PROVE  Aborted(set, d) \in [Deliveries -> Tasks]
  BY Zenon DEF Aborted, Tasks

(* Every step of a running engine keeps the types. *)
LEMMA StepType ==
    ASSUME DeliveriesOK, phase' \in Phases, NEW d \in Deliveries, DeliveryStep(d)
    PROVE  DeliveriesOK'
  <1>1. CASE UNCHANGED deliveries
    BY Zenon, <1>1 DEF deliveries, lanes, tasks, records, history, DeliveriesOK
  <1>2. CASE Serve(d)
    BY Zenon, <1>1, <1>2, StartAttemptType DEF Serve, Servable
  <1>3. CASE EndAttempt(d)
    <2>1. attempts' \in [Deliveries -> Tasks]
      BY Zenon, <1>3 DEF EndAttempt, DeliveriesOK, Tasks
    <2> QED BY Zenon, <1>3, <2>1, EndDeliveryType DEF EndAttempt, AttemptEnded
  <1>4. ASSUME NEW event, active[d] # NoDelivery, CutDelivery(d, event)
        PROVE  DeliveriesOK'
    <2>1. attempts' \in [Deliveries -> Tasks]
      BY Zenon, <1>4, AbortedType DEF CutDelivery, DeliveriesOK
    <2> QED BY Zenon, <1>4, <2>1, EndDeliveryType DEF CutDelivery
  <1>5. ASSUME NEW event, active_calls[d] # NoDelivery, CutCall(d, event)
        PROVE  DeliveriesOK'
    <2>1. calls' \in [Deliveries -> Tasks]
      BY Zenon, <1>5, AbortedType DEF CutCall, DeliveriesOK
    <2>2. PICK answer \in Answers : EndCall(d, event, answer)
      BY Zenon, <1>5 DEF CutCall, Answers
    <2> QED BY Zenon, <1>5, <2>1, <2>2, EndCallType
  <1>6. CASE CompleteHeldCall(d)
    <2>1. calls' \in [Deliveries -> Tasks] /\ active_calls[d] # NoDelivery
      BY Zenon, <1>6 DEF CompleteHeldCall, CallEnded, DeliveriesOK, Tasks
    <2>2. PICK event : \E answer \in Answers : EndCall(d, event, answer)
      BY Zenon, <1>6 DEF CompleteHeldCall, Answers
    <2> QED BY Zenon, <2>1, <2>2, EndCallType
  <1>7. ASSUME NEW result \in Finished,
               DropAttempt(d) \/ DropCall(d) \/ EndTask(d, result)
        PROVE  DeliveriesOK'
    <2>1. attempts' \in [Deliveries -> Tasks] /\ calls' \in [Deliveries -> Tasks]
      BY Zenon, <1>7 DEF DropAttempt, DropCall, EndTask, DeliveriesOK, Tasks
    <2>2. UNCHANGED <<lanes, records, history>>
      BY Zenon, <1>7 DEF DropAttempt, DropCall, EndTask
    <2> QED BY Zenon, <2>1, <2>2 DEF lanes, records, history, DeliveriesOK
  <1>8. CASE ComeDue(d)
    <2>1. active[d] \in Held
      BY Zenon, <1>8, HeldType DEF ComeDue
    <2> DEFINE h == [active[d] EXCEPT !.due = TRUE]
    <2>2. h \in Held
      BY Zenon, <2>1 DEF Held
    <2>3. active' = [active EXCEPT ![d] = h]
      BY Zenon, <1>8 DEF ComeDue, DeliveriesOK
    <2> HIDE DEF h
    <2>4. active' \in [Deliveries -> Held \cup {NoDelivery}]
      BY Zenon, <2>2, <2>3 DEF DeliveriesOK
    <2> QED BY Zenon, <1>8, <2>4 DEF ComeDue, DeliveriesOK, tasks, records, history
  <1>9. "failed" \in Finished
    BY Zenon DEF Finished
  <1> QED BY Zenon, <1>2, <1>3, <1>4, <1>5, <1>6, <1>7, <1>8, <1>9, InsertFailsType,
             AcceptEmitType, AcceptCallType, RetryAttemptType DEF DeliveryStep

(* A crash and a start leave a well-typed engine. *)
LEMMA RestartType ==
    ASSUME DeliveriesOK, LoseDeliveries \/ RecoverDeliveries
    PROVE  DeliveriesOK'
  <1>1. /\ HoldNothing /\ phase' \in Phases /\ UNCHANGED admissions
        /\ \/ UNCHANGED <<log, accepted, sent>>
           \/ /\ log' \in {Recovered(log), EmptyLog} /\ accepted' \in {accepted, {}}
              /\ sent' \in {sent, [d \in Deliveries |-> 0]}
    BY Zenon DEF LoseDeliveries, RecoverDeliveries, Phases
  <1>2. persistence_degraded' \in BOOLEAN
    BY Zenon, <1>1 DEF HoldNothing
  <1>3. NoUsage \in Usage
    BY Zenon DEF NoUsage, Usage
  <1>4. log' \in Logs /\ overrides' \in Logs
    BY Zenon, <1>1, EmptyLogType, RecoveredType DEF HoldNothing, DeliveriesOK, Logs
  <1>5. accepted' \subseteq Deliveries /\ sent' \in [Deliveries -> Nat]
    BY <1>1 DEF DeliveriesOK
  <1> QED BY Zenon, <1>1, <1>2, <1>3, <1>4, <1>5 DEF HoldNothing, DeliveriesOK, Tasks, Logs, Answers

-----------------------------------------------------------------------------
(* The life of one delivery: what a step may do to its records, to what     *)
(* the engine holds of it, to its tasks and to what its host was told.      *)

SameRecords(d) == log'[d] = log[d] /\ overrides'[d] = overrides[d]
SameHolds(d) == active'[d] = active[d] /\ active_calls'[d] = active_calls[d]
SameTasks(d) == attempts'[d] = attempts[d] /\ calls'[d] = calls[d]
NotAccepted(d) == d \in accepted' => d \in accepted
SameHistory(d) ==
    sent'[d] = sent[d] /\ answers'[d] = answers[d] /\ NotAccepted(d)

Untouched(d) == SameRecords(d) /\ SameHolds(d) /\ SameTasks(d) /\ SameHistory(d)

(* A task ends or is joined. *)
TaskMoved(d) ==
    /\ SameRecords(d) /\ SameHolds(d) /\ SameHistory(d)
    /\ attempts'[d] \in {"running", "cancelled"} => attempts'[d] = attempts[d]
    /\ calls'[d] \in {"running", "cancelled"} => calls'[d] = calls[d]

(* A retryable attempt ended within the policy, or its retry fell due. *)
Aged(d) ==
    /\ active[d] # NoDelivery /\ active'[d] # NoDelivery
    /\ active'[d].attempts = active[d].attempts
    /\ active[d].state = "in_flight" => active[d].attempts <= MaxRetries
    /\ \/ attempts'[d] = attempts[d] /\ active'[d].abort = active[d].abort
       \/ attempts'[d] = "none" /\ ~active'[d].abort
    /\ active_calls'[d] = active_calls[d] /\ calls'[d] = calls[d]
    /\ SameRecords(d) /\ SameHistory(d)

(* Admission of an identifier that the log does not know, or forgets. *)
Fresh(d) ==
    /\ ~persistence_degraded
    /\ active[d] = NoDelivery /\ active_calls[d] = NoDelivery
    /\ overrides[d] = Absent
    /\ log[d] = Absent \/ d \in Forgettable

Pending(count) == [state |-> "pending", attempts |-> count]

Dropped(d) ==
    /\ Fresh(d) /\ d \in Forgettable
    /\ log'[d] = Absent /\ overrides'[d] = Absent
    /\ SameHolds(d) /\ SameTasks(d) /\ SameHistory(d)
    /\ d \notin accepted'

IntentLeft(d) ==
    /\ Fresh(d)
    /\ log'[d] = Pending(0) /\ overrides'[d] = Absent
    /\ SameHolds(d) /\ SameTasks(d)
    /\ sent'[d] = 0
    /\ answers'[d] = answers[d] /\ d \notin accepted'

EmitAccepted(d) ==
    /\ Fresh(d)
    /\ log'[d] = Pending(0) /\ overrides'[d] = Absent
    /\ active'[d] # NoDelivery /\ active'[d].attempts = 0 /\ ~active'[d].abort
    /\ active_calls'[d] = NoDelivery
    /\ SameTasks(d)
    /\ sent'[d] = 0 /\ answers'[d] = "none"

CallAccepted(d) ==
    /\ Fresh(d)
    /\ log'[d] = Pending(1) /\ overrides'[d] = Absent
    /\ active'[d] = NoDelivery
    /\ active_calls'[d] # NoDelivery /\ active_calls'[d].state = "in_flight"
    /\ active_calls'[d].attempts = 1 /\ active_calls'[d].abort
    /\ attempts'[d] = attempts[d] /\ calls'[d] = "running"
    /\ sent'[d] = 1 /\ answers'[d] = "waiting"
    /\ admissions'[d] = admissions[d] + 1

(* The outcome is in the log, or in an override, or in both. *)
EndedAs(d, outcome, count) ==
    /\ outcome \in Outcomes
    /\ log'[d].state \in {"pending", outcome}
    /\ log'[d].attempts = count
    /\ overrides'[d] = Absent => log'[d].state = outcome
    /\ overrides'[d] # Absent =>
          overrides'[d].state = outcome /\ persistence_degraded'

CallRefused(d) ==
    /\ Fresh(d)
    /\ \E count \in {0, 1} : EndedAs(d, "failed", count)
    /\ SameHolds(d) /\ SameTasks(d)
    /\ sent'[d] = 0 /\ answers'[d] = "failed"
    /\ admissions'[d] = admissions[d] + 1

AttemptStarted(d) ==
    /\ active[d] # NoDelivery /\ active'[d] # NoDelivery
    /\ active[d].state # "in_flight"
    /\ active'[d].state = "in_flight" /\ active'[d].abort
    /\ active'[d].attempts = active[d].attempts + 1
    /\ attempts'[d] = "running" /\ calls'[d] = calls[d]
    /\ log'[d] = Pending(active[d].attempts + 1)
    /\ overrides'[d] = overrides[d]
    /\ active_calls'[d] = active_calls[d]
    /\ sent'[d] = sent[d] + 1
    /\ answers'[d] = answers[d] /\ NotAccepted(d)

DeliveryEnded(d) ==
    /\ active[d] # NoDelivery /\ active'[d] = NoDelivery
    /\ active_calls'[d] = active_calls[d] /\ calls'[d] = calls[d]
    /\ attempts'[d] = "running" => attempts[d] = "running" /\ ~active[d].abort
    /\ \E outcome \in Outcomes, count \in {active[d].attempts, active[d].attempts + 1} :
          EndedAs(d, outcome, count)
    /\ SameHistory(d)

HeldCallEnded(d) ==
    /\ active_calls[d] # NoDelivery /\ active_calls'[d] = NoDelivery
    /\ active'[d] = active[d] /\ attempts'[d] = attempts[d]
    /\ calls'[d] = "running" => calls[d] = "running" /\ ~active_calls[d].abort
    /\ \E outcome \in Outcomes :
          /\ EndedAs(d, outcome, log[d].attempts)
          /\ (answers'[d] = "ok" /\ active_calls[d].state = "in_flight")
                => outcome = "delivered"
    /\ sent'[d] = sent[d]
    /\ answers'[d] \in {"ok", "failed", "stopped"} /\ NotAccepted(d)

LifeStep(d) ==
    /\ persistence_degraded => persistence_degraded'
    /\ \/ Untouched(d) \/ TaskMoved(d) \/ Aged(d)
       \/ Dropped(d) \/ IntentLeft(d) \/ EmitAccepted(d)
       \/ CallAccepted(d) \/ CallRefused(d)
       \/ AttemptStarted(d) \/ DeliveryEnded(d) \/ HeldCallEnded(d)

(* A step that touches no delivery. *)
LEMMA NoneTouched ==
    ASSUME UNCHANGED deliveries
    PROVE  \A d \in Deliveries : LifeStep(d)
  BY Zenon DEF deliveries, lanes, tasks, records, history, LifeStep, Untouched,
     SameRecords, SameHolds, SameTasks, SameHistory, NotAccepted

(* LogAgreement, for one delivery. *)
Agrees(d) ==
    /\ active[d] = NoDelivery \/ active_calls[d] = NoDelivery
    /\ active[d] # NoDelivery =>
          /\ log[d] = Pending(active[d].attempts)
          /\ overrides[d] = Absent
    /\ active_calls[d] # NoDelivery =>
          /\ log[d] = Pending(active_calls[d].attempts)
          /\ overrides[d] = Absent
    /\ overrides[d] # Absent =>
          /\ persistence_degraded
          /\ IsTerminal(overrides[d])
          /\ log[d].state \in {"pending", overrides[d].state}

(* The record the log reports where it holds none, and a pending one. *)
LEMMA RecordStates ==
    /\ Absent.state = "absent" /\ Absent.attempts = 0
    /\ \A n : Pending(n).state = "pending" /\ Pending(n).attempts = n
    /\ \A n : Pending(n) # Absent /\ ~IsTerminal(Pending(n))
  <1>1. \A n : Pending(n).state = "pending" /\ Pending(n).attempts = n
    BY Zenon DEF Pending
  <1>2. Absent.state = "absent" /\ Absent.attempts = 0
    BY Zenon DEF Absent
  <1> QED BY Zenon, <1>1, <1>2 DEF IsTerminal, Outcomes

(* Only a terminal record, and only of a forgetful log, may be reclaimed. *)
LEMMA ForgettableTerminal ==
    ASSUME NEW d \in Forgettable
    PROVE  Forgetful /\ IsTerminal(log[d]) /\ attempts[d] = "none" /\ calls[d] = "none"
  BY Zenon DEF Forgettable, TerminalIn

(* While a new intent is written, other deliveries keep their records or    *)
(* are reclaimed.                                                           *)
LEMMA Bystander ==
    ASSUME DeliveriesOK, NEW l \in Reclaimings, NEW e \in Deliveries, Agrees(e),
           ~persistence_degraded,
           log'[e] = l[e], overrides'[e] = overrides[e],
           SameHolds(e), SameTasks(e), SameHistory(e), l[e] = Absent => e \notin accepted'
    PROVE  LifeStep(e)
  <1>1. l[e] = log[e] \/ (e \in Forgettable /\ l[e] = Absent)
    BY Zenon, ReclaimingType
  <1>2. CASE l[e] = log[e]
    BY Zenon, <1>2 DEF LifeStep, Untouched, SameRecords
  <1>3. CASE e \in Forgettable /\ l[e] = Absent
    <2>1. IsTerminal(log[e])
      BY Zenon, <1>3, ForgettableTerminal
    <2>2. Fresh(e)
      BY Zenon, <1>3, <2>1, RecordStates DEF Agrees, Fresh
    <2> QED BY Zenon, <1>3, <2>2 DEF LifeStep, Dropped, Fresh
  <1> QED BY Zenon, <1>1, <1>2, <1>3

(* An identifier that may be admitted. *)
LEMMA Newcomer ==
    ASSUME DeliveriesOK, NEW l \in Reclaimings, NEW d \in Deliveries, Agrees(d),
           ~persistence_degraded, l[d] = Absent
    PROVE  Fresh(d)
  <1>1. log[d] = Absent \/ d \in Forgettable
    BY Zenon, ReclaimingType
  <1>2. d \in Forgettable => IsTerminal(log[d])
    BY Zenon, ForgettableTerminal
  <1> QED BY Zenon, <1>1, <1>2, RecordStates DEF Agrees, Fresh

(* persist_terminal and its kin, for the delivery and for all others. *)
LEMMA PersistTerminalLife ==
    ASSUME DeliveriesOK, NEW l \in Logs, NEW d \in Deliveries, NEW count \in Nat,
           NEW outcome \in Outcomes, outcome # "unknown_after_crash",
           NEW degraded, persistence_degraded => degraded,
           PersistTerminal(l, d, count, outcome, degraded),
           l[d].state = "pending", overrides[d] = Absent
    PROVE  /\ EndedAs(d, outcome, l[d].attempts)
           /\ persistence_degraded => persistence_degraded'
           /\ \A e \in Deliveries \ {d} : log'[e] = l[e] /\ overrides'[e] = overrides[e]
  <1> DEFINE override == [overrides EXCEPT ![d] = [state |-> outcome, attempts |-> count]]
             written == WithOutcome(l, d, outcome)
  <1>1. /\ \A e \in Deliveries \ {d} : written[e] = l[e]
        /\ written[d] = [state |-> outcome, attempts |-> l[d].attempts]
    BY Zenon, OutcomeType
  <1>2. /\ \A e \in Deliveries \ {d} : override[e] = overrides[e]
        /\ override[d] = [state |-> outcome, attempts |-> count]
    BY Zenon DEF DeliveriesOK
  <1>3. \/ log' = written /\ overrides' = overrides
        \/ log' = l /\ overrides' = overrides /\ l[d].state = outcome
        \/ /\ log' = l \/ log' = written
           /\ overrides' = override /\ persistence_degraded' = TRUE
    BY Zenon DEF PersistTerminal
  <1>4. outcome # "pending" /\ Absent.state = "absent" /\ outcome # "absent"
    BY Zenon DEF Outcomes, Absent
  <1>5. persistence_degraded' = degraded \/ persistence_degraded' = TRUE
    BY Zenon DEF PersistTerminal
  <1> HIDE DEF override, written
  <1>6. CASE log' = written /\ overrides' = overrides
    BY <1>1, <1>5, <1>6 DEF EndedAs
  <1>7. CASE (log' = l \/ log' = written) /\ overrides' = override /\ persistence_degraded' = TRUE
    <2>1. overrides'[d] = [state |-> outcome, attempts |-> count] /\ overrides'[d] # Absent
      BY <1>2, <1>4, <1>7
    <2>2. log'[d].attempts = l[d].attempts /\ log'[d].state \in {"pending", outcome}
      BY <1>1, <1>7
    <2> QED BY <1>1, <1>2, <1>7, <2>1, <2>2 DEF EndedAs
  <1> QED BY Zenon, <1>3, <1>4, <1>6, <1>7

-----------------------------------------------------------------------------
(* Every operation is a step in the life of every delivery *)

Agreeing == DeliveriesOK /\ \A d \in Deliveries : Agrees(d)

(* What is held has a pending record with the same attempts. *)
LEMMA HeldAgrees ==
    ASSUME Agreeing, NEW d \in Deliveries
    PROVE  /\ active[d] # NoDelivery =>
                 /\ log[d].state = "pending" /\ log[d].attempts = active[d].attempts
                 /\ overrides[d] = Absent /\ active_calls[d] = NoDelivery
           /\ active_calls[d] # NoDelivery =>
                 /\ log[d].state = "pending" /\ log[d].attempts = active_calls[d].attempts
                 /\ overrides[d] = Absent /\ active[d] = NoDelivery
  BY ZenonT(60), RecordStates DEF Agreeing, Agrees

(* insert_intent failed: the intent may be in the log all the same. *)
LEMMA InsertFailsLife ==
    ASSUME Agreeing, NEW d \in Deliveries, Admissible(d), InsertFails(d)
    PROVE  \A e \in Deliveries : LifeStep(e)
  <1>1. ~persistence_degraded /\ DeliveriesOK /\ \A e \in Deliveries : Agrees(e)
    BY Zenon DEF Admissible, Agreeing
  <1>2. PICK l \in Reclaimings :
           /\ accepted' = Remembered(l)
           /\ \/ log' = l /\ UNCHANGED sent
              \/ /\ l[d] = Absent /\ log' = WithIntent(l, d)
                 /\ sent' = [sent EXCEPT ![d] = 0]
    BY Zenon DEF InsertFails
  <1>3. l \in Logs
    BY Zenon, <1>1, ReclaimingType
  <1>4. \A e \in Deliveries :
           /\ SameHolds(e) /\ SameTasks(e) /\ overrides'[e] = overrides[e]
           /\ answers'[e] = answers[e]
           /\ NotAccepted(e) /\ (l[e] = Absent => e \notin accepted')
    BY Zenon, <1>2 DEF InsertFails, Remembered, lanes, tasks, SameHolds, SameTasks,
       NotAccepted
  <1> SUFFICES ASSUME NEW e \in Deliveries PROVE LifeStep(e)
    OBVIOUS
  <1>5. CASE log' = l /\ UNCHANGED sent
    BY Zenon, <1>1, <1>4, <1>5, Bystander DEF SameHistory
  <1>6. CASE l[d] = Absent /\ log' = WithIntent(l, d) /\ sent' = [sent EXCEPT ![d] = 0]
    <2>1. log'[d] = Pending(0) /\ \A f \in Deliveries \ {d} : log'[f] = l[f]
      BY Zenon, <1>3, <1>6, IntentType DEF Pending
    <2>2. sent'[d] = 0 /\ \A f \in Deliveries \ {d} : sent'[f] = sent[f]
      BY Zenon, <1>1, <1>6 DEF DeliveriesOK
    <2>3. CASE e # d
      BY Zenon, <1>1, <1>4, <2>1, <2>2, <2>3, Bystander DEF SameHistory
    <2>4. CASE e = d
      <3>1. Fresh(d)
        BY Zenon, <1>1, <1>6, Newcomer
      <3> QED BY Zenon, <1>4, <1>6, <2>1, <2>2, <2>4, <3>1 DEF LifeStep, IntentLeft, Fresh
    <2> QED BY Zenon, <2>3, <2>4
  <1> QED BY Zenon, <1>2, <1>5, <1>6

(* admit_emit *)
LEMMA AcceptEmitLife ==
    ASSUME Agreeing, NEW r \in Routes, NEW d \in Deliveries, Admissible(d),
           AcceptEmit(r, d)
    PROVE  \A e \in Deliveries : LifeStep(e)
  <1>1. ~persistence_degraded /\ DeliveriesOK /\ \A e \in Deliveries : Agrees(e)
    BY Zenon DEF Admissible, Agreeing
  <1>2. PICK l \in Reclaimings :
           /\ l[d] = Absent /\ log' = WithIntent(l, d)
           /\ accepted' = Remembered(l) \cup {d}
    BY Zenon DEF AcceptEmit
  <1>3. log'[d] = Pending(0) /\ \A e \in Deliveries \ {d} : log'[e] = l[e]
    BY Zenon, <1>1, <1>2, ReclaimingType, IntentType DEF Pending
  <1>4. Fresh(d)
    BY Zenon, <1>1, <1>2, Newcomer
  <1>5. /\ active' = [active EXCEPT ![d] = Admission(r, d)]
        /\ sent' = [sent EXCEPT ![d] = 0]
        /\ answers' = [answers EXCEPT ![d] = "none"]
        /\ UNCHANGED <<active_calls, tasks, overrides>>
    BY Zenon DEF AcceptEmit
  <1>6. /\ active'[d] = Admission(r, d) /\ sent'[d] = 0 /\ answers'[d] = "none"
        /\ \A e \in Deliveries \ {d} : /\ active'[e] = active[e] /\ sent'[e] = sent[e]
                                       /\ answers'[e] = answers[e]
    BY Zenon, <1>1, <1>5 DEF DeliveriesOK
  <1>7. /\ Admission(r, d) # NoDelivery /\ Admission(r, d).attempts = 0
        /\ ~Admission(r, d).abort
    BY Zenon, HeldIsSome DEF Admission
  <1>8. \A e \in Deliveries : SameTasks(e) /\ overrides'[e] = overrides[e]
                              /\ active_calls'[e] = active_calls[e]
    BY Zenon, <1>5 DEF SameTasks, tasks
  <1>9. LifeStep(d)
    BY Zenon, <1>3, <1>4, <1>6, <1>7, <1>8 DEF LifeStep, EmitAccepted, Fresh
  <1>10. ASSUME NEW e \in Deliveries \ {d} PROVE LifeStep(e)
    <2>1. NotAccepted(e) /\ (l[e] = Absent => e \notin accepted')
      BY Zenon, <1>2 DEF NotAccepted, Remembered
    <2>2. SameHolds(e) /\ SameHistory(e)
      BY Zenon, <1>5, <1>6, <1>8, <2>1 DEF SameHolds, SameHistory
    <2> QED BY Zenon, <1>1, <1>3, <1>8, <2>1, <2>2, Bystander
  <1> QED BY Zenon, <1>9, <1>10

(* admit_call, start_call *)
LEMMA AcceptCallLife ==
    ASSUME Agreeing, NEW r \in Routes, NEW d \in Deliveries, Admissible(d),
           AcceptCall(r, d)
    PROVE  \A e \in Deliveries : LifeStep(e)
  <1>1. ~persistence_degraded /\ DeliveriesOK /\ \A e \in Deliveries : Agrees(e)
    BY Zenon DEF Admissible, Agreeing
  <1>2. PICK l \in Reclaimings :
           /\ l[d] = Absent
           /\ StartCall(r, d, WithIntent(l, d)) \/ FailCall(d, WithIntent(l, d))
           /\ accepted' = Remembered(l) \cup {d}
    BY Zenon DEF AcceptCall
  <1> DEFINE i == WithIntent(l, d)
             a == WithAttempt(i, d, 1)
  <1>3. i \in Logs /\ i[d] = Pending(0) /\ \A e \in Deliveries \ {d} : i[e] = l[e]
    BY Zenon, <1>1, ReclaimingType, IntentType DEF Pending
  <1>4. a \in Logs /\ a[d] = Pending(1) /\ \A e \in Deliveries \ {d} : a[e] = l[e]
    <2> HIDE DEF i
    <2> QED BY <1>3, AttemptType DEF Pending
  <1>5. Fresh(d)
    BY Zenon, <1>1, <1>2, Newcomer
  <1>6. UNCHANGED <<active, attempts>> /\ admissions'[d] = admissions[d] + 1
    BY Zenon, <1>1 DEF AcceptCall, Admitted, DeliveriesOK
  <1>7. \A e \in Deliveries \ {d} :
           NotAccepted(e) /\ (l[e] = Absent => e \notin accepted')
    BY Zenon, <1>2 DEF NotAccepted, Remembered
  <1> HIDE DEF i, a
  <1>8. CASE StartCall(r, d, i)
    <2>1. /\ log' = a
          /\ active_calls' = [active_calls EXCEPT ![d] = CallAdmission(r, d)]
          /\ calls' = [calls EXCEPT ![d] = "running"]
          /\ UNCHANGED <<overrides, persistence_degraded>>
          /\ sent' = [sent EXCEPT ![d] = 1]
          /\ answers' = [answers EXCEPT ![d] = "waiting"]
      BY Zenon, <1>8 DEF StartCall, a
    <2>2. /\ CallAdmission(r, d).state = "in_flight" /\ CallAdmission(r, d) # NoDelivery
          /\ CallAdmission(r, d).attempts = 1 /\ CallAdmission(r, d).abort
      BY Zenon, HeldIsSome DEF CallAdmission, Admission
    <2>3. /\ active_calls'[d] = CallAdmission(r, d) /\ calls'[d] = "running"
          /\ sent'[d] = 1 /\ answers'[d] = "waiting"
          /\ \A e \in Deliveries \ {d} :
                /\ active_calls'[e] = active_calls[e] /\ calls'[e] = calls[e]
                /\ sent'[e] = sent[e] /\ answers'[e] = answers[e]
      BY Zenon, <1>1, <2>1 DEF DeliveriesOK
    <2>4. LifeStep(d)
      BY Zenon, <1>4, <1>5, <1>6, <2>1, <2>2, <2>3 DEF LifeStep, CallAccepted, Fresh
    <2>5. ASSUME NEW e \in Deliveries \ {d} PROVE LifeStep(e)
      <3>1. SameHolds(e) /\ SameTasks(e) /\ SameHistory(e) /\ overrides'[e] = overrides[e]
        BY Zenon, <1>6, <1>7, <2>1, <2>3 DEF SameHolds, SameTasks, SameHistory
      <3> QED BY Zenon, <1>1, <1>4, <1>7, <2>1, <3>1, Bystander
    <2> QED BY Zenon, <2>4, <2>5
  <1>9. CASE FailCall(d, i)
    <2>1. PICK written \in {i, a} : PersistTerminal(written, d, 1, "failed", TRUE)
      BY Zenon, <1>9 DEF FailCall, a
    <2>2. /\ UNCHANGED <<active_calls, calls>>
          /\ sent' = [sent EXCEPT ![d] = 0]
          /\ answers' = [answers EXCEPT ![d] = "failed"]
      BY Zenon, <1>9 DEF FailCall
    <2>3. /\ written \in Logs /\ written[d].state = "pending"
          /\ written[d].attempts \in {0, 1}
          /\ \A e \in Deliveries \ {d} : written[e] = l[e]
      BY <1>3, <1>4, <2>1, RecordStates
    <2>4. "failed" \in Outcomes /\ "failed" # "unknown_after_crash" /\ 1 \in Nat
      BY Zenon DEF Outcomes
    <2>5. /\ EndedAs(d, "failed", written[d].attempts)
          /\ persistence_degraded => persistence_degraded'
          /\ \A e \in Deliveries \ {d} : log'[e] = written[e] /\ overrides'[e] = overrides[e]
      BY Zenon, <1>1, <1>5, <2>1, <2>3, <2>4, PersistTerminalLife DEF Fresh
    <2>6. /\ sent'[d] = 0 /\ answers'[d] = "failed"
          /\ \A e \in Deliveries \ {d} : sent'[e] = sent[e] /\ answers'[e] = answers[e]
      BY Zenon, <1>1, <2>2 DEF DeliveriesOK
    <2>7. \A e \in Deliveries : SameHolds(e) /\ SameTasks(e)
      BY Zenon, <1>6, <2>2 DEF SameHolds, SameTasks
    <2>8. LifeStep(d)
      BY Zenon, <1>5, <1>6, <2>3, <2>5, <2>6, <2>7 DEF LifeStep, CallRefused
    <2>9. ASSUME NEW e \in Deliveries \ {d} PROVE LifeStep(e)
      BY Zenon, <1>1, <1>7, <2>3, <2>5, <2>6, <2>7, Bystander DEF SameHistory
    <2> QED BY Zenon, <2>8, <2>9
  <1> QED BY Zenon, <1>2, <1>8, <1>9 DEF i

(* A held delivery ends, whatever the reason. *)
LEMMA DeliveryEndLife ==
    ASSUME Agreeing, NEW d \in Deliveries, active[d] # NoDelivery,
           NEW l \in Logs, l[d].state = "pending",
           l[d].attempts \in {active[d].attempts, active[d].attempts + 1},
           \A e \in Deliveries \ {d} : l[e] = log[e],
           NEW outcome \in Outcomes, outcome # "unknown_after_crash",
           NEW count \in Nat, NEW degraded, persistence_degraded => degraded,
           PersistTerminal(l, d, count, outcome, degraded),
           FinishDelivery(d),
           attempts'[d] = "running" => attempts[d] = "running" /\ ~active[d].abort,
           \A e \in Deliveries \ {d} : attempts'[e] = attempts[e],
           UNCHANGED <<active_calls, calls, history>>
    PROVE  \A e \in Deliveries : LifeStep(e)
  <1>1. DeliveriesOK /\ overrides[d] = Absent
    BY Zenon, HeldAgrees DEF Agreeing
  <1>2. /\ EndedAs(d, outcome, l[d].attempts)
        /\ persistence_degraded => persistence_degraded'
        /\ \A e \in Deliveries \ {d} : log'[e] = l[e] /\ overrides'[e] = overrides[e]
    BY Zenon, <1>1, PersistTerminalLife
  <1>3. active'[d] = NoDelivery /\ \A e \in Deliveries \ {d} : active'[e] = active[e]
    BY Zenon, <1>1 DEF FinishDelivery, DeliveriesOK
  <1>4. \A e \in Deliveries : /\ SameHistory(e) /\ active_calls'[e] = active_calls[e]
                              /\ calls'[e] = calls[e]
    BY Zenon DEF SameHistory, NotAccepted, history
  <1>5. LifeStep(d)
    BY Zenon, <1>2, <1>3, <1>4 DEF LifeStep, DeliveryEnded
  <1>6. ASSUME NEW e \in Deliveries \ {d} PROVE LifeStep(e)
    BY Zenon, <1>2, <1>3, <1>4 DEF LifeStep, Untouched, SameRecords, SameHolds, SameTasks
  <1> QED BY Zenon, <1>5, <1>6

(* A held call ends, whatever the reason. *)
LEMMA CallEndLife ==
    ASSUME Agreeing, NEW d \in Deliveries, active_calls[d] # NoDelivery, NEW event,
           NEW answer \in {"ok", "failed", "stopped"},
           answer = "ok" => event = "delivered",
           EndCall(d, event, answer),
           calls'[d] = "running" => calls[d] = "running" /\ ~active_calls[d].abort,
           \A e \in Deliveries \ {d} : calls'[e] = calls[e]
    PROVE  \A e \in Deliveries : LifeStep(e)
  <1> DEFINE outcome == TerminalOutcome(active_calls[d].state, event)
  <1>1. DeliveriesOK /\ overrides[d] = Absent /\ log[d].state = "pending"
    BY Zenon, HeldAgrees DEF Agreeing
  <1>2. log \in Logs /\ active_calls[d].attempts \in Nat
    BY Zenon, <1>1, HeldType DEF DeliveriesOK, Logs
  <1>3. outcome \in Outcomes /\ outcome # "unknown_after_crash"
    BY Zenon, TerminalOutcomeType
  <1>4. (answer = "ok" /\ active_calls[d].state = "in_flight") => outcome = "delivered"
    BY Zenon DEF TerminalOutcome
  <1> HIDE DEF outcome
  <1>5. /\ PersistTerminal(log, d, active_calls[d].attempts, outcome, persistence_degraded)
        /\ FinishCall(d, answer)
        /\ UNCHANGED <<active, attempts, accepted, sent>>
    BY Zenon DEF EndCall, outcome
  <1>6. /\ EndedAs(d, outcome, log[d].attempts)
        /\ persistence_degraded => persistence_degraded'
        /\ \A e \in Deliveries \ {d} : log'[e] = log[e] /\ overrides'[e] = overrides[e]
    BY Zenon, <1>1, <1>2, <1>3, <1>5, PersistTerminalLife
  <1>7. /\ active_calls'[d] = NoDelivery /\ answers'[d] = answer
        /\ \A e \in Deliveries \ {d} : /\ active_calls'[e] = active_calls[e]
                                       /\ answers'[e] = answers[e]
    BY Zenon, <1>1, <1>5 DEF FinishCall, DeliveriesOK
  <1>8. LifeStep(d)
    BY Zenon, <1>3, <1>4, <1>5, <1>6, <1>7 DEF LifeStep, HeldCallEnded, NotAccepted
  <1>9. ASSUME NEW e \in Deliveries \ {d} PROVE LifeStep(e)
    BY Zenon, <1>5, <1>6, <1>7 DEF LifeStep, Untouched, SameRecords, SameHolds, SameTasks,
       SameHistory, NotAccepted
  <1> QED BY Zenon, <1>8, <1>9

(* start_attempt *)
LEMMA StartAttemptLife ==
    ASSUME Agreeing, NEW d \in Deliveries, Servable(d),
           DriveStarts(active[d].state, active[d].due), StartAttempt(d)
    PROVE  \A e \in Deliveries : LifeStep(e)
  <1> DEFINE count == active[d].attempts + 1
             a == WithAttempt(log, d, count)
  <1>1. DeliveriesOK /\ log \in Logs /\ active[d] # NoDelivery /\ ~active[d].abort
    BY Zenon DEF Agreeing, DeliveriesOK, Logs, Servable
  <1>2. count \in Nat /\ active[d] \in Held
    BY <1>1, HeldType
  <1>3. log[d].state = "pending" /\ log[d].attempts = active[d].attempts
    BY Zenon, <1>1, HeldAgrees
  <1>4. UNCHANGED <<active_calls, calls, admissions, accepted, answers>>
    BY Zenon DEF StartAttempt
  <1> HIDE DEF count
  <1>5. a \in Logs /\ a[d] = Pending(count) /\ \A e \in Deliveries \ {d} : a[e] = log[e]
    BY <1>1, <1>2, <1>3, AttemptType DEF Pending
  <1> HIDE DEF a
  <1>6. CASE StartRecorded(d)
    <2>1. /\ log' = a /\ UNCHANGED <<overrides, persistence_degraded>>
          /\ sent' = [sent EXCEPT ![d] = @ + 1]
          /\ attempts' = [attempts EXCEPT ![d] = "running"]
      BY Zenon, <1>6 DEF StartRecorded, count, a
    <2>2. /\ active'[d].state = "in_flight" /\ active'[d].abort
          /\ active'[d].attempts = count
          /\ \A e \in Deliveries \ {d} : active'[e] = active[e]
      BY Zenon, <1>1, <1>2, <1>6 DEF StartRecorded, DeliveriesOK, Held, count
    <2>3. active'[d] # NoDelivery /\ active[d].state # "in_flight"
      BY Zenon, <2>2, HeldIsSome DEF DriveStarts
    <2>4. /\ sent'[d] = sent[d] + 1 /\ attempts'[d] = "running"
          /\ \A e \in Deliveries \ {d} : sent'[e] = sent[e] /\ attempts'[e] = attempts[e]
      BY Zenon, <1>1, <2>1 DEF DeliveriesOK
    <2>5. \A e \in Deliveries : /\ overrides'[e] = overrides[e] /\ calls'[e] = calls[e]
                                /\ active_calls'[e] = active_calls[e]
                                /\ answers'[e] = answers[e] /\ NotAccepted(e)
      BY Zenon, <1>4, <2>1 DEF NotAccepted
    <2>6. LifeStep(d)
      BY Zenon, <1>1, <1>5, <2>1, <2>2, <2>3, <2>4, <2>5 DEF LifeStep, AttemptStarted, count
    <2>7. ASSUME NEW e \in Deliveries \ {d} PROVE LifeStep(e)
      BY Zenon, <1>5, <2>1, <2>2, <2>4, <2>5
         DEF LifeStep, Untouched, SameRecords, SameHolds, SameTasks, SameHistory
    <2> QED BY Zenon, <2>6, <2>7
  <1>7. CASE StartUnrecorded(d)
    <2>1. PICK written \in {log, a} : PersistTerminal(written, d, count, "failed", TRUE)
      BY Zenon, <1>7 DEF StartUnrecorded, count, a
    <2>2. FinishDelivery(d) /\ UNCHANGED <<attempts, sent>>
      BY Zenon, <1>7 DEF StartUnrecorded
    <2>3. /\ written \in Logs /\ written[d].state = "pending"
          /\ written[d].attempts \in {active[d].attempts, active[d].attempts + 1}
          /\ \A e \in Deliveries \ {d} : written[e] = log[e]
      BY ZenonT(60), <1>1, <1>3, <1>5, <2>1, RecordStates DEF count
    <2>4. "failed" \in Outcomes /\ "failed" # "unknown_after_crash"
      BY Zenon DEF Outcomes
    <2>5. UNCHANGED <<active_calls, calls, history>>
      BY Zenon, <1>4, <2>2 DEF history
    <2> QED BY Zenon, <1>1, <1>2, <2>1, <2>2, <2>3, <2>4, <2>5, DeliveryEndLife
  <1> QED BY Zenon, <1>6, <1>7 DEF StartAttempt

(* A delivery that stays held, its task and its deadline apart. *)
LEMMA AgedLife ==
    ASSUME DeliveriesOK, NEW d \in Deliveries, active[d] # NoDelivery, NEW h \in Held,
           active' = [active EXCEPT ![d] = h], h.attempts = active[d].attempts,
           active[d].state = "in_flight" => active[d].attempts <= MaxRetries,
           \/ attempts'[d] = attempts[d] /\ h.abort = active[d].abort
           \/ attempts'[d] = "none" /\ ~h.abort,
           \A e \in Deliveries \ {d} : attempts'[e] = attempts[e],
           UNCHANGED <<active_calls, calls, records, history>>
    PROVE  \A e \in Deliveries : LifeStep(e)
  <1>1. active'[d] = h /\ \A e \in Deliveries \ {d} : active'[e] = active[e]
    BY Zenon DEF DeliveriesOK
  <1>2. h # NoDelivery
    BY Zenon, HeldIsSome DEF Held, LifecycleStates
  <1>3. /\ persistence_degraded => persistence_degraded'
        /\ \A e \in Deliveries : /\ SameRecords(e) /\ SameHistory(e)
                                 /\ active_calls'[e] = active_calls[e]
                                 /\ calls'[e] = calls[e]
    BY Zenon DEF records, history, SameRecords, SameHistory, NotAccepted
  <1>4. LifeStep(d)
    BY Zenon, <1>1, <1>2, <1>3 DEF LifeStep, Aged
  <1>5. ASSUME NEW e \in Deliveries \ {d} PROVE LifeStep(e)
    BY Zenon, <1>1, <1>3 DEF LifeStep, Untouched, SameHolds, SameTasks
  <1> QED BY Zenon, <1>4, <1>5

(* complete_attempt, to be retried *)
LEMMA RetryAttemptLife ==
    ASSUME DeliveriesOK, NEW d \in Deliveries, RetryAttempt(d)
    PROVE  \A e \in Deliveries : LifeStep(e)
  <1>1. active[d] # NoDelivery /\ active[d] \in Held
    BY Zenon, HeldType DEF RetryAttempt, AttemptEnded
  <1> DEFINE h == [active[d] EXCEPT !.state = "waiting", !.abort = FALSE, !.due = FALSE]
  <1>2. h \in Held /\ h.attempts = active[d].attempts /\ ~h.abort
    BY Zenon, <1>1 DEF Held, LifecycleStates
  <1>3. active' = [active EXCEPT ![d] = h]
    BY Zenon DEF RetryAttempt, DeliveriesOK
  <1> HIDE DEF h
  <1>4. attempts'[d] = "none" /\ \A e \in Deliveries \ {d} : attempts'[e] = attempts[e]
    BY Zenon DEF RetryAttempt, DeliveriesOK
  <1>5. /\ active[d].attempts <= MaxRetries
        /\ UNCHANGED <<active_calls, calls, records, history>>
    BY Zenon DEF RetryAttempt, WithinPolicy, Retries
  <1> QED BY Zenon, <1>1, <1>2, <1>3, <1>4, <1>5, AgedLife

(* The deadline of a retry passes. *)
LEMMA ComeDueLife ==
    ASSUME DeliveriesOK, NEW d \in Deliveries, ComeDue(d)
    PROVE  \A e \in Deliveries : LifeStep(e)
  <1>1. active[d] # NoDelivery /\ active[d] \in Held /\ active[d].state = "waiting"
    BY Zenon, HeldType DEF ComeDue
  <1> DEFINE h == [active[d] EXCEPT !.due = TRUE]
  <1>2. h \in Held /\ h.attempts = active[d].attempts /\ h.abort = active[d].abort
    BY Zenon, <1>1 DEF Held
  <1>3. active' = [active EXCEPT ![d] = h]
    BY Zenon DEF ComeDue, DeliveriesOK
  <1> HIDE DEF h
  <1>4. UNCHANGED <<active_calls, attempts, calls, records, history>>
    BY Zenon DEF ComeDue, tasks
  <1>5. active[d].state # "in_flight"
    BY Zenon, <1>1
  <1> QED BY Zenon, <1>1, <1>2, <1>3, <1>4, <1>5, AgedLife

(* A held delivery is ended, by its last attempt or by a sweep. *)
LEMMA EndDeliveryLife ==
    ASSUME Agreeing, NEW d \in Deliveries, active[d] # NoDelivery, NEW event,
           EndDelivery(d, event),
           attempts'[d] = "running" => attempts[d] = "running" /\ ~active[d].abort,
           \A e \in Deliveries \ {d} : attempts'[e] = attempts[e]
    PROVE  \A e \in Deliveries : LifeStep(e)
  <1>1. log \in Logs /\ active[d].attempts \in Nat
    BY Zenon, HeldType DEF Agreeing, DeliveriesOK, Logs
  <1>2. log[d].state = "pending" /\ log[d].attempts = active[d].attempts
    BY Zenon, HeldAgrees
  <1>3. /\ PersistTerminal(log, d, active[d].attempts,
                           TerminalOutcome(active[d].state, event), persistence_degraded)
        /\ FinishDelivery(d) /\ UNCHANGED <<active_calls, calls, history>>
    BY Zenon DEF EndDelivery
  <1>4. log[d].attempts \in {active[d].attempts, active[d].attempts + 1}
    BY Zenon, <1>2
  <1> QED BY Zenon, <1>1, <1>2, <1>3, <1>4, TerminalOutcomeType, DeliveryEndLife

(* Joins and ends of tasks touch nothing else. *)
LEMMA TaskMovedLife ==
    ASSUME DeliveriesOK, NEW d \in Deliveries, NEW result \in Finished,
           DropAttempt(d) \/ DropCall(d) \/ EndTask(d, result)
    PROVE  \A e \in Deliveries : LifeStep(e)
  <1>1. \A e \in Deliveries :
           /\ attempts'[e] \in {attempts[e], "none"} \cup Finished
           /\ calls'[e] \in {calls[e], "none"} \cup Finished
    BY Zenon DEF DropAttempt, DropCall, EndTask, DeliveriesOK
  <1>2. \A e \in Deliveries :
           /\ attempts'[e] \in {"running", "cancelled"} => attempts'[e] = attempts[e]
           /\ calls'[e] \in {"running", "cancelled"} => calls'[e] = calls[e]
    BY Zenon, <1>1 DEF Finished
  <1>3. UNCHANGED <<lanes, records, history>>
    BY Zenon DEF DropAttempt, DropCall, EndTask
  <1>4. /\ persistence_degraded => persistence_degraded'
        /\ \A e \in Deliveries : SameRecords(e) /\ SameHolds(e) /\ SameHistory(e)
    BY Zenon, <1>3 DEF lanes, records, history, SameRecords, SameHolds, SameHistory,
       NotAccepted
  <1> QED BY Zenon, <1>2, <1>4 DEF LifeStep, TaskMoved

(* AbortHandle::abort, for the one task and for all others. *)
LEMMA AbortedTask ==
    ASSUME NEW set \in [Deliveries -> Tasks], NEW d \in Deliveries
    PROVE  /\ Aborted(set, d)[d] # "running"
           /\ Aborted(set, d)[d] = (IF set[d] = "running" THEN "cancelled" ELSE set[d])
           /\ \A e \in Deliveries \ {d} : Aborted(set, d)[e] = set[e]
  BY Zenon DEF Aborted

(* Every step of a running engine. *)
LEMMA StepLife ==
    ASSUME Agreeing, NEW d \in Deliveries, DeliveryStep(d)
    PROVE  \A e \in Deliveries : LifeStep(e)
  <1>1. DeliveriesOK
    BY Zenon DEF Agreeing
  <1>2. CASE Serve(d)
    BY Zenon, <1>2, NoneTouched, StartAttemptLife DEF Serve
  <1>3. CASE EndAttempt(d)
    <2>1. /\ attempts'[d] = "none"
          /\ \A e \in Deliveries \ {d} : attempts'[e] = attempts[e]
      BY Zenon, <1>1, <1>3 DEF EndAttempt, DeliveriesOK
    <2>2. attempts'[d] # "running"
      BY Zenon, <2>1
    <2> QED BY Zenon, <1>3, <2>1, <2>2, EndDeliveryLife DEF EndAttempt, AttemptEnded
  <1>4. ASSUME NEW event, active[d] # NoDelivery, CutDelivery(d, event)
        PROVE  \A e \in Deliveries : LifeStep(e)
    <2>1. attempts \in [Deliveries -> Tasks]
      BY Zenon, <1>1 DEF DeliveriesOK
    <2>2. /\ attempts'[d] = "running" => attempts[d] = "running" /\ ~active[d].abort
          /\ \A e \in Deliveries \ {d} : attempts'[e] = attempts[e]
      BY Zenon, <1>4, <2>1, AbortedTask DEF CutDelivery
    <2> QED BY Zenon, <1>4, <2>2, EndDeliveryLife DEF CutDelivery
  <1>5. ASSUME NEW event, active_calls[d] # NoDelivery, CutCall(d, event)
        PROVE  \A e \in Deliveries : LifeStep(e)
    <2> DEFINE answer == IF event = "shutdown" THEN "stopped" ELSE "failed"
    <2>1. calls \in [Deliveries -> Tasks]
      BY Zenon, <1>1 DEF DeliveriesOK
    <2>2. /\ calls'[d] = "running" => calls[d] = "running" /\ ~active_calls[d].abort
          /\ \A e \in Deliveries \ {d} : calls'[e] = calls[e]
      BY Zenon, <1>5, <2>1, AbortedTask DEF CutCall
    <2>3. EndCall(d, event, answer)
      BY Zenon, <1>5 DEF CutCall
    <2>4. answer \in {"ok", "failed", "stopped"} /\ answer # "ok"
      OBVIOUS
    <2> HIDE DEF answer
    <2> QED BY Zenon, <1>5, <2>2, <2>3, <2>4, CallEndLife
  <1>6. CASE CompleteHeldCall(d)
    <2> DEFINE event == IF calls[d] = "empty" THEN "delivered" ELSE calls[d]
               answer == IF calls[d] = "delivered" THEN "ok" ELSE "failed"
    <2>1. /\ calls'[d] = "none" /\ calls'[d] # "running"
          /\ \A e \in Deliveries \ {d} : calls'[e] = calls[e]
      BY Zenon, <1>1, <1>6 DEF CompleteHeldCall, DeliveriesOK
    <2>2. EndCall(d, event, answer) /\ active_calls[d] # NoDelivery
      BY Zenon, <1>6 DEF CompleteHeldCall, CallEnded
    <2>3. answer \in {"ok", "failed", "stopped"} /\ (answer = "ok" => event = "delivered")
      OBVIOUS
    <2> HIDE DEF event, answer
    <2> QED BY Zenon, <2>1, <2>2, <2>3, CallEndLife
  <1>7. "failed" \in Finished
    BY Zenon DEF Finished
  <1> QED BY Zenon, <1>1, <1>2, <1>3, <1>4, <1>5, <1>6, <1>7, InsertFailsLife,
             AcceptEmitLife, AcceptCallLife, RetryAttemptLife, TaskMovedLife, ComeDueLife
             DEF DeliveryStep

-----------------------------------------------------------------------------
(* What every step in the life of a delivery preserves *)

(* LogAgreement, for one delivery. *)
LEMMA AgreesLives ==
    ASSUME NEW d \in Deliveries, Agrees(d), LifeStep(d)
    PROVE  Agrees(d)'
  <1>1. persistence_degraded => persistence_degraded'
    BY Zenon DEF LifeStep
  <1>2. \A n : Pending(n)' = Pending(n)
    BY Zenon DEF Pending
  <1>3. CASE /\ SameRecords(d) /\ active_calls'[d] = active_calls[d]
             /\ \/ active'[d] = active[d]
                \/ active[d] # NoDelivery /\ active'[d].attempts = active[d].attempts
    BY Zenon, <1>1, <1>3 DEF SameRecords, Agrees, IsTerminal, Pending
  <1>4. CASE Dropped(d) \/ IntentLeft(d)
    BY Zenon, <1>4 DEF Dropped, IntentLeft, SameHolds, Fresh, Agrees
  <1>5. CASE EmitAccepted(d) \/ CallAccepted(d)
    BY Zenon, <1>5 DEF EmitAccepted, CallAccepted, Fresh, Agrees, Pending
  <1>6. ASSUME NEW outcome, NEW count, EndedAs(d, outcome, count),
               active'[d] = NoDelivery, active_calls'[d] = NoDelivery
        PROVE  Agrees(d)'
    BY Zenon, <1>6 DEF EndedAs, Agrees, IsTerminal
  <1>7. CASE CallRefused(d)
    BY Zenon, <1>6, <1>7 DEF CallRefused, SameHolds, Fresh
  <1>8. CASE AttemptStarted(d)
    BY Zenon, <1>8 DEF AttemptStarted, Agrees, Pending
  <1>9. CASE DeliveryEnded(d)
    BY Zenon, <1>6, <1>9 DEF DeliveryEnded, Agrees
  <1>10. CASE HeldCallEnded(d)
    BY Zenon, <1>6, <1>10 DEF HeldCallEnded, Agrees
  <1> QED BY Zenon, <1>3, <1>4, <1>5, <1>7, <1>8, <1>9, <1>10
             DEF LifeStep, Untouched, TaskMoved, Aged, SameHolds

(* Whoever runs is held in flight, and whoever was aborted is not. *)
Owned(d) ==
    /\ attempts[d] = "running" => active[d] # NoDelivery /\ active[d].abort
    /\ attempts[d] = "cancelled" => active[d] = NoDelivery \/ ~active[d].abort
    /\ calls[d] = "running" => active_calls[d] # NoDelivery /\ active_calls[d].abort
    /\ calls[d] = "cancelled" => active_calls[d] = NoDelivery \/ ~active_calls[d].abort

(* A task and the delivery it belongs to come and go together. *)
LEMMA OwnedLives ==
    ASSUME NEW d \in Deliveries, Owned(d), LifeStep(d)
    PROVE  Owned(d)'
  <1>1. CASE Untouched(d) \/ TaskMoved(d)
    BY Zenon, <1>1 DEF Untouched, TaskMoved, SameHolds, SameTasks, Owned
  <1>2. CASE Aged(d)
    BY Zenon, <1>2 DEF Aged, Owned
  <1>3. CASE Dropped(d) \/ IntentLeft(d) \/ CallRefused(d)
    BY Zenon, <1>3 DEF Dropped, IntentLeft, CallRefused, SameHolds, SameTasks, Owned
  <1>4. CASE EmitAccepted(d)
    BY Zenon, <1>4 DEF EmitAccepted, Fresh, SameTasks, Owned
  <1>5. CASE CallAccepted(d)
    BY Zenon, <1>5 DEF CallAccepted, Fresh, Owned
  <1>6. CASE AttemptStarted(d)
    BY Zenon, <1>6 DEF AttemptStarted, Owned
  <1>7. CASE DeliveryEnded(d)
    BY Zenon, <1>7 DEF DeliveryEnded, Owned
  <1>8. CASE HeldCallEnded(d)
    BY Zenon, <1>8 DEF HeldCallEnded, Owned
  <1> QED BY Zenon, <1>1, <1>2, <1>3, <1>4, <1>5, <1>6, <1>7, <1>8 DEF LifeStep

(* RecordedBeforeSent, CallsAnswered and NothingLost, for one delivery, with *)
(* what their steps need: a delivery that is not in flight has attempts      *)
(* left, a call is in flight as long as it is held, and the log has a record *)
(* of whatever was accepted and not reclaimed, from which a restart learns.  *)
Recorded(d) ==
    /\ log[d] # Absent => sent[d] <= log[d].attempts
    /\ sent[d] <= MaxRetries + 1
    /\ (active[d] # NoDelivery /\ active[d].state # "in_flight")
          => active[d].attempts <= MaxRetries

Answered(d) ==
    /\ active[d] # NoDelivery => answers[d] = "none"
    /\ active_calls[d] # NoDelivery => active_calls[d].state = "in_flight"
    /\ answers[d] = "waiting" <=> active_calls[d] # NoDelivery
    /\ (answers[d] = "ok" /\ d \in accepted) => Status(d).state = "delivered"

Kept(d) == d \in accepted =>
    /\ log[d].state # "absent"
    /\ phase # "down" => \/ active[d] # NoDelivery \/ active_calls[d] # NoDelivery
                         \/ IsTerminal(Status(d))

Lived(d) == Recorded(d) /\ Answered(d) /\ Kept(d)

(* What the outcome does to the status. *)
LEMMA EndedStatus ==
    ASSUME NEW d, NEW outcome, NEW count, EndedAs(d, outcome, count)
    PROVE  /\ Status(d)'.state = outcome
           /\ IsTerminal(Status(d)')
           /\ log'[d].state # "absent"
           /\ log'[d].attempts = count
  BY Zenon DEF EndedAs, Status, IsTerminal, Outcomes

(* A new admission finds neither a status nor a held delivery, or a record  *)
(* the log may forget.                                                      *)
LEMMA FreshStatus ==
    ASSUME NEW d \in Deliveries, Fresh(d), d \notin Forgettable
    PROVE  log[d] = Absent /\ Status(d) = Absent
  BY Zenon DEF Fresh, Status

(* Whatever a step does with a delivery, an attempt is in the log before    *)
(* the transport sees it.                                                    *)
LEMMA RecordedLives ==
    ASSUME Agreeing, NEW d \in Deliveries, Recorded(d), LifeStep(d)
    PROVE  Recorded(d)'
  <1>0. /\ sent[d] \in Nat /\ MaxRetries \in Nat /\ log[d].attempts \in Nat
        /\ active[d] # NoDelivery => active[d].attempts \in Nat
    BY Zenon, LimitsAssumption, HeldType DEF Agreeing, DeliveriesOK, Records
  <1>00. /\ 0 <= 0 /\ 0 <= 1 /\ 1 <= 1
         /\ 0 <= MaxRetries /\ 0 <= MaxRetries + 1 /\ 1 <= MaxRetries + 1
    BY <1>0
  <1>1. CASE Untouched(d) \/ TaskMoved(d)
    BY Zenon, <1>1 DEF Untouched, TaskMoved, SameRecords, SameHolds, SameHistory, Recorded
  <1>2. CASE Aged(d)
    BY Zenon, <1>2 DEF Aged, SameRecords, SameHistory, Recorded
  <1>3. CASE Dropped(d)
    BY Zenon, <1>3 DEF Dropped, SameHolds, SameHistory, Recorded, Fresh
  <1>4. CASE IntentLeft(d)
    <2>1. log'[d].attempts = 0
      BY Zenon, <1>4, RecordStates DEF IntentLeft
    <2> QED BY Zenon, <1>00, <1>4, <2>1 DEF IntentLeft, SameHolds, Recorded, Fresh
  <1>5. CASE EmitAccepted(d)
    <2>1. log'[d].attempts = 0
      BY Zenon, <1>5, RecordStates DEF EmitAccepted
    <2> QED BY Zenon, <1>00, <1>5, <2>1 DEF EmitAccepted, Recorded
  <1>6. CASE CallAccepted(d)
    <2>1. log'[d].attempts = 1
      BY ZenonT(60), <1>6, RecordStates DEF CallAccepted
    <2> QED BY Zenon, <1>00, <1>6, <2>1 DEF CallAccepted, Recorded
  <1>7. CASE CallRefused(d)
    <2>1. PICK count \in {0, 1} : EndedAs(d, "failed", count)
      BY Zenon, <1>7 DEF CallRefused
    <2>2. log'[d].attempts = count
      BY Zenon, <2>1, EndedStatus
    <2>3. 0 <= count
      BY Zenon, <1>00, <2>1
    <2> QED BY Zenon, <1>00, <1>7, <2>2, <2>3 DEF CallRefused, SameHolds, Recorded, Fresh
  <1>8. CASE AttemptStarted(d)
    <2>1. /\ log[d].state = "pending" /\ log[d].attempts = active[d].attempts
          /\ active[d].attempts \in Nat
      BY Zenon, <1>0, <1>8, HeldAgrees DEF AttemptStarted
    <2>2. log[d] # Absent
      BY Zenon, <2>1, RecordStates
    <2>3. log'[d].attempts = active[d].attempts + 1
      BY Zenon, <1>8, RecordStates DEF AttemptStarted
    <2>4. sent[d] <= log[d].attempts /\ active[d].attempts <= MaxRetries
      BY Zenon, <1>8, <2>2 DEF AttemptStarted, Recorded
    <2>5. sent[d] + 1 <= active[d].attempts + 1 /\ sent[d] + 1 <= MaxRetries + 1
      BY <1>0, <2>1, <2>4
    <2> QED BY Zenon, <1>8, <2>3, <2>5 DEF AttemptStarted, Recorded
  <1>9. CASE DeliveryEnded(d)
    <2>1. /\ log[d].state = "pending" /\ log[d].attempts = active[d].attempts
          /\ active[d].attempts \in Nat
      BY Zenon, <1>0, <1>9, HeldAgrees DEF DeliveryEnded
    <2>2. log[d] # Absent
      BY Zenon, <2>1, RecordStates
    <2>3. PICK outcome \in Outcomes, count \in {active[d].attempts, active[d].attempts + 1} :
             EndedAs(d, outcome, count)
      BY Zenon, <1>9 DEF DeliveryEnded
    <2>4. log'[d].attempts = count
      BY Zenon, <2>3, EndedStatus
    <2>5. sent[d] <= log[d].attempts
      BY Zenon, <2>2 DEF Recorded
    <2>6. sent[d] <= count
      BY <1>0, <2>1, <2>3, <2>5
    <2> QED BY Zenon, <1>9, <2>4, <2>6 DEF DeliveryEnded, SameHistory, Recorded
  <1>10. CASE HeldCallEnded(d)
    <2>1. log[d].state = "pending" /\ active[d] = NoDelivery
      BY Zenon, <1>10, HeldAgrees DEF HeldCallEnded
    <2>2. log[d] # Absent
      BY Zenon, <2>1, RecordStates
    <2>3. PICK outcome \in Outcomes : EndedAs(d, outcome, log[d].attempts)
      BY Zenon, <1>10 DEF HeldCallEnded
    <2>4. log'[d].attempts = log[d].attempts
      BY Zenon, <2>3, EndedStatus
    <2> QED BY Zenon, <1>10, <2>1, <2>2, <2>4 DEF HeldCallEnded, Recorded
  <1> QED BY Zenon, <1>1, <1>2, <1>3, <1>4, <1>5, <1>6, <1>7, <1>8, <1>9, <1>10 DEF LifeStep

(* Whatever a step does with a delivery, its caller waits exactly as long    *)
(* as the call is held, and success is reported for a delivered one only.    *)
LEMMA AnsweredLives ==
    ASSUME Agreeing, NEW d \in Deliveries, Answered(d), LifeStep(d)
    PROVE  Answered(d)'
  <1>1. CASE Untouched(d) \/ TaskMoved(d)
    BY Zenon, <1>1 DEF Untouched, TaskMoved, SameRecords, SameHolds, SameHistory, NotAccepted,
       Answered, Status
  <1>2. CASE Aged(d)
    BY Zenon, <1>2 DEF Aged, SameRecords, SameHistory, NotAccepted, Answered, Status
  <1>3. CASE Dropped(d)
    BY Zenon, <1>3 DEF Dropped, SameHolds, SameHistory, Answered, Fresh
  <1>4. CASE IntentLeft(d)
    BY Zenon, <1>4 DEF IntentLeft, SameHolds, Answered, Fresh
  <1>5. CASE EmitAccepted(d)
    BY Zenon, <1>5 DEF EmitAccepted, Answered
  <1>6. CASE CallAccepted(d)
    BY Zenon, <1>6 DEF CallAccepted, Answered
  <1>7. CASE CallRefused(d)
    BY Zenon, <1>7 DEF CallRefused, SameHolds, Answered, Fresh
  <1>8. CASE AttemptStarted(d)
    BY Zenon, <1>8 DEF AttemptStarted, Answered
  <1>9. CASE DeliveryEnded(d)
    BY Zenon, <1>9 DEF DeliveryEnded, SameHistory, Answered
  <1>10. CASE HeldCallEnded(d)
    <2>1. active[d] = NoDelivery
      BY Zenon, <1>10, HeldAgrees DEF HeldCallEnded
    <2>2. PICK outcome \in Outcomes :
             /\ EndedAs(d, outcome, log[d].attempts)
             /\ (answers'[d] = "ok" /\ active_calls[d].state = "in_flight")
                   => outcome = "delivered"
      BY Zenon, <1>10 DEF HeldCallEnded
    <2>3. Status(d)'.state = outcome
      BY Zenon, <2>2, EndedStatus
    <2> QED BY Zenon, <1>10, <2>1, <2>2, <2>3 DEF HeldCallEnded, Answered
  <1> QED BY Zenon, <1>1, <1>2, <1>3, <1>4, <1>5, <1>6, <1>7, <1>8, <1>9, <1>10 DEF LifeStep

(* Whatever a step does with a delivery, once accepted it stays held until  *)
(* it has an outcome.                                                        *)
LEMMA KeptLives ==
    ASSUME Agreeing, NEW d \in Deliveries, Kept(d), LifeStep(d), phase # "down"
    PROVE  Kept(d)'
  <1> SUFFICES ASSUME d \in accepted'
               PROVE  /\ log'[d].state # "absent"
                      /\ \/ active'[d] # NoDelivery \/ active_calls'[d] # NoDelivery
                         \/ IsTerminal(Status(d)')
    BY Zenon DEF Kept
  <1>1. CASE Untouched(d) \/ TaskMoved(d)
    BY Zenon, <1>1 DEF Untouched, TaskMoved, SameRecords, SameHolds, SameHistory, NotAccepted, Kept, Status
  <1>2. CASE Aged(d)
    BY Zenon, <1>2 DEF Aged, SameRecords, SameHistory, NotAccepted, Kept
  <1>3. CASE Dropped(d) \/ IntentLeft(d)
    BY Zenon, <1>3 DEF Dropped, IntentLeft
  <1>4. CASE EmitAccepted(d) \/ CallAccepted(d)
    BY Zenon, <1>4, RecordStates DEF EmitAccepted, CallAccepted
  <1>5. CASE CallRefused(d)
    <2>1. PICK count \in {0, 1} : EndedAs(d, "failed", count)
      BY Zenon, <1>5 DEF CallRefused
    <2> QED BY Zenon, <2>1, EndedStatus
  <1>6. CASE AttemptStarted(d)
    BY Zenon, <1>6, RecordStates DEF AttemptStarted
  <1>7. CASE DeliveryEnded(d)
    <2>1. PICK outcome \in Outcomes, count \in {active[d].attempts, active[d].attempts + 1} :
             EndedAs(d, outcome, count)
      BY Zenon, <1>7 DEF DeliveryEnded
    <2> QED BY Zenon, <2>1, EndedStatus
  <1>8. CASE HeldCallEnded(d)
    <2>1. PICK outcome \in Outcomes : EndedAs(d, outcome, log[d].attempts)
      BY Zenon, <1>8 DEF HeldCallEnded
    <2> QED BY Zenon, <2>1, EndedStatus
  <1> QED BY Zenon, <1>1, <1>2, <1>3, <1>4, <1>5, <1>6, <1>7, <1>8 DEF LifeStep

-----------------------------------------------------------------------------
(* Crash and restart *)

(* The engine is new, and all it knows is what a persistent log recorded.   *)
LEMMA RestartLived ==
    ASSUME DeliveriesOK, NEW d \in Deliveries, Recorded(d), Kept(d),
           LoseDeliveries \/ RecoverDeliveries
    PROVE  Agrees(d)' /\ Owned(d)' /\ Lived(d)'
  <1>1. /\ active'[d] = NoDelivery /\ active_calls'[d] = NoDelivery
        /\ overrides'[d] = Absent /\ answers'[d] = "none"
        /\ attempts'[d] = "none" /\ calls'[d] = "none"
    BY Zenon DEF LoseDeliveries, RecoverDeliveries, HoldNothing
  <1>2. Agrees(d)' /\ Owned(d)' /\ Answered(d)'
    BY Zenon, <1>1 DEF Agrees, Owned, Answered
  <1>3. /\ log \in Logs /\ sent[d] \in Nat /\ MaxRetries \in Nat
        /\ log[d].state \in LogStates /\ log[d].attempts \in Nat
    BY Zenon, LimitsAssumption DEF DeliveriesOK, Logs, Records
  <1>4. CASE LoseDeliveries
    <2>1. /\ log'[d] = log[d] /\ sent'[d] = sent[d] /\ phase' = "down"
          /\ accepted' = accepted
      BY Zenon, <1>4 DEF LoseDeliveries
    <2>2. Recorded(d)'
      BY Zenon, <1>1, <2>1 DEF Recorded
    <2>3. Kept(d)'
      BY Zenon, <2>1 DEF Kept
    <2> QED BY Zenon, <1>2, <2>2, <2>3 DEF Lived
  <1>5. CASE RecoverDeliveries /\ Persistent
    <2>1. log'[d] = Recovered(log)[d] /\ sent'[d] = sent[d] /\ accepted' = accepted
      BY Zenon, <1>5 DEF RecoverDeliveries
    <2>2. CASE log[d].state = "pending"
      <3>1. log'[d] = [state |-> "unknown_after_crash", attempts |-> log[d].attempts]
        BY Zenon, <1>3, <2>1, <2>2, RecoveredType
      <3>2. log[d] # Absent
        BY Zenon, <2>2, RecordStates
      <3>3. Recorded(d)'
        BY SMTT(30), <1>1, <1>3, <2>1, <3>1, <3>2 DEF Recorded
      <3>4. IsTerminal(Status(d)') /\ log'[d].state # "absent"
        BY <1>1, <3>1 DEF Status, IsTerminal, Outcomes
      <3>5. Kept(d)'
        BY Zenon, <3>4 DEF Kept
      <3> QED BY Zenon, <1>2, <3>3, <3>5 DEF Lived
    <2>3. CASE log[d].state # "pending"
      <3>1. log'[d] = log[d]
        BY Zenon, <1>3, <2>1, <2>3, RecoveredType
      <3>2. Recorded(d)'
        BY Zenon, <1>1, <2>1, <3>1 DEF Recorded
      <3>3. Status(d)' = log[d]
        BY Zenon, <1>1, <3>1 DEF Status
      <3>4. ASSUME d \in accepted'
            PROVE  log'[d].state # "absent" /\ IsTerminal(Status(d)')
        BY Zenon, <1>3, <2>1, <2>3, <3>1, <3>3, <3>4 DEF Kept, IsTerminal, LogStates
      <3>5. Kept(d)'
        BY Zenon, <3>4 DEF Kept
      <3> QED BY Zenon, <1>2, <3>2, <3>5 DEF Lived
    <2> QED BY Zenon, <2>2, <2>3
  <1>6. CASE RecoverDeliveries /\ ~Persistent
    <2>1. log'[d] = Absent /\ sent'[d] = 0 /\ accepted' = {}
      BY Zenon, <1>6 DEF RecoverDeliveries, EmptyLog
    <2>2. Recorded(d)'
      BY <1>1, <1>3, <2>1 DEF Recorded
    <2>3. Kept(d)'
      BY Zenon, <2>1 DEF Kept
    <2> QED BY Zenon, <1>2, <2>2, <2>3 DEF Lived
  <1> QED BY Zenon, <1>4, <1>5, <1>6

-----------------------------------------------------------------------------
(* The inductive invariant *)

(* The engine exits only when it holds nothing, and then does nothing. *)
Exited == phase = "stopped" => Active = {} /\ ActiveCalls = {}

DeliveriesInv ==
    /\ Agreeing
    /\ Exited
    /\ \A d \in Deliveries : Owned(d) /\ Lived(d)

(* A new process holds nothing and knows of nothing. *)
LEMMA InvInit == DeliveriesInit => DeliveriesInv
  <1> SUFFICES ASSUME DeliveriesInit PROVE DeliveriesInv
    OBVIOUS
  <1>1. DeliveriesOK /\ Exited
    BY Zenon, InitType DEF DeliveriesInit, Exited
  <1>2. ASSUME NEW d \in Deliveries PROVE Agrees(d) /\ Owned(d) /\ Lived(d)
    <2>1. /\ log[d] = Absent /\ overrides[d] = Absent /\ sent[d] = 0
          /\ active[d] = NoDelivery /\ active_calls[d] = NoDelivery
          /\ attempts[d] = "none" /\ calls[d] = "none"
          /\ answers[d] = "none" /\ accepted = {}
      BY Zenon DEF DeliveriesInit, EmptyLog
    <2> QED BY <2>1, LimitsAssumption DEF Agrees, Owned, Lived, Recorded, Answered, Kept
  <1> QED BY Zenon, <1>1, <1>2 DEF DeliveriesInv, Agreeing

(* What one step of a running engine does, to the types and to every life. *)
LEMMA RunLife ==
    ASSUME Agreeing, Run
    PROVE  DeliveriesOK' /\ Exited' /\ phase # "down" /\ \A d \in Deliveries : LifeStep(d)
  <1>1. DeliveriesOK /\ phase # "down" /\ phase' \in Phases
    BY Zenon DEF Run, Running, Agreeing
  <1>2. CASE phase' # "stopped" /\ \E d \in Deliveries : DeliveryStep(d)
    BY Zenon, <1>1, <1>2, StepType, StepLife DEF Exited
  <1>3. CASE /\ UNCHANGED deliveries
             /\ phase' = "stopped" => Active = {} /\ ActiveCalls = {}
    <2>1. DeliveriesOK'
      BY Zenon, <1>1, <1>3 DEF DeliveriesOK, deliveries, lanes, tasks, records, history
    <2>2. Exited'
      BY Zenon, <1>3 DEF Exited, Active, ActiveCalls, deliveries, lanes
    <2> QED BY Zenon, <1>1, <1>3, <2>1, <2>2, NoneTouched
  <1> QED BY Zenon, <1>2, <1>3 DEF Run

(* Every step preserves the invariant. *)
LEMMA InvNext ==
    DeliveriesInv /\ [DeliveriesNext]_<<deliveries, phase>> => DeliveriesInv'
  <1> SUFFICES ASSUME DeliveriesInv, [DeliveriesNext]_<<deliveries, phase>>
               PROVE  DeliveriesInv'
    OBVIOUS
  <1>1. Agreeing /\ DeliveriesOK
    BY Zenon DEF DeliveriesInv, Agreeing
  <1>2. CASE LoseDeliveries \/ RecoverDeliveries
    <2>1. DeliveriesOK'
      BY Zenon, <1>1, <1>2, RestartType
    <2>2. Exited'
      BY Zenon, <1>2 DEF LoseDeliveries, RecoverDeliveries, Exited
    <2>3. \A d \in Deliveries : Agrees(d)' /\ Owned(d)' /\ Lived(d)'
      BY Zenon, <1>1, <1>2, RestartLived DEF DeliveriesInv, Lived
    <2> QED BY Zenon, <2>1, <2>2, <2>3 DEF DeliveriesInv, Agreeing
  <1>3. CASE Run
    <2>1. DeliveriesOK' /\ Exited' /\ phase # "down" /\ \A d \in Deliveries : LifeStep(d)
      BY Zenon, <1>1, <1>3, RunLife
    <2>2. ASSUME NEW d \in Deliveries PROVE Agrees(d)' /\ Owned(d)' /\ Lived(d)'
      BY Zenon, <1>1, <2>1, AgreesLives, OwnedLives, RecordedLives, AnsweredLives,
         KeptLives DEF DeliveriesInv, Agreeing, Lived
    <2> QED BY Zenon, <2>1, <2>2 DEF DeliveriesInv, Agreeing
  <1>4. CASE UNCHANGED <<deliveries, phase>>
    <2> USE <1>4 DEF deliveries, lanes, tasks, records, history
    <2>1. DeliveriesOK' /\ Exited'
      BY Zenon DEF DeliveriesInv, Agreeing, DeliveriesOK, Exited, Active, ActiveCalls
    <2>2. ASSUME NEW d \in Deliveries PROVE Agrees(d)' /\ Owned(d)' /\ Lived(d)'
      <3>1. Agrees(d) /\ Owned(d) /\ Recorded(d) /\ Answered(d) /\ Kept(d)
        BY Zenon DEF DeliveriesInv, Agreeing, Lived
      <3>2. Agrees(d)'
        BY Zenon, <3>1 DEF Agrees, Pending
      <3>3. Owned(d)'
        BY Zenon, <3>1 DEF Owned
      <3>4. Recorded(d)' /\ Answered(d)' /\ Kept(d)'
        BY Zenon, <3>1 DEF Recorded, Answered, Kept, Status, IsTerminal
      <3> QED BY Zenon, <3>2, <3>3, <3>4 DEF Lived
    <2> QED BY Zenon, <2>1, <2>2 DEF DeliveriesInv, Agreeing
  <1> QED BY Zenon, <1>2, <1>3, <1>4 DEF DeliveriesNext

(* The invariant implies what the runs check. *)
LEMMA InvImplies ==
    ASSUME DeliveriesInv
    PROVE  LogAgreement /\ RecordedBeforeSent /\ CallsAnswered /\ NothingLost
  <1>1. LogAgreement
    BY Zenon DEF DeliveriesInv, Agreeing, Agrees, Pending, LogAgreement, Active, ActiveCalls
  <1>2. RecordedBeforeSent
    BY Zenon DEF DeliveriesInv, Lived, Recorded, RecordedBeforeSent
  <1>3. CallsAnswered
    BY Zenon DEF DeliveriesInv, Lived, Answered, CallsAnswered, ActiveCalls
  <1>4. NothingLost
    BY Zenon DEF DeliveriesInv, Agreeing, DeliveriesOK, Lived, Kept, Exited, NothingLost,
       Active, ActiveCalls
  <1> QED BY Zenon, <1>1, <1>2, <1>3, <1>4

(* A terminal status, and a terminal record of a persistent log. *)
Final(d) ==
    /\ (Continuing /\ IsTerminal(Status(d)))
          => Status(d)' = Status(d) \/ Reclaimed(d)
    /\ (Persistent /\ IsTerminal(log[d])) => log'[d] = log[d] \/ Reclaimed(d)

(* What a step leaves of it. *)
LEMMA FinalStep ==
    ASSUME DeliveriesInv, [DeliveriesNext]_<<deliveries, phase>>,
           NEW d \in Deliveries
    PROVE  Final(d)
  <1>1. ~IsTerminal(Absent)
    BY Zenon DEF IsTerminal, Absent, Outcomes
  <1>2. CASE UNCHANGED <<deliveries, phase>>
    BY Zenon, <1>2 DEF deliveries, records, Status, Final
  <1>3. CASE Run
    <2>1. Agreeing /\ LifeStep(d)
      BY Zenon, <1>3, RunLife DEF DeliveriesInv
    <2>2. CASE SameRecords(d)
      BY Zenon, <2>2 DEF SameRecords, Status, Final
    <2>3. CASE Fresh(d)
      <3>1. CASE d \notin Forgettable
        BY Zenon, <1>1, <2>3, <3>1, FreshStatus DEF Final
      <3>2. CASE d \in Forgettable /\ ~SameRecords(d)
        <4>1. Continuing /\ ~persistence_degraded
          BY Zenon, <1>3, <2>3 DEF Run, Continuing, Fresh
        <4>2. active[d] = NoDelivery /\ active_calls[d] = NoDelivery
          BY Zenon, <2>3 DEF Fresh
        <4>3. Dropped(d) \/ IntentLeft(d) \/ EmitAccepted(d) \/ CallAccepted(d) \/ CallRefused(d)
          BY Zenon, <2>1, <3>2, <4>2 DEF LifeStep, Untouched, TaskMoved, Aged, AttemptStarted,
             DeliveryEnded, HeldCallEnded
        <4>4. \/ log'[d] \in {Absent, Pending(0)}
              \/ admissions'[d] = admissions[d] + 1
          BY Zenon, <4>3 DEF Dropped, IntentLeft, EmitAccepted, CallAccepted, CallRefused
        <4> QED BY Zenon, <3>2, <4>1, <4>4 DEF Reclaimed, Pending, Final
      <3> QED BY Zenon, <2>2, <3>1, <3>2
    <2>4. CASE active[d] # NoDelivery \/ active_calls[d] # NoDelivery
      <3>1. log[d].state = "pending" /\ overrides[d] = Absent
        BY Zenon, <2>1, <2>4, HeldAgrees
      <3>2. ~IsTerminal(log[d]) /\ Status(d) = log[d]
        BY Zenon, <3>1 DEF IsTerminal, Outcomes, Status
      <3> QED BY Zenon, <3>2 DEF Final
    <2>5. SameRecords(d) \/ Fresh(d) \/ active[d] # NoDelivery \/ active_calls[d] # NoDelivery
      BY Zenon, <2>1 DEF LifeStep, Untouched, TaskMoved, Aged, Dropped, IntentLeft,
             EmitAccepted, CallAccepted, CallRefused, AttemptStarted, DeliveryEnded,
             HeldCallEnded
    <2> QED BY Zenon, <2>2, <2>3, <2>4, <2>5
  <1>4. CASE LoseDeliveries
    BY Zenon, <1>4 DEF LoseDeliveries, Continuing, Final
  <1>5. CASE RecoverDeliveries
    <2>1. ~Continuing /\ (Persistent => log' = Recovered(log))
      BY Zenon, <1>5 DEF RecoverDeliveries, Continuing
    <2>2. log \in Logs
      BY Zenon DEF DeliveriesInv, Agreeing, DeliveriesOK, Logs
    <2>3. IsTerminal(log[d]) => log[d].state # "pending"
      BY Zenon DEF IsTerminal, Outcomes
    <2> QED BY Zenon, <2>1, <2>2, <2>3, RecoveredType DEF Final
  <1> QED BY Zenon, <1>2, <1>3, <1>4, <1>5 DEF DeliveriesNext

-----------------------------------------------------------------------------
(* In any order of its operations, the engine keeps its deliveries as it    *)
(* promises: it agrees with the log, nothing is sent before it is recorded, *)
(* every call is answered and no accepted delivery is lost                  *)
(* (runtime.rs:520-611, 713-856, 972-1025, 1211-1383).                      *)
THEOREM DeliveriesKept ==
    DeliveriesSpec => []( /\ DeliveriesOK /\ LogAgreement /\ RecordedBeforeSent
                          /\ CallsAnswered /\ NothingLost )
  <1>1. DeliveriesInv => DeliveriesOK
    BY Zenon DEF DeliveriesInv, Agreeing
  <1> QED BY <1>1, InvInit, InvNext, InvImplies, PTL DEF DeliveriesSpec

(* In any order of its operations, a terminal status is final while the     *)
(* process runs and a terminal record of a persistent log for ever, unless  *)
(* the log reclaims the record for a later admission                        *)
(* (runtime.rs:632-640, 916-923, 1276-1287).                                *)
THEOREM DeliveriesFinal == DeliveriesSpec => TerminalIsFinal
  <1>1. DeliveriesInv /\ [DeliveriesNext]_<<deliveries, phase>>
           => [\A d \in Deliveries : Final(d)]_<<deliveries, phase>>
    BY Zenon, FinalStep
  <1>2. (\A d \in Deliveries : Final(d))
           <=> \A d \in Deliveries :
                  /\ (Continuing /\ IsTerminal(Status(d)))
                        => Status(d)' = Status(d) \/ Reclaimed(d)
                  /\ (Persistent /\ IsTerminal(log[d]))
                        => log'[d] = log[d] \/ Reclaimed(d)
    BY Zenon DEF Final
  <1> QED BY <1>1, <1>2, InvInit, InvNext, PTL DEF DeliveriesSpec, TerminalIsFinal

-----------------------------------------------------------------------------
(* Counting *)

(* Two finite sets that differ in one element at most. *)
LEMMA Recount ==
    ASSUME NEW S, NEW T, IsFiniteSet(S), IsFiniteSet(T), NEW d, S \ {d} = T \ {d}
    PROVE  /\ Cardinality(S) \in Nat /\ Cardinality(T) \in Nat
           /\ Cardinality(T) + One(d \in S) = Cardinality(S) + One(d \in T)
  <1>1. Cardinality(S) \in Nat /\ Cardinality(T) \in Nat
    BY Zenon, FS_CardinalityType
  <1>2. /\ Cardinality(S \ {d}) = IF d \in S THEN Cardinality(S) - 1 ELSE Cardinality(S)
        /\ Cardinality(T \ {d}) = IF d \in T THEN Cardinality(T) - 1 ELSE Cardinality(T)
    BY Zenon, FS_RemoveElement
  <1> QED BY <1>1, <1>2 DEF One

(* The sets that are counted are finite. *)
LEMMA FiniteLanes ==
    /\ \A S \in SUBSET Deliveries : IsFiniteSet(S)
    /\ Active \in SUBSET Deliveries /\ ActiveCalls \in SUBSET Deliveries
    /\ InFlight \in SUBSET Deliveries /\ CallsInFlight \in SUBSET Deliveries
    /\ \A r \in Routes : /\ ActiveOn(r) \in SUBSET Deliveries
                         /\ InFlightOn(r) \in SUBSET Deliveries
                         /\ CallsOn(r) \in SUBSET Deliveries
  <1>1. \A S \in SUBSET Deliveries : IsFiniteSet(S)
    BY Zenon, DeliveriesFinite, FS_Subset
  <1> QED BY Zenon, <1>1 DEF Active, ActiveCalls, InFlight, CallsInFlight, ActiveOn, InFlightOn,
                     CallsOn

(* A counter that is a set's size, and moves by the element that moves. *)
LEMMA Counted ==
    ASSUME NEW S \in SUBSET Deliveries, NEW T \in SUBSET Deliveries, NEW d, NEW n, NEW m,
           S \ {d} = T \ {d}, n = Cardinality(S), m \in Nat,
           m + One(d \in S) = n + One(d \in T)
    PROVE  m = Cardinality(T)
  <1>1. /\ Cardinality(S) \in Nat /\ Cardinality(T) \in Nat
        /\ Cardinality(T) + One(d \in S) = Cardinality(S) + One(d \in T)
    BY Zenon, FiniteLanes, Recount
  <1> QED BY <1>1 DEF One

-----------------------------------------------------------------------------
(* A step charges one delivery to one route *)

(* What delivery d gains or gives up is charged to the totals and to route  *)
(* r; all else is as it was.                                                *)
Charged(d, r) ==
    /\ \A e \in Deliveries \ {d} : SameHolds(e)
    /\ \A h \in {active[d], active'[d], active_calls[d], active_calls'[d]} :
          h # NoDelivery => h.route = r
    /\ \A q \in Routes \ {r} : usage'[q] = usage[q]
    /\ usage'[r].pending + One(d \in Active) = usage[r].pending + One(d \in Active')
    /\ usage'[r].in_flight + One(d \in InFlight) = usage[r].in_flight + One(d \in InFlight')
    /\ usage'[r].calls + One(d \in ActiveCalls) = usage[r].calls + One(d \in ActiveCalls')
    /\ global'.pending + One(d \in Active) = global.pending + One(d \in Active')
    /\ global'.in_flight + One(d \in InFlight) = global.in_flight + One(d \in InFlight')
    /\ global'.calls + One(d \in CallsInFlight) = global.calls + One(d \in CallsInFlight')

(* Other deliveries stay in the sets they were in. *)
LEMMA OthersStay ==
    ASSUME NEW d \in Deliveries, \A e \in Deliveries \ {d} : SameHolds(e)
    PROVE  /\ Active \ {d} = Active' \ {d}
           /\ InFlight \ {d} = InFlight' \ {d}
           /\ ActiveCalls \ {d} = ActiveCalls' \ {d}
           /\ CallsInFlight \ {d} = CallsInFlight' \ {d}
           /\ \A r : /\ ActiveOn(r) \ {d} = ActiveOn(r)' \ {d}
                     /\ InFlightOn(r) \ {d} = InFlightOn(r)' \ {d}
                     /\ CallsOn(r) \ {d} = CallsOn(r)' \ {d}
  <1>1. \A e \in Deliveries \ {d} :
           active'[e] = active[e] /\ active_calls'[e] = active_calls[e]
    BY Zenon DEF SameHolds
  <1> QED BY Zenon, <1>1 DEF Active, ActiveCalls, InFlight, CallsInFlight, ActiveOn, InFlightOn,
                     CallsOn

(* If every charge is made, the counters stay what they count. *)
LEMMA ChargedAccounting ==
    ASSUME DeliveriesOK', Accounting, NEW d \in Deliveries, NEW r \in Routes, Charged(d, r)
    PROVE  Accounting'
  <1>1. /\ Active \in SUBSET Deliveries /\ Active' \in SUBSET Deliveries
        /\ InFlight \in SUBSET Deliveries /\ InFlight' \in SUBSET Deliveries
        /\ ActiveCalls \in SUBSET Deliveries /\ ActiveCalls' \in SUBSET Deliveries
        /\ CallsInFlight \in SUBSET Deliveries /\ CallsInFlight' \in SUBSET Deliveries
    BY Zenon DEF Active, ActiveCalls, InFlight, CallsInFlight
  <1>2. /\ Active \ {d} = Active' \ {d} /\ InFlight \ {d} = InFlight' \ {d}
        /\ ActiveCalls \ {d} = ActiveCalls' \ {d}
        /\ CallsInFlight \ {d} = CallsInFlight' \ {d}
    BY Zenon, OthersStay DEF Charged
  <1>3. \A q \in Routes : /\ usage'[q].pending \in Nat /\ usage'[q].in_flight \in Nat
                          /\ usage'[q].calls \in Nat
    BY Zenon DEF DeliveriesOK, Usage
  <1>4. global'.pending \in Nat /\ global'.in_flight \in Nat /\ global'.calls \in Nat
    BY Zenon DEF DeliveriesOK, Usage
  <1>5. global'.pending = Cardinality(Active')
    BY SMTT(30), <1>1, <1>2, <1>4, Counted DEF Accounting, Charged
  <1>6. global'.in_flight = Cardinality(InFlight')
    BY SMTT(30), <1>1, <1>2, <1>4, Counted DEF Accounting, Charged
  <1>7. global'.calls = Cardinality(CallsInFlight')
    BY SMTT(30), <1>1, <1>2, <1>4, Counted DEF Accounting, Charged
  <1>8. ASSUME NEW q \in Routes
        PROVE  /\ usage'[q].pending = Cardinality(ActiveOn(q)')
               /\ usage'[q].in_flight = Cardinality(InFlightOn(q)')
               /\ usage'[q].calls = Cardinality(CallsOn(q)')
    <2>1. /\ ActiveOn(q) \in SUBSET Deliveries /\ ActiveOn(q)' \in SUBSET Deliveries
          /\ InFlightOn(q) \in SUBSET Deliveries /\ InFlightOn(q)' \in SUBSET Deliveries
          /\ CallsOn(q) \in SUBSET Deliveries /\ CallsOn(q)' \in SUBSET Deliveries
      BY Zenon, <1>1 DEF ActiveOn, InFlightOn, CallsOn
    <2>2. /\ ActiveOn(q) \ {d} = ActiveOn(q)' \ {d}
          /\ InFlightOn(q) \ {d} = InFlightOn(q)' \ {d}
          /\ CallsOn(q) \ {d} = CallsOn(q)' \ {d}
      BY Zenon, OthersStay DEF Charged
    <2>3. /\ active[d] # NoDelivery => active[d].route = r
          /\ active'[d] # NoDelivery => active'[d].route = r
          /\ active_calls[d] # NoDelivery => active_calls[d].route = r
          /\ active_calls'[d] # NoDelivery => active_calls'[d].route = r
      BY Zenon DEF Charged
    <2>4. CASE q = r
      <3>1. /\ d \in ActiveOn(r) <=> d \in Active
            /\ d \in ActiveOn(r)' <=> d \in Active'
            /\ d \in InFlightOn(r) <=> d \in InFlight
            /\ d \in InFlightOn(r)' <=> d \in InFlight'
            /\ d \in CallsOn(r) <=> d \in ActiveCalls
            /\ d \in CallsOn(r)' <=> d \in ActiveCalls'
        BY Zenon, <2>3 DEF ActiveOn, InFlightOn, CallsOn, Active, InFlight, ActiveCalls
      <3>2. /\ One(d \in ActiveOn(r)) = One(d \in Active)
            /\ One(d \in ActiveOn(r)') = One(d \in Active')
            /\ One(d \in InFlightOn(r)) = One(d \in InFlight)
            /\ One(d \in InFlightOn(r)') = One(d \in InFlight')
            /\ One(d \in CallsOn(r)) = One(d \in ActiveCalls)
            /\ One(d \in CallsOn(r)') = One(d \in ActiveCalls')
        BY Zenon, <3>1 DEF One
      <3>3. usage'[r].pending = Cardinality(ActiveOn(r)')
        BY SMTT(30), <1>3, <2>1, <2>2, <2>4, <3>2, Counted DEF Accounting, Charged
      <3>4. usage'[r].in_flight = Cardinality(InFlightOn(r)')
        BY SMTT(30), <1>3, <2>1, <2>2, <2>4, <3>2, Counted DEF Accounting, Charged
      <3>5. usage'[r].calls = Cardinality(CallsOn(r)')
        BY SMTT(30), <1>3, <2>1, <2>2, <2>4, <3>2, Counted DEF Accounting, Charged
      <3> QED BY Zenon, <2>4, <3>3, <3>4, <3>5
    <2>5. CASE q # r
      <3>1. /\ d \notin ActiveOn(q) /\ d \notin ActiveOn(q)'
            /\ d \notin InFlightOn(q) /\ d \notin InFlightOn(q)'
            /\ d \notin CallsOn(q) /\ d \notin CallsOn(q)'
        BY Zenon, <2>3, <2>5 DEF ActiveOn, InFlightOn, CallsOn, Active, InFlight, ActiveCalls
      <3>2. /\ ActiveOn(q)' = ActiveOn(q) /\ InFlightOn(q)' = InFlightOn(q)
            /\ CallsOn(q)' = CallsOn(q)
        BY <2>2, <3>1
      <3>3. usage'[q] = usage[q]
        BY Zenon, <2>5 DEF Charged
      <3> QED BY Zenon, <3>2, <3>3 DEF Accounting
    <2> QED BY Zenon, <2>4, <2>5
  <1> QED BY Zenon, <1>5, <1>6, <1>7, <1>8 DEF Accounting

-----------------------------------------------------------------------------
(* Every operation makes its charge *)

(* Whatever is held is counted, so that no decrement saturates. *)
LEMMA CountedOnce ==
    ASSUME DeliveriesOK, Accounting, NEW d \in Deliveries
    PROVE  /\ d \in Active => /\ active[d].route \in Routes
                              /\ global.pending >= 1
                              /\ usage[active[d].route].pending >= 1
           /\ d \in InFlight => /\ global.in_flight >= 1
                                /\ usage[active[d].route].in_flight >= 1
           /\ d \in ActiveCalls => /\ active_calls[d].route \in Routes
                                   /\ usage[active_calls[d].route].calls >= 1
           /\ d \in CallsInFlight => global.calls >= 1
  <1>1. \A S \in SUBSET Deliveries :
           Cardinality(S) \in Nat /\ (d \in S => Cardinality(S) >= 1)
    BY FiniteLanes, FS_CardinalityType, FS_EmptySet
  <1>2. /\ d \in Active => active[d].route \in Routes /\ d \in ActiveOn(active[d].route)
        /\ d \in InFlight => d \in Active /\ d \in InFlightOn(active[d].route)
        /\ d \in ActiveCalls =>
              active_calls[d].route \in Routes /\ d \in CallsOn(active_calls[d].route)
    BY Zenon, HeldType DEF Active, InFlight, ActiveCalls, ActiveOn, InFlightOn, CallsOn
  <1> QED BY Zenon, <1>1, <1>2, FiniteLanes DEF Accounting

(* One delivery's membership, spelled out. *)
LEMMA Memberships ==
    ASSUME NEW d \in Deliveries
    PROVE  /\ d \in Active <=> active[d] # NoDelivery
           /\ d \in InFlight <=> active[d] # NoDelivery /\ active[d].abort
           /\ d \in ActiveCalls <=> active_calls[d] # NoDelivery
           /\ d \in CallsInFlight <=> active_calls[d] # NoDelivery /\ active_calls[d].abort
           /\ d \in Active' <=> active'[d] # NoDelivery
           /\ d \in InFlight' <=> active'[d] # NoDelivery /\ active'[d].abort
           /\ d \in ActiveCalls' <=> active_calls'[d] # NoDelivery
           /\ d \in CallsInFlight' <=> active_calls'[d] # NoDelivery /\ active_calls'[d].abort
  BY Zenon DEF Active, InFlight, ActiveCalls, CallsInFlight

(* Nothing is charged where nothing of a delivery's lane, flight and route  *)
(* changes.                                                                 *)
LEMMA NothingCharged ==
    ASSUME DeliveriesOK, Accounting, NEW d \in Deliveries, NEW r \in Routes,
           \A e \in Deliveries \ {d} : SameHolds(e),
           UNCHANGED <<active_calls, usage, global>>,
           active[d] # NoDelivery, active[d].route = r, active_calls[d] = NoDelivery,
           active'[d] # NoDelivery, active'[d].route = r,
           active'[d].abort = active[d].abort
    PROVE  Charged(d, r)
  <1>1. /\ d \in Active' <=> d \in Active
        /\ d \in InFlight' <=> d \in InFlight
        /\ d \in ActiveCalls' <=> d \in ActiveCalls
        /\ d \in CallsInFlight' <=> d \in CallsInFlight
    BY Zenon, Memberships
  <1>2. /\ One(d \in Active') = One(d \in Active)
        /\ One(d \in InFlight') = One(d \in InFlight)
        /\ One(d \in ActiveCalls') = One(d \in ActiveCalls)
        /\ One(d \in CallsInFlight') = One(d \in CallsInFlight)
    BY Zenon, <1>1 DEF One
  <1> QED BY Zenon, <1>2 DEF Charged

(* admit_emit: one pending delivery more. *)
LEMMA EmitCharged ==
    ASSUME DeliveriesOK, NEW d \in Deliveries, NEW r \in Routes,
           active[d] = NoDelivery, active_calls[d] = NoDelivery, AcceptEmit(r, d)
    PROVE  Charged(d, r)
  <1>1. /\ \A e \in Deliveries \ {d} : SameHolds(e)
        /\ active'[d] = Admission(r, d) /\ UNCHANGED active_calls
        /\ \A q \in Routes \ {r} : usage'[q] = usage[q]
        /\ usage'[r] = WithDelivery(usage[r], d) /\ global' = WithDelivery(global, d)
    BY Zenon DEF AcceptEmit, DeliveriesOK, SameHolds
  <1>2. /\ active'[d] # NoDelivery /\ active'[d].route = r /\ ~active'[d].abort
    BY <1>1, HeldIsSome DEF Admission
  <1>3. /\ d \notin Active /\ d \in Active' /\ d \notin InFlight /\ d \notin InFlight'
        /\ d \notin ActiveCalls /\ d \notin ActiveCalls'
        /\ d \notin CallsInFlight /\ d \notin CallsInFlight'
    BY Zenon, <1>1, <1>2, Memberships
  <1>4. \A u \in Usage : /\ WithDelivery(u, d).pending = u.pending + 1
                         /\ WithDelivery(u, d).in_flight = u.in_flight
                         /\ WithDelivery(u, d).calls = u.calls
                         /\ u.pending \in Nat
    BY Zenon DEF WithDelivery, Usage
  <1>5. usage[r] \in Usage /\ global \in Usage
    BY Zenon DEF DeliveriesOK
  <1> QED BY SMTT(30), <1>1, <1>2, <1>3, <1>4, <1>5 DEF Charged, One

(* start_call: one call more, in flight at once. *)
LEMMA CallCharged ==
    ASSUME DeliveriesOK, NEW d \in Deliveries, NEW r \in Routes, NEW l,
           active[d] = NoDelivery, active_calls[d] = NoDelivery,
           StartCall(r, d, l), UNCHANGED active
    PROVE  Charged(d, r)
  <1>1. /\ \A e \in Deliveries \ {d} : SameHolds(e)
        /\ active_calls'[d] = CallAdmission(r, d) /\ UNCHANGED active
    BY Zenon DEF StartCall, DeliveriesOK, SameHolds
  <1> DEFINE charge(u) == [u EXCEPT !.calls = @ + 1]
  <1>2. /\ \A q \in Routes \ {r} : usage'[q] = usage[q]
        /\ usage'[r] = charge(usage[r]) /\ global' = charge(global)
    BY Zenon DEF StartCall, DeliveriesOK
  <1>3. /\ active_calls'[d] # NoDelivery /\ active_calls'[d].route = r
        /\ active_calls'[d].abort
    BY Zenon, <1>1, HeldIsSome DEF CallAdmission, Admission
  <1>4. /\ d \notin Active /\ d \notin Active' /\ d \notin InFlight /\ d \notin InFlight'
        /\ d \notin ActiveCalls /\ d \in ActiveCalls'
        /\ d \notin CallsInFlight /\ d \in CallsInFlight'
    BY Zenon, <1>1, <1>3, Memberships
  <1>5. \A u \in Usage : /\ charge(u).pending = u.pending
                         /\ charge(u).in_flight = u.in_flight
                         /\ charge(u).calls = u.calls + 1
                         /\ u.calls \in Nat
    BY Zenon DEF Usage
  <1>6. usage[r] \in Usage /\ global \in Usage
    BY Zenon DEF DeliveriesOK
  <1> HIDE DEF charge
  <1> QED BY SMTT(30), <1>1, <1>2, <1>3, <1>4, <1>5, <1>6 DEF Charged, One

(* start_attempt, recorded: one attempt in flight more. *)
LEMMA StartCharged ==
    ASSUME DeliveriesOK, NEW d \in Deliveries, active[d] # NoDelivery, ~active[d].abort,
           active_calls[d] = NoDelivery, StartRecorded(d), UNCHANGED active_calls
    PROVE  active[d].route \in Routes /\ Charged(d, active[d].route)
  <1> DEFINE r == active[d].route
             h == [active[d] EXCEPT !.state = "in_flight", !.due = FALSE,
                                    !.attempts = active[d].attempts + 1, !.abort = TRUE]
             charge(u) == [u EXCEPT !.in_flight = @ + 1]
  <1>1. active[d] \in Held /\ r \in Routes
    BY Zenon, HeldType
  <1>2. active' = [active EXCEPT ![d] = h]
    BY Zenon DEF StartRecorded, DeliveriesOK
  <1>3. /\ \A e \in Deliveries \ {d} : SameHolds(e)
        /\ active'[d] = h
    BY Zenon, <1>2 DEF DeliveriesOK, SameHolds
  <1>4. h.state = "in_flight" /\ h.route = r /\ h.abort
    BY Zenon, <1>1 DEF Held
  <1>5. /\ \A q \in Routes \ {r} : usage'[q] = usage[q]
        /\ usage'[r] = charge(usage[r]) /\ global' = charge(global)
    BY Zenon, <1>1 DEF StartRecorded, DeliveriesOK
  <1> HIDE DEF h
  <1>6. active'[d] # NoDelivery /\ active'[d].route = r /\ active'[d].abort
    BY Zenon, <1>3, <1>4, HeldIsSome
  <1>7. /\ d \in Active /\ d \in Active' /\ d \notin InFlight /\ d \in InFlight'
        /\ d \notin ActiveCalls /\ d \notin ActiveCalls'
        /\ d \notin CallsInFlight /\ d \notin CallsInFlight'
    BY Zenon, <1>6, Memberships
  <1>8. \A u \in Usage : /\ charge(u).pending = u.pending
                         /\ charge(u).in_flight = u.in_flight + 1
                         /\ charge(u).calls = u.calls
                         /\ u.in_flight \in Nat
    BY Zenon DEF Usage
  <1>9. usage[r] \in Usage /\ global \in Usage
    BY Zenon, <1>1 DEF DeliveriesOK
  <1> HIDE DEF charge, r
  <1>10. Charged(d, r)
    BY SMTT(30), <1>3, <1>5, <1>6, <1>7, <1>8, <1>9 DEF Charged, One, r
  <1> QED BY Zenon, <1>1, <1>10 DEF r

(* A counter that is positive gives back what it was charged. *)
LEMMA MinusExact ==
    /\ \A n \in Nat : n >= 1 => Minus(n, 1) \in Nat /\ Minus(n, 1) + 1 = n
    /\ \A n \in Nat : Minus(n, 0) = n
  BY DEF Minus

(* A usage entry that is dropped when idle still counts what it counted. *)
LEMMA SettledCounts ==
    ASSUME NEW u \in Usage
    PROVE  /\ Settled(u).pending = u.pending
           /\ Settled(u).in_flight = u.in_flight
           /\ Settled(u).calls = u.calls
  BY Zenon DEF Settled, IsIdle, NoUsage, Usage

(* complete_attempt, to be retried: one attempt in flight fewer. *)
LEMMA RetryCharged ==
    ASSUME DeliveriesOK, Accounting, NEW d \in Deliveries, active_calls[d] = NoDelivery,
           RetryAttempt(d)
    PROVE  active[d].route \in Routes /\ Charged(d, active[d].route)
  <1> DEFINE r == active[d].route
             h == [active[d] EXCEPT !.state = "waiting", !.abort = FALSE, !.due = FALSE]
  <1>1. active[d] # NoDelivery /\ active[d].abort /\ UNCHANGED active_calls
    BY Zenon DEF RetryAttempt, AttemptEnded
  <1>2. active[d] \in Held /\ r \in Routes
    BY Zenon, <1>1, HeldType
  <1>3. active' = [active EXCEPT ![d] = h]
    BY Zenon DEF RetryAttempt, DeliveriesOK
  <1>4. /\ \A e \in Deliveries \ {d} : SameHolds(e)
        /\ active'[d] = h
    BY Zenon, <1>1, <1>3 DEF DeliveriesOK, SameHolds
  <1>5. h.state = "waiting" /\ h.route = r /\ ~h.abort
    BY Zenon, <1>2 DEF Held
  <1>6. /\ \A q \in Routes \ {r} : usage'[q] = usage[q]
        /\ usage'[r] = WithoutInFlight(usage[r]) /\ global' = WithoutInFlight(global)
    BY Zenon, <1>2 DEF RetryAttempt, DeliveriesOK
  <1> HIDE DEF h
  <1>7. active'[d] # NoDelivery /\ active'[d].route = r /\ ~active'[d].abort
    BY Zenon, <1>4, <1>5, HeldIsSome
  <1>8. /\ d \in Active /\ d \in Active' /\ d \in InFlight /\ d \notin InFlight'
        /\ d \notin ActiveCalls /\ d \notin ActiveCalls'
        /\ d \notin CallsInFlight /\ d \notin CallsInFlight'
    BY Zenon, <1>1, <1>7, Memberships
  <1>9. \A u \in Usage : /\ WithoutInFlight(u).pending = u.pending
                         /\ WithoutInFlight(u).in_flight = Minus(u.in_flight, 1)
                         /\ WithoutInFlight(u).calls = u.calls
                         /\ u.in_flight \in Nat
    BY Zenon DEF WithoutInFlight, Usage
  <1>10. usage[r] \in Usage /\ global \in Usage
    BY Zenon, <1>2 DEF DeliveriesOK
  <1>11. usage[r].in_flight >= 1 /\ global.in_flight >= 1
    BY Zenon, <1>8, CountedOnce
  <1>12. /\ usage'[r].in_flight + 1 = usage[r].in_flight
         /\ global'.in_flight + 1 = global.in_flight
         /\ usage[r].in_flight \in Nat /\ global.in_flight \in Nat
    BY SMTT(30), <1>6, <1>9, <1>10, <1>11, MinusExact
  <1> HIDE DEF r
  <1>13. Charged(d, r)
    BY SMTT(30), <1>1, <1>4, <1>6, <1>7, <1>8, <1>9, <1>10, <1>12 DEF Charged, One, r
  <1> QED BY Zenon, <1>2, <1>13 DEF r

(* finish_delivery: one pending delivery fewer, and one attempt in flight   *)
(* if it had one.                                                           *)
LEMMA FinishCharged ==
    ASSUME DeliveriesOK, Accounting, NEW d \in Deliveries, active[d] # NoDelivery,
           active_calls[d] = NoDelivery, FinishDelivery(d), UNCHANGED active_calls
    PROVE  active[d].route \in Routes /\ Charged(d, active[d].route)
  <1> DEFINE r == active[d].route
             flew == One(active[d].abort)
  <1>1. r \in Routes
    BY Zenon, HeldType
  <1>2. /\ \A e \in Deliveries \ {d} : SameHolds(e)
        /\ active'[d] = NoDelivery
        /\ \A q \in Routes \ {r} : usage'[q] = usage[q]
        /\ usage'[r] = Settled(WithoutDelivery(usage[r], d))
        /\ global' = WithoutDelivery(global, d)
    BY Zenon, <1>1 DEF FinishDelivery, DeliveriesOK, SameHolds
  <1>3. /\ d \in Active /\ d \notin Active' /\ d \notin InFlight'
        /\ d \in InFlight <=> active[d].abort
        /\ d \notin ActiveCalls /\ d \notin ActiveCalls'
        /\ d \notin CallsInFlight /\ d \notin CallsInFlight'
    BY Zenon, <1>2, Memberships
  <1>4. \A u \in Usage : /\ WithoutDelivery(u, d).pending = Minus(u.pending, 1)
                         /\ WithoutDelivery(u, d).in_flight = Minus(u.in_flight, flew)
                         /\ WithoutDelivery(u, d).calls = u.calls
                         /\ u.pending \in Nat /\ u.in_flight \in Nat
    BY Zenon DEF WithoutDelivery, Usage
  <1>5. usage[r] \in Usage /\ global \in Usage
    BY Zenon, <1>1 DEF DeliveriesOK
  <1>6. usage[r].pending >= 1 /\ global.pending >= 1
    BY Zenon, <1>3, CountedOnce
  <1>7. /\ Minus(usage[r].pending, 1) + 1 = usage[r].pending
        /\ Minus(global.pending, 1) + 1 = global.pending
    BY Zenon, <1>4, <1>5, <1>6, MinusExact
  <1>8. flew = One(d \in InFlight)
    BY Zenon, <1>3 DEF One
  <1>9. /\ Minus(usage[r].in_flight, flew) + One(d \in InFlight) = usage[r].in_flight
        /\ Minus(global.in_flight, flew) + One(d \in InFlight) = global.in_flight
    <2>1. CASE d \in InFlight
      <3>1. flew = 1 /\ usage[r].in_flight >= 1 /\ global.in_flight >= 1
        BY Zenon, <1>8, <2>1, CountedOnce DEF One
      <3> QED BY Zenon, <1>4, <1>5, <1>8, <3>1, MinusExact
    <2>2. CASE d \notin InFlight
      <3>1. flew = 0
        BY Zenon, <1>8, <2>2 DEF One
      <3> QED BY SMTT(30), <1>4, <1>5, <1>8, <3>1, MinusExact
    <2> QED BY Zenon, <2>1, <2>2
  <1>10. /\ usage'[r].pending = Minus(usage[r].pending, 1)
         /\ usage'[r].in_flight = Minus(usage[r].in_flight, flew)
         /\ usage'[r].calls = usage[r].calls
    BY SMTT(30), <1>2, <1>4, <1>5, WithoutDeliveryType, SettledCounts
  <1> HIDE DEF r, flew
  <1>11. Charged(d, r)
    <2>1. One(d \in InFlight') = 0 /\ One(d \in Active) = 1 /\ One(d \in Active') = 0
      BY Zenon, <1>3 DEF One
    <2>2. /\ One(d \in ActiveCalls') = One(d \in ActiveCalls)
          /\ One(d \in CallsInFlight') = One(d \in CallsInFlight)
      BY Zenon, <1>3 DEF One
    <2>3. \A h \in {active[d], active'[d], active_calls[d], active_calls'[d]} :
             h # NoDelivery => h.route = r
      BY Zenon, <1>2 DEF r
    <2>4. global'.calls = global.calls
      BY Zenon, <1>2, <1>4, <1>5
    <2>5. global'.in_flight = Minus(global.in_flight, flew)
      BY Zenon, <1>2, <1>4, <1>5
    <2>6. global'.pending = Minus(global.pending, 1)
      BY Zenon, <1>2, <1>4, <1>5
    <2>7. global.in_flight \in Nat /\ usage[r].in_flight \in Nat
      BY Zenon, <1>4, <1>5
    <2>8. global.pending \in Nat /\ usage[r].pending \in Nat
      BY Zenon, <1>4, <1>5
    <2> QED BY SMTT(30), <1>2, <1>7, <1>9, <1>10, <2>1, <2>2, <2>3, <2>4, <2>5, <2>6, <2>7, <2>8
            DEF Charged
  <1> QED BY Zenon, <1>1, <1>11 DEF r

(* finish_call: one call fewer. *)
LEMMA FinishCallCharged ==
    ASSUME DeliveriesOK, Accounting, NEW d \in Deliveries, active_calls[d] # NoDelivery,
           active[d] = NoDelivery, NEW answer, FinishCall(d, answer), UNCHANGED active
    PROVE  active_calls[d].route \in Routes /\ Charged(d, active_calls[d].route)
  <1> DEFINE r == active_calls[d].route
             flew == One(active_calls[d].abort)
  <1>1. r \in Routes
    BY Zenon, HeldType
  <1>2. /\ \A e \in Deliveries \ {d} : SameHolds(e)
        /\ active_calls'[d] = NoDelivery
        /\ \A q \in Routes \ {r} : usage'[q] = usage[q]
        /\ usage'[r] = Settled(WithoutCall(usage[r]))
        /\ global' = [global EXCEPT !.calls = Minus(@, flew)]
    BY Zenon, <1>1 DEF FinishCall, DeliveriesOK, SameHolds
  <1>3. /\ d \in ActiveCalls /\ d \notin ActiveCalls' /\ d \notin CallsInFlight'
        /\ d \in CallsInFlight <=> active_calls[d].abort
        /\ d \notin Active /\ d \notin Active' /\ d \notin InFlight /\ d \notin InFlight'
    BY Zenon, <1>2, Memberships
  <1>4. \A u \in Usage : /\ WithoutCall(u).pending = u.pending
                         /\ WithoutCall(u).in_flight = u.in_flight
                         /\ WithoutCall(u).calls = Minus(u.calls, 1)
                         /\ WithoutCall(u) \in Usage
                         /\ u.pending \in Nat /\ u.in_flight \in Nat /\ u.calls \in Nat
    BY Zenon, MinusType DEF WithoutCall, Usage
  <1>5. usage[r] \in Usage /\ global \in Usage
    BY Zenon, <1>1 DEF DeliveriesOK
  <1>6. /\ global'.pending = global.pending /\ global'.in_flight = global.in_flight
        /\ global'.calls = Minus(global.calls, flew)
    BY Zenon, <1>2, <1>5 DEF Usage
  <1>7. /\ usage'[r].pending = usage[r].pending /\ usage'[r].in_flight = usage[r].in_flight
        /\ usage'[r].calls + 1 = usage[r].calls
    <2>1. usage[r].calls >= 1
      BY Zenon, <1>3, CountedOnce
    <2> QED BY SMTT(30), <1>2, <1>4, <1>5, <2>1, SettledCounts, MinusExact
  <1>8. flew = One(d \in CallsInFlight)
    BY Zenon, <1>3 DEF One
  <1>9. Minus(global.calls, flew) + One(d \in CallsInFlight) = global.calls
    <2>1. CASE d \in CallsInFlight
      <3>1. flew = 1 /\ global.calls >= 1
        BY Zenon, <1>8, <2>1, CountedOnce DEF One
      <3> QED BY Zenon, <1>4, <1>5, <1>8, <3>1, MinusExact
    <2>2. CASE d \notin CallsInFlight
      <3>1. flew = 0
        BY Zenon, <1>8, <2>2 DEF One
      <3> QED BY SMTT(30), <1>4, <1>5, <1>8, <3>1, MinusExact
    <2> QED BY Zenon, <2>1, <2>2
  <1> HIDE DEF r, flew
  <1>10. Charged(d, r)
    <2>1. /\ One(d \in ActiveCalls) = 1 /\ One(d \in ActiveCalls') = 0
          /\ One(d \in CallsInFlight') = 0
      BY Zenon, <1>3 DEF One
    <2>2. /\ One(d \in Active') = One(d \in Active)
          /\ One(d \in InFlight') = One(d \in InFlight)
      BY Zenon, <1>3 DEF One
    <2>3. \A h \in {active[d], active'[d], active_calls[d], active_calls'[d]} :
             h # NoDelivery => h.route = r
      BY Zenon, <1>2 DEF r
    <2>4. global.calls \in Nat /\ usage[r].calls \in Nat
      BY Zenon, <1>4, <1>5
    <2> QED BY SMTT(30), <1>2, <1>6, <1>7, <1>9, <2>1, <2>2, <2>3, <2>4 DEF Charged
  <1> QED BY Zenon, <1>1, <1>10 DEF r

-----------------------------------------------------------------------------
(* Payload bytes *)

Bytes(S) == UNION {{d} \X (1 .. Size[d]) : d \in S}

BytesIf(d, condition) == IF condition THEN Size[d] ELSE 0

(* A set of deliveries has finitely many payload bytes. *)
LEMMA FiniteBytes ==
    ASSUME NEW S \in SUBSET Deliveries
    PROVE  IsFiniteSet(Bytes(S))
  <1> DEFINE bytes(d) == {d} \X (1 .. Size[d])
             image == {bytes(d) : d \in S}
             f == [d \in S |-> bytes(d)]
  <1>1. \A d \in S : IsFiniteSet(bytes(d))
    <2> SUFFICES ASSUME NEW d \in S PROVE IsFiniteSet(bytes(d))
      OBVIOUS
    <2>1. Size[d] \in Int
      BY SizeAssumption
    <2>2. IsFiniteSet(1 .. Size[d])
      BY SMTT(30), <2>1, FS_Interval
    <2>3. IsFiniteSet({d})
      BY Zenon, FS_Singleton
    <2> QED BY Zenon, <2>2, <2>3, FS_Product
  <1>2. IsFiniteSet(S)
    BY Zenon, FiniteLanes
  <1> HIDE DEF bytes
  <1>3. f \in Surjection(S, image)
    BY Zenon DEF Surjection
  <1>4. IsFiniteSet(image)
    BY Zenon, <1>2, <1>3, FS_Surjection
  <1>5. IsFiniteSet(UNION image)
    BY Zenon, <1>1, <1>4, FS_UNION
  <1> QED BY Zenon, <1>5 DEF Bytes, bytes

(* What one delivery adds to the payload bytes. *)
LEMMA BytesSplit ==
    ASSUME NEW S \in SUBSET Deliveries, NEW d \in Deliveries
    PROVE  /\ PayloadBytes(S \ {d}) \in Nat
           /\ PayloadBytes(S) = PayloadBytes(S \ {d}) + BytesIf(d, d \in S)
  <1> DEFINE own == {d} \X (1 .. Size[d])
             rest == Bytes(S \ {d})
  <1>1. IsFiniteSet(rest) /\ Cardinality(rest) \in Nat
    BY Zenon, FiniteBytes, FS_CardinalityType
  <1>2. Size[d] \in Nat
    BY Zenon, SizeAssumption
  <1>3. IsFiniteSet(own) /\ Cardinality(own) = Size[d]
    <2>1. IsFiniteSet(1 .. Size[d]) /\ Cardinality(1 .. Size[d]) = Size[d]
      BY SMTT(30), <1>2, FS_Interval
    <2>2. IsFiniteSet({d}) /\ Cardinality({d}) = 1
      BY Zenon, FS_Singleton
    <2>3. IsFiniteSet(own) /\ Cardinality(own) = 1 * Size[d]
      BY ZenonT(60), <2>1, <2>2, FS_Product
    <2> QED BY SMTT(30), <1>2, <2>3
  <1>4. PayloadBytes(S \ {d}) = Cardinality(rest) /\ PayloadBytes(S) = Cardinality(Bytes(S))
    BY Zenon DEF PayloadBytes, Bytes
  <1>5. CASE d \in S
    <2>1. Bytes(S) = rest \cup own
      BY Zenon, <1>5 DEF Bytes
    <2>2. rest \cap own = {}
      BY DEF Bytes
    <2> HIDE DEF rest, own
    <2>3. Cardinality(rest \cup own)
             = Cardinality(rest) + Cardinality(own) - Cardinality(rest \cap own)
      BY Zenon, <1>1, <1>3, FS_Union
    <2>4. Cardinality(rest \cap own) = 0
      BY Zenon, <2>2, FS_EmptySet
    <2>5. Cardinality(Bytes(S)) = Cardinality(rest \cup own)
      BY Zenon, <2>1
    <2>6. Cardinality(Bytes(S)) = Cardinality(rest) + Size[d]
      BY SMTT(30), <1>1, <1>2, <1>3, <2>3, <2>4, <2>5
    <2> QED BY Zenon, <1>1, <1>4, <1>5, <2>6 DEF BytesIf
  <1>6. CASE d \notin S
    <2>1. S \ {d} = S
      BY Zenon, <1>6
    <2> QED BY SMTT(30), <1>1, <1>4, <1>6, <2>1 DEF BytesIf
  <1> QED BY Zenon, <1>5, <1>6

(* A byte counter moves by the payload of the delivery that moves. *)
LEMMA BytesCounted ==
    ASSUME NEW S \in SUBSET Deliveries, NEW T \in SUBSET Deliveries,
           NEW d \in Deliveries, NEW n, NEW m,
           S \ {d} = T \ {d}, n = PayloadBytes(S), m \in Nat,
           m + BytesIf(d, d \in S) = n + BytesIf(d, d \in T)
    PROVE  m = PayloadBytes(T)
  <1>1. /\ PayloadBytes(S \ {d}) \in Nat
        /\ PayloadBytes(S) = PayloadBytes(S \ {d}) + BytesIf(d, d \in S)
        /\ PayloadBytes(T) = PayloadBytes(S \ {d}) + BytesIf(d, d \in T)
    BY Zenon, BytesSplit
  <1>2. BytesIf(d, d \in S) \in Nat /\ BytesIf(d, d \in T) \in Nat
    BY Zenon, SizeAssumption DEF BytesIf
  <1> QED BY SMTT(30), <1>1, <1>2

(* Nothing retained, no bytes; and one delivery's bytes are part of the sum. *)
LEMMA BytesEdges ==
    /\ PayloadBytes({}) = 0
    /\ \A S \in SUBSET Deliveries : \A d \in S : PayloadBytes(S) >= Size[d]
  <1>1. Bytes({}) = {}
    BY Zenon DEF Bytes
  <1>2. PayloadBytes({}) = 0
    BY Zenon, <1>1, FS_EmptySet DEF PayloadBytes, Bytes
  <1>3. ASSUME NEW S \in SUBSET Deliveries, NEW d \in S PROVE PayloadBytes(S) >= Size[d]
    <2>1. /\ PayloadBytes(S \ {d}) \in Nat
          /\ PayloadBytes(S) = PayloadBytes(S \ {d}) + BytesIf(d, d \in S)
      BY Zenon, BytesSplit
    <2> QED BY <2>1, SizeAssumption DEF BytesIf
  <1> QED BY Zenon, <1>2, <1>3

(* The payload of delivery d is charged to the totals and to route r. *)
PayloadCharged(d, r) ==
    /\ usage'[r].bytes + BytesIf(d, d \in Active) = usage[r].bytes + BytesIf(d, d \in Active')
    /\ global'.bytes + BytesIf(d, d \in Active) = global.bytes + BytesIf(d, d \in Active')

(* The retained bytes, without the limits. *)
PayloadSums ==
    /\ global.bytes = PayloadBytes(Active)
    /\ \A r \in Routes : usage[r].bytes = PayloadBytes(ActiveOn(r))

(* If every charge is made, the byte counters stay the retained bytes. *)
LEMMA ChargedPayload ==
    ASSUME DeliveriesOK', PayloadSums, NEW d \in Deliveries, NEW r \in Routes,
           Charged(d, r), PayloadCharged(d, r)
    PROVE  PayloadSums'
  <1>1. /\ Active \in SUBSET Deliveries /\ Active' \in SUBSET Deliveries
        /\ \A q \in Routes : /\ ActiveOn(q) \in SUBSET Deliveries
                             /\ ActiveOn(q)' \in SUBSET Deliveries
    BY Zenon DEF Active, ActiveOn
  <1>2. /\ Active \ {d} = Active' \ {d}
        /\ \A q \in Routes : ActiveOn(q) \ {d} = ActiveOn(q)' \ {d}
    BY Zenon, OthersStay DEF Charged
  <1>3. global'.bytes \in Nat /\ \A q \in Routes : usage'[q].bytes \in Nat
    BY Zenon DEF DeliveriesOK, Usage
  <1>4. global'.bytes = PayloadBytes(Active')
    BY SMTT(30), <1>1, <1>2, <1>3, BytesCounted DEF PayloadSums, PayloadCharged
  <1>5. /\ active[d] # NoDelivery => active[d].route = r
        /\ active'[d] # NoDelivery => active'[d].route = r
    BY Zenon DEF Charged
  <1>6. usage'[r].bytes = PayloadBytes(ActiveOn(r)')
    <2>1. (d \in ActiveOn(r) <=> d \in Active) /\ (d \in ActiveOn(r)' <=> d \in Active')
      BY Zenon, <1>5 DEF ActiveOn, Active
    <2>2. /\ BytesIf(d, d \in ActiveOn(r)) = BytesIf(d, d \in Active)
          /\ BytesIf(d, d \in ActiveOn(r)') = BytesIf(d, d \in Active')
      BY Zenon, <2>1 DEF BytesIf
    <2> QED BY SMTT(30), <1>1, <1>2, <1>3, <2>2, BytesCounted DEF PayloadSums, PayloadCharged
  <1>7. ASSUME NEW q \in Routes, q # r
        PROVE  usage'[q].bytes = PayloadBytes(ActiveOn(q)')
    <2>1. d \notin ActiveOn(q) /\ d \notin ActiveOn(q)'
      BY Zenon, <1>5, <1>7 DEF ActiveOn, Active
    <2>2. ActiveOn(q)' = ActiveOn(q)
      BY SMTT(30), <1>2, <2>1
    <2>3. usage'[q] = usage[q]
      BY Zenon, <1>7 DEF Charged
    <2> QED BY Zenon, <2>2, <2>3 DEF PayloadSums
  <1> QED BY Zenon, <1>4, <1>6, <1>7 DEF PayloadSums

(* A step that neither admits nor ends a delivery leaves the bytes alone. *)
LEMMA SamePayload ==
    ASSUME NEW d, NEW r, usage'[r].bytes = usage[r].bytes, global'.bytes = global.bytes,
           d \in Active <=> d \in Active'
    PROVE  PayloadCharged(d, r)
  <1>1. BytesIf(d, d \in Active') = BytesIf(d, d \in Active)
    BY Zenon DEF BytesIf
  <1> QED BY Zenon, <1>1 DEF PayloadCharged

(* admit_emit retains the payload. *)
LEMMA EmitPayload ==
    ASSUME DeliveriesOK, NEW d \in Deliveries, NEW r \in Routes,
           active[d] = NoDelivery, AcceptEmit(r, d)
    PROVE  /\ PayloadCharged(d, r)
           /\ usage'[r].bytes = usage[r].bytes + Size[d]
           /\ global'.bytes = global.bytes + Size[d]
           /\ usage'[r].pending = usage[r].pending + 1
           /\ global'.pending = global.pending + 1
  <1>1. /\ active'[d] = Admission(r, d)
        /\ usage'[r] = WithDelivery(usage[r], d) /\ global' = WithDelivery(global, d)
    BY Zenon DEF AcceptEmit, DeliveriesOK
  <1>2. active'[d] # NoDelivery
    BY Zenon, <1>1, HeldIsSome DEF Admission
  <1>3. BytesIf(d, d \in Active) = 0 /\ BytesIf(d, d \in Active') = Size[d]
    BY Zenon, <1>2, Memberships DEF BytesIf
  <1>4. \A u \in Usage : /\ WithDelivery(u, d).bytes = u.bytes + Size[d]
                         /\ WithDelivery(u, d).pending = u.pending + 1
                         /\ u.bytes \in Nat
    BY Zenon DEF WithDelivery, Usage
  <1>5. usage[r] \in Usage /\ global \in Usage /\ Size[d] \in Nat
    BY Zenon, SizeAssumption DEF DeliveriesOK
  <1> QED BY SMTT(30), <1>1, <1>3, <1>4, <1>5 DEF PayloadCharged

(* finish_delivery gives the payload back, and the last one leaves nothing. *)
LEMMA FinishPayload ==
    ASSUME DeliveriesOK, Accounting, PayloadSums, NEW d \in Deliveries,
           active[d] # NoDelivery, FinishDelivery(d)
    PROVE  PayloadCharged(d, active[d].route)
  <1> DEFINE r == active[d].route
             u == WithoutDelivery(usage[r], d)
  <1>1. r \in Routes /\ Size[d] \in Nat /\ usage[r] \in Usage /\ global \in Usage
    BY Zenon, HeldType, SizeAssumption DEF DeliveriesOK
  <1>2. /\ active'[d] = NoDelivery /\ usage'[r] = Settled(u)
        /\ global' = WithoutDelivery(global, d)
    BY Zenon, <1>1 DEF FinishDelivery, DeliveriesOK
  <1>3. BytesIf(d, d \in Active) = Size[d] /\ BytesIf(d, d \in Active') = 0
    BY Zenon, <1>2, Memberships DEF BytesIf
  <1>4. /\ u.bytes = Minus(usage[r].bytes, Size[d])
        /\ u.pending = Minus(usage[r].pending, 1)
        /\ global'.bytes = Minus(global.bytes, Size[d])
    BY Zenon, <1>1, <1>2 DEF WithoutDelivery, Usage
  <1>5. Active \in SUBSET Deliveries /\ ActiveOn(r) \in SUBSET Deliveries
    BY Zenon, <1>1, FiniteLanes
  <1>6. d \in Active /\ d \in ActiveOn(r)
    BY Zenon DEF Active, ActiveOn
  <1>7. usage[r].bytes >= Size[d] /\ global.bytes >= Size[d]
    BY Zenon, <1>1, <1>5, <1>6, BytesEdges DEF PayloadSums
  <1>8. usage[r].bytes \in Nat /\ global.bytes \in Nat /\ usage[r].pending \in Nat
    BY Zenon, <1>1 DEF Usage
  <1>9. u.bytes + Size[d] = usage[r].bytes /\ global'.bytes + Size[d] = global.bytes
    BY SMTT(30), <1>1, <1>4, <1>7, <1>8 DEF Minus
  <1>10. usage'[r].bytes = u.bytes
    <2>1. CASE IsIdle(u)
      <3>1. usage[r].pending >= 1
        BY ZenonT(60), <1>6, CountedOnce
      <3>2. usage[r].pending = 1
        BY SMTT(30), <1>4, <1>8, <2>1, <3>1 DEF IsIdle, Minus
      <3>3. Cardinality(ActiveOn(r)) = 1 /\ IsFiniteSet(ActiveOn(r))
        BY Zenon, <1>1, <1>5, <3>2, FiniteLanes DEF Accounting
      <3>4. ActiveOn(r) \ {d} = {}
        <4>1. PICK x : ActiveOn(r) = {x}
          BY Zenon, <3>3, FS_Singleton
        <4> QED BY Zenon, <1>6, <4>1
      <3>5. PayloadBytes(ActiveOn(r)) = PayloadBytes({}) + BytesIf(d, d \in ActiveOn(r))
        BY Zenon, <1>5, <3>4, BytesSplit
      <3>6. usage[r].bytes = Size[d]
        BY SMTT(30), <1>1, <1>6, <3>5, BytesEdges DEF BytesIf, PayloadSums
      <3>7. u.bytes = 0
        BY SMTT(30), <1>1, <1>4, <3>6 DEF Minus
      <3> QED BY SMTT(30), <1>2, <2>1, <3>7 DEF Settled, NoUsage
    <2>2. CASE ~IsIdle(u)
      BY Zenon, <1>2, <2>2 DEF Settled
    <2> QED BY Zenon, <2>1, <2>2
  <1> HIDE DEF r, u
  <1>11. PayloadCharged(d, r)
    BY SMTT(30), <1>1, <1>3, <1>8, <1>9, <1>10 DEF PayloadCharged
  <1> QED BY Zenon, <1>11 DEF r

(* finish_call leaves the payload bytes of its route alone. *)
LEMMA FinishCallPayload ==
    ASSUME DeliveriesOK, Accounting, PayloadSums, NEW d \in Deliveries,
           active_calls[d] # NoDelivery, active[d] = NoDelivery,
           NEW answer, FinishCall(d, answer), UNCHANGED active
    PROVE  PayloadCharged(d, active_calls[d].route)
  <1> DEFINE r == active_calls[d].route
             u == WithoutCall(usage[r])
  <1>1. r \in Routes /\ usage[r] \in Usage /\ global \in Usage
    BY Zenon, HeldType DEF DeliveriesOK
  <1>2. usage'[r] = Settled(u) /\ global'.bytes = global.bytes
    BY Zenon, <1>1 DEF FinishCall, DeliveriesOK, Usage
  <1>3. u.bytes = usage[r].bytes /\ u.pending = usage[r].pending
    BY Zenon, <1>1 DEF WithoutCall, Usage
  <1>4. usage'[r].bytes = usage[r].bytes
    <2>1. CASE IsIdle(u)
      <3>1. Cardinality(ActiveOn(r)) = 0 /\ IsFiniteSet(ActiveOn(r))
        BY Zenon, <1>1, <1>3, <2>1, FiniteLanes DEF Accounting, IsIdle
      <3>2. ActiveOn(r) = {}
        BY Zenon, <3>1, FS_EmptySet
      <3>3. usage[r].bytes = 0
        BY Zenon, <1>1, <3>2, BytesEdges DEF PayloadSums
      <3> QED BY SMTT(30), <1>2, <2>1, <3>3 DEF Settled, NoUsage
    <2>2. CASE ~IsIdle(u)
      BY Zenon, <1>2, <1>3, <2>2 DEF Settled
    <2> QED BY Zenon, <2>1, <2>2
  <1>5. d \in Active <=> d \in Active'
    BY Zenon DEF Active
  <1> QED BY Zenon, <1>2, <1>4, <1>5, SamePayload

-----------------------------------------------------------------------------
(* Every step *)

(* What d needs room for, there was room for. *)
Joins(d, r) ==
    /\ (d \in Active' /\ d \notin Active) => HasPendingCapacity(r, Size[d])
    /\ (d \in InFlight' /\ d \notin InFlight) => global.in_flight < GlobalInFlight
    /\ (d \in ActiveCalls' /\ d \notin ActiveCalls) => HasCallCapacity

Accounted(d) == \E r \in Routes : Charged(d, r) /\ PayloadCharged(d, r) /\ Joins(d, r)

Balanced == Agreeing /\ Accounting /\ PayloadSums

(* A delivery that finishes is accounted for. *)
LEMMA FinishAccounted ==
    ASSUME Balanced, NEW d \in Deliveries, active[d] # NoDelivery, FinishDelivery(d),
           UNCHANGED active_calls
    PROVE  Accounted(d)
  <1>1. DeliveriesOK /\ Accounting /\ PayloadSums /\ active_calls[d] = NoDelivery
    BY Zenon, HeldAgrees DEF Balanced, Agreeing
  <1>2. active[d].route \in Routes /\ Charged(d, active[d].route)
    BY Zenon, <1>1, FinishCharged
  <1>3. PayloadCharged(d, active[d].route)
    BY Zenon, <1>1, FinishPayload
  <1>4. active'[d] = NoDelivery
    BY Zenon, <1>1 DEF FinishDelivery, DeliveriesOK
  <1>5. Joins(d, active[d].route)
    BY Zenon, <1>4, Memberships DEF Joins
  <1> QED BY Zenon, <1>2, <1>3, <1>5 DEF Accounted

(* A call that finishes is accounted for. *)
LEMMA FinishCallAccounted ==
    ASSUME Balanced, NEW d \in Deliveries, active_calls[d] # NoDelivery, NEW answer,
           FinishCall(d, answer), UNCHANGED active
    PROVE  Accounted(d)
  <1>1. DeliveriesOK /\ Accounting /\ PayloadSums /\ active[d] = NoDelivery
    BY Zenon, HeldAgrees DEF Balanced, Agreeing
  <1>2. active_calls[d].route \in Routes /\ Charged(d, active_calls[d].route)
    BY Zenon, <1>1, FinishCallCharged
  <1>3. PayloadCharged(d, active_calls[d].route)
    BY Zenon, <1>1, FinishCallPayload
  <1>4. active_calls'[d] = NoDelivery
    BY Zenon, <1>1 DEF FinishCall, DeliveriesOK
  <1>5. Joins(d, active_calls[d].route)
    BY Zenon, <1>1, <1>4, Memberships DEF Joins
  <1> QED BY Zenon, <1>2, <1>3, <1>5 DEF Accounted

(* An admission is accounted for. *)
LEMMA AdmissionAccounted ==
    ASSUME Balanced, NEW d \in Deliveries, NEW r \in Routes, Admissible(d),
           \/ HasPendingCapacity(r, Size[d]) /\ AcceptEmit(r, d)
           \/ HasCallCapacity /\ AcceptCall(r, d)
    PROVE  UNCHANGED lanes \/ Accounted(d)
  <1>1. DeliveriesOK /\ Agrees(d) /\ ~persistence_degraded
    BY Zenon DEF Balanced, Agreeing, Admissible
  <1>2. CASE HasPendingCapacity(r, Size[d]) /\ AcceptEmit(r, d)
    <2>1. PICK l \in Reclaimings : l[d] = Absent
      BY Zenon, <1>2 DEF AcceptEmit
    <2>2. active[d] = NoDelivery /\ active_calls[d] = NoDelivery
      BY Zenon, <1>1, <2>1, Newcomer DEF Fresh
    <2>3. Charged(d, r) /\ PayloadCharged(d, r)
      BY Zenon, <1>1, <1>2, <2>2, EmitCharged, EmitPayload
    <2>4. active'[d] = Admission(r, d) /\ active_calls' = active_calls
      BY ZenonT(60), <1>1, <1>2 DEF AcceptEmit, DeliveriesOK
    <2>5. ~active'[d].abort
      BY <2>4 DEF Admission
    <2>6. Joins(d, r)
      BY Zenon, <1>2, <2>2, <2>4, <2>5, Memberships DEF Joins
    <2> QED BY Zenon, <2>3, <2>6 DEF Accounted
  <1>3. CASE HasCallCapacity /\ AcceptCall(r, d)
    <2>1. PICK l \in Reclaimings :
             /\ l[d] = Absent
             /\ StartCall(r, d, WithIntent(l, d)) \/ FailCall(d, WithIntent(l, d))
      BY Zenon, <1>3 DEF AcceptCall
    <2>2. active[d] = NoDelivery /\ active_calls[d] = NoDelivery /\ UNCHANGED active
      BY ZenonT(60), <1>1, <1>3, <2>1, Newcomer DEF Fresh, AcceptCall
    <2>3. CASE FailCall(d, WithIntent(l, d))
      BY Zenon, <2>2, <2>3 DEF FailCall, lanes
    <2>4. CASE StartCall(r, d, WithIntent(l, d))
      <3>1. Charged(d, r)
        BY ZenonT(60), <1>1, <2>2, <2>4, CallCharged
      <3>2. usage'[r].bytes = usage[r].bytes /\ global'.bytes = global.bytes
        BY Zenon, <1>1, <2>4 DEF StartCall, DeliveriesOK, Usage
      <3>3. d \notin Active /\ d \notin Active' /\ d \notin InFlight'
        BY Zenon, <2>2, Memberships
      <3>4. PayloadCharged(d, r)
        BY Zenon, <3>2, <3>3, SamePayload
      <3>5. Joins(d, r)
        BY Zenon, <1>3, <3>3 DEF Joins
      <3> QED BY Zenon, <3>1, <3>4, <3>5 DEF Accounted
    <2> QED BY Zenon, <2>1, <2>3, <2>4
  <1> QED BY Zenon, <1>2, <1>3

(* An attempt that starts, or fails to, is accounted for. *)
LEMMA ServeAccounted ==
    ASSUME Balanced, NEW d \in Deliveries, Serve(d)
    PROVE  UNCHANGED lanes \/ Accounted(d)
  <1>1. active[d] # NoDelivery /\ ~active[d].abort /\ global.in_flight < GlobalInFlight
    BY Zenon DEF Serve, Servable
  <1>2. DeliveriesOK /\ Accounting /\ PayloadSums /\ active_calls[d] = NoDelivery
    BY Zenon, <1>1, HeldAgrees DEF Balanced, Agreeing
  <1>3. CASE UNCHANGED deliveries
    BY Zenon, <1>3 DEF deliveries
  <1>4. CASE StartUnrecorded(d) /\ UNCHANGED active_calls
    BY Zenon, <1>1, <1>4, FinishAccounted DEF StartUnrecorded
  <1>5. CASE StartRecorded(d) /\ UNCHANGED active_calls
    <2>1. active[d].route \in Routes /\ Charged(d, active[d].route)
      BY Zenon, <1>1, <1>2, <1>5, StartCharged
    <2>2. /\ usage'[active[d].route].bytes = usage[active[d].route].bytes
          /\ global'.bytes = global.bytes
      BY Zenon, <1>2, <1>5, <2>1 DEF StartRecorded, DeliveriesOK, Usage
    <2>3. active'[d].state = "in_flight"
      <3>1. active[d] \in Held
        BY Zenon, <1>1, <1>2, HeldType
      <3> QED BY ZenonT(60), <1>2, <1>5, <3>1 DEF StartRecorded, DeliveriesOK, Held
    <2>4. active'[d] # NoDelivery
      BY Zenon, <2>3, HeldIsSome
    <2>5. d \in Active /\ d \in Active' /\ (d \in ActiveCalls <=> d \in ActiveCalls')
      BY ZenonT(60), <1>1, <1>5, <2>4, Memberships
    <2>6. PayloadCharged(d, active[d].route)
      BY Zenon, <2>2, <2>5, SamePayload
    <2>7. Joins(d, active[d].route)
      BY Zenon, <1>1, <2>5 DEF Joins
    <2> QED BY Zenon, <2>1, <2>6, <2>7 DEF Accounted
  <1> QED BY Zenon, <1>3, <1>4, <1>5 DEF Serve, StartAttempt

(* A retry that is scheduled, or falls due, is accounted for. *)
LEMMA RetryAccounted ==
    ASSUME Balanced, NEW d \in Deliveries, RetryAttempt(d) \/ ComeDue(d)
    PROVE  Accounted(d)
  <1> DEFINE r == active[d].route
  <1>1. active[d] # NoDelivery /\ UNCHANGED active_calls
    BY Zenon DEF RetryAttempt, AttemptEnded, ComeDue
  <1>2. DeliveriesOK /\ Accounting /\ PayloadSums /\ active_calls[d] = NoDelivery
    BY Zenon, <1>1, HeldAgrees DEF Balanced, Agreeing
  <1>3. active[d] \in Held /\ r \in Routes
    BY Zenon, <1>1, <1>2, HeldType
  <1>4. CASE RetryAttempt(d)
    <2>1. Charged(d, r)
      BY Zenon, <1>2, <1>4, RetryCharged
    <2>2. usage'[r].bytes = usage[r].bytes /\ global'.bytes = global.bytes
      BY Zenon, <1>2, <1>3, <1>4 DEF RetryAttempt, WithoutInFlight, DeliveriesOK, Usage
    <2>3. active'[d].state = "waiting" /\ ~active'[d].abort
      BY Zenon, <1>2, <1>3, <1>4 DEF RetryAttempt, DeliveriesOK, Held
    <2>4. active'[d] # NoDelivery
      BY Zenon, <2>3, HeldIsSome
    <2>5. /\ d \in Active /\ d \in Active' /\ d \notin InFlight'
          /\ d \in ActiveCalls <=> d \in ActiveCalls'
      BY Zenon, <1>1, <2>3, <2>4, Memberships
    <2>6. PayloadCharged(d, r)
      BY Zenon, <2>2, <2>5, SamePayload
    <2>7. Joins(d, r)
      BY ZenonT(60), <2>5 DEF Joins
    <2> QED BY Zenon, <1>3, <2>1, <2>6, <2>7 DEF Accounted
  <1>5. CASE ComeDue(d)
    <2>1. /\ \A e \in Deliveries \ {d} : SameHolds(e)
          /\ active'[d] = [active[d] EXCEPT !.due = TRUE]
          /\ UNCHANGED <<usage, global>>
      BY Zenon, <1>2, <1>5 DEF ComeDue, DeliveriesOK, SameHolds
    <2>2. /\ active'[d].state = active[d].state /\ active'[d].route = r
          /\ active'[d].abort = active[d].abort /\ active[d].state = "waiting"
      <3>1. /\ active'[d].state = active[d].state /\ active'[d].route = r
            /\ active'[d].abort = active[d].abort
        BY <1>3, <2>1 DEF Held
      <3>2. active[d].state = "waiting"
        BY Zenon, <1>5 DEF ComeDue
      <3> QED BY Zenon, <3>1, <3>2
    <2>3. active'[d] # NoDelivery
      BY Zenon, <2>2, HeldIsSome
    <2>4. Charged(d, r)
      BY Zenon, <1>1, <1>2, <1>3, <2>1, <2>2, <2>3, NothingCharged
    <2>5. /\ d \in Active /\ d \in Active' /\ (d \in InFlight' <=> d \in InFlight)
          /\ d \in ActiveCalls <=> d \in ActiveCalls'
      BY Zenon, <1>1, <2>2, <2>3, Memberships
    <2>6. PayloadCharged(d, r)
      BY Zenon, <2>1, <2>5, SamePayload
    <2>7. Joins(d, r)
      BY Zenon, <2>5 DEF Joins
    <2> QED BY Zenon, <1>3, <2>4, <2>6, <2>7 DEF Accounted
  <1> QED BY Zenon, <1>4, <1>5

(* Every step of a delivery is accounted for. *)
LEMMA StepAccounted ==
    ASSUME Balanced, NEW d \in Deliveries, DeliveryStep(d)
    PROVE  UNCHANGED lanes \/ Accounted(d)
  <1>1. CASE Admissible(d) /\ InsertFails(d)
    BY Zenon, <1>1 DEF InsertFails
  <1>2. CASE \E r \in Routes :
                \/ Admissible(d) /\ HasPendingCapacity(r, Size[d]) /\ AcceptEmit(r, d)
                \/ Admissible(d) /\ HasCallCapacity /\ AcceptCall(r, d)
    BY Zenon, <1>2, AdmissionAccounted
  <1>3. CASE Serve(d)
    BY Zenon, <1>3, ServeAccounted
  <1>4. CASE RetryAttempt(d) \/ ComeDue(d)
    BY Zenon, <1>4, RetryAccounted
  <1>5. CASE EndAttempt(d)
    BY Zenon, <1>5, FinishAccounted DEF EndAttempt, AttemptEnded, EndDelivery
  <1>6. CASE \E event \in {"failed", "cancel", "shutdown"} :
                active[d] # NoDelivery /\ CutDelivery(d, event)
    BY Zenon, <1>6, FinishAccounted DEF CutDelivery, EndDelivery
  <1>7. CASE \E event \in {"failed", "cancel", "shutdown"} :
                active_calls[d] # NoDelivery /\ CutCall(d, event)
    BY Zenon, <1>7, FinishCallAccounted DEF CutCall, EndCall
  <1>8. CASE CompleteHeldCall(d)
    BY Zenon, <1>8, FinishCallAccounted DEF CompleteHeldCall, CallEnded, EndCall
  <1>9. CASE DropAttempt(d) \/ DropCall(d) \/ \E result \in Finished : EndTask(d, result)
    BY Zenon, <1>9 DEF DropAttempt, DropCall, EndTask
  <1> QED BY ZenonT(60), <1>1, <1>2, <1>3, <1>4, <1>5, <1>6, <1>7, <1>8, <1>9 DEF DeliveryStep

-----------------------------------------------------------------------------
(* The limits, and the invariant *)

WithinLimits ==
    /\ global.pending <= GlobalPending
    /\ global.bytes <= GlobalBytes
    /\ global.in_flight <= GlobalInFlight
    /\ Cardinality(ActiveCalls) <= CallInFlight
    /\ \A r \in Routes : usage[r].pending <= RoutePending /\ usage[r].bytes <= RouteBytes

AccountingInv == Accounting /\ PayloadSums /\ WithinLimits

(* A counter that grows had room. *)
LEMMA Room ==
    ASSUME NEW n \in Nat, NEW m \in Nat, NEW limit \in Nat, NEW d, NEW S, NEW T,
           n <= limit, m + One(d \in S) = n + One(d \in T),
           (d \in T /\ d \notin S) => n < limit
    PROVE  m <= limit
  BY DEF One

(* A byte counter that grows had room. *)
LEMMA BytesRoom ==
    ASSUME NEW n \in Nat, NEW m \in Nat, NEW limit \in Nat, NEW d \in Deliveries,
           NEW S, NEW T, n <= limit, m + BytesIf(d, d \in S) = n + BytesIf(d, d \in T),
           (d \in T /\ d \notin S) => n + Size[d] <= limit
    PROVE  m <= limit
  BY SizeAssumption DEF BytesIf

(* No step exceeds a limit. *)
LEMMA AccountedLimits ==
    ASSUME DeliveriesOK, DeliveriesOK', WithinLimits, NEW d \in Deliveries, Accounted(d)
    PROVE  WithinLimits'
  <1>1. PICK r \in Routes : Charged(d, r) /\ PayloadCharged(d, r) /\ Joins(d, r)
    BY Zenon DEF Accounted
  <1>2. /\ global.pending \in Nat /\ global'.pending \in Nat
        /\ global.bytes \in Nat /\ global'.bytes \in Nat
        /\ global.in_flight \in Nat /\ global'.in_flight \in Nat
        /\ usage[r].pending \in Nat /\ usage'[r].pending \in Nat
        /\ usage[r].bytes \in Nat /\ usage'[r].bytes \in Nat
    BY Zenon DEF DeliveriesOK, Usage
  <1>3. /\ GlobalPending \in Nat /\ GlobalBytes \in Nat /\ GlobalInFlight \in Nat
        /\ RoutePending \in Nat /\ RouteBytes \in Nat /\ CallInFlight \in Nat
    BY Zenon, LimitsAssumption
  <1>4. global'.pending <= GlobalPending /\ usage'[r].pending <= RoutePending
    <2>1. (d \in Active' /\ d \notin Active) =>
             global.pending < GlobalPending /\ usage[r].pending < RoutePending
      BY Zenon, <1>1 DEF Joins, HasPendingCapacity
    <2>2. /\ global'.pending + One(d \in Active) = global.pending + One(d \in Active')
          /\ usage'[r].pending + One(d \in Active) = usage[r].pending + One(d \in Active')
      BY Zenon, <1>1 DEF Charged
    <2>3. global.pending <= GlobalPending /\ usage[r].pending <= RoutePending
      BY Zenon DEF WithinLimits
    <2> QED BY ZenonT(60), <1>2, <1>3, <2>1, <2>2, <2>3, Room
  <1>5. global'.in_flight <= GlobalInFlight
    <2>1. (d \in InFlight' /\ d \notin InFlight) => global.in_flight < GlobalInFlight
      BY Zenon, <1>1 DEF Joins
    <2>2. global'.in_flight + One(d \in InFlight) = global.in_flight + One(d \in InFlight')
      BY Zenon, <1>1 DEF Charged
    <2>3. global.in_flight <= GlobalInFlight
      BY Zenon DEF WithinLimits
    <2> QED BY Zenon, <1>2, <1>3, <2>1, <2>2, <2>3, Room
  <1>7. global'.bytes <= GlobalBytes /\ usage'[r].bytes <= RouteBytes
    <2>1. (d \in Active' /\ d \notin Active) =>
             /\ global.bytes + Size[d] <= GlobalBytes
             /\ usage[r].bytes + Size[d] <= RouteBytes
      BY Zenon, <1>1 DEF Joins, HasPendingCapacity
    <2>2. /\ global'.bytes + BytesIf(d, d \in Active) = global.bytes + BytesIf(d, d \in Active')
          /\ usage'[r].bytes + BytesIf(d, d \in Active)
                = usage[r].bytes + BytesIf(d, d \in Active')
      BY Zenon, <1>1 DEF PayloadCharged
    <2>3. global.bytes <= GlobalBytes /\ usage[r].bytes <= RouteBytes
      BY Zenon DEF WithinLimits
    <2> QED BY Zenon, <1>2, <1>3, <2>1, <2>2, <2>3, BytesRoom
  <1>8. \A q \in Routes \ {r} : usage'[q] = usage[q]
    BY Zenon, <1>1 DEF Charged
  <1>9. Cardinality(ActiveCalls') <= CallInFlight
    <2>1. ActiveCalls \ {d} = ActiveCalls' \ {d}
      BY Zenon, <1>1, OthersStay DEF Charged
    <2>2. IsFiniteSet(ActiveCalls) /\ IsFiniteSet(ActiveCalls')
      BY Zenon, FiniteLanes DEF ActiveCalls
    <2>3. /\ Cardinality(ActiveCalls) \in Nat /\ Cardinality(ActiveCalls') \in Nat
          /\ Cardinality(ActiveCalls') + One(d \in ActiveCalls)
                = Cardinality(ActiveCalls) + One(d \in ActiveCalls')
      BY Zenon, <2>1, <2>2, Recount
    <2> QED BY Zenon, <1>1, <1>3, <2>3, Room DEF Joins, HasCallCapacity, WithinLimits
  <1> QED BY Zenon, <1>4, <1>5, <1>7, <1>8, <1>9 DEF WithinLimits

(* A step that changes nothing counted. *)
LEMMA SameLanes == AccountingInv /\ UNCHANGED lanes => AccountingInv'
  <1> SUFFICES ASSUME AccountingInv, UNCHANGED lanes PROVE AccountingInv'
    OBVIOUS
  <1>1. UNCHANGED <<active, active_calls, usage, global>>
    BY Zenon DEF lanes
  <1>2. /\ Active' = Active /\ ActiveCalls' = ActiveCalls
        /\ InFlight' = InFlight /\ CallsInFlight' = CallsInFlight
        /\ \A r : /\ ActiveOn(r)' = ActiveOn(r) /\ InFlightOn(r)' = InFlightOn(r)
                 /\ CallsOn(r)' = CallsOn(r)
    BY Zenon, <1>1 DEF Active, ActiveCalls, InFlight, CallsInFlight, ActiveOn, InFlightOn, CallsOn
  <1>3. Accounting'
    BY Zenon, <1>1, <1>2 DEF AccountingInv, Accounting
  <1>4. PayloadSums'
    BY Zenon, <1>1, <1>2 DEF AccountingInv, PayloadSums, PayloadBytes
  <1>5. WithinLimits'
    BY Zenon, <1>1, <1>2 DEF AccountingInv, WithinLimits
  <1> QED BY Zenon, <1>3, <1>4, <1>5 DEF AccountingInv

(* An engine that holds nothing counts nothing. *)
LEMMA InitAccounting == DeliveriesInit => AccountingInv
  <1> SUFFICES ASSUME DeliveriesInit PROVE AccountingInv
    OBVIOUS
  <1>1. /\ Active = {} /\ ActiveCalls = {} /\ InFlight = {} /\ CallsInFlight = {}
        /\ \A r \in Routes : ActiveOn(r) = {} /\ InFlightOn(r) = {} /\ CallsOn(r) = {}
    BY Zenon DEF DeliveriesInit, Active, ActiveCalls, InFlight, CallsInFlight, ActiveOn,
           InFlightOn, CallsOn
  <1>2. Cardinality({}) = 0 /\ PayloadBytes({}) = 0
    BY Zenon, FS_EmptySet, BytesEdges
  <1>3. /\ NoUsage.pending = 0 /\ NoUsage.bytes = 0 /\ NoUsage.in_flight = 0
        /\ NoUsage.calls = 0
    BY Zenon DEF NoUsage
  <1>4. global = NoUsage /\ \A r \in Routes : usage[r] = NoUsage
    BY Zenon DEF DeliveriesInit
  <1>5. /\ 0 <= GlobalPending /\ 0 <= GlobalBytes /\ 0 <= GlobalInFlight
        /\ 0 <= RoutePending /\ 0 <= RouteBytes /\ 0 <= CallInFlight
    BY LimitsAssumption
  <1> QED BY Zenon, <1>1, <1>2, <1>3, <1>4, <1>5
          DEF AccountingInv, Accounting, PayloadSums, WithinLimits

(* Engine::new, whether the process stopped or died. *)
LEMMA RestartAccounting == HoldNothing => AccountingInv'
  <1> SUFFICES ASSUME HoldNothing PROVE AccountingInv'
    OBVIOUS
  <1>1. /\ Active' = {} /\ ActiveCalls' = {} /\ InFlight' = {} /\ CallsInFlight' = {}
        /\ \A r \in Routes : ActiveOn(r)' = {} /\ InFlightOn(r)' = {} /\ CallsOn(r)' = {}
    BY ZenonT(60) DEF HoldNothing, Active, ActiveCalls, InFlight, CallsInFlight, ActiveOn,
           InFlightOn, CallsOn
  <1>2. Cardinality({}) = 0 /\ PayloadBytes({}) = 0
    BY Zenon, FS_EmptySet, BytesEdges
  <1>3. /\ NoUsage.pending = 0 /\ NoUsage.bytes = 0 /\ NoUsage.in_flight = 0
        /\ NoUsage.calls = 0
    BY Zenon DEF NoUsage
  <1>4. global' = NoUsage /\ \A r \in Routes : usage'[r] = NoUsage
    BY Zenon DEF HoldNothing
  <1>5. /\ 0 <= GlobalPending /\ 0 <= GlobalBytes /\ 0 <= GlobalInFlight
        /\ 0 <= RoutePending /\ 0 <= RouteBytes /\ 0 <= CallInFlight
    BY LimitsAssumption
  <1>6. \A S : (S = {} => PayloadBytes(S) = 0 /\ Cardinality(S) = 0)
    BY Zenon, <1>2
  <1>7. PayloadBytes(Active)' = 0 /\ \A r \in Routes : PayloadBytes(ActiveOn(r))' = 0
    BY Zenon, <1>1, <1>6 DEF PayloadBytes
  <1> QED BY ZenonT(60), <1>1, <1>3, <1>4, <1>5, <1>6, <1>7
          DEF AccountingInv, Accounting, PayloadSums, WithinLimits

(* Every step preserves the accounting. *)
LEMMA AccountingNext ==
    DeliveriesInv /\ AccountingInv /\ [DeliveriesNext]_<<deliveries, phase>>
       => AccountingInv'
  <1> SUFFICES ASSUME DeliveriesInv, AccountingInv, [DeliveriesNext]_<<deliveries, phase>>
               PROVE  AccountingInv'
    OBVIOUS
  <1>1. Balanced /\ DeliveriesOK /\ WithinLimits
    BY Zenon DEF DeliveriesInv, Agreeing, Balanced, AccountingInv
  <1>2. DeliveriesOK'
    BY Zenon, InvNext DEF DeliveriesInv, Agreeing
  <1>3. CASE \E d \in Deliveries : DeliveryStep(d)
    <2>1. PICK d \in Deliveries : DeliveryStep(d)
      BY Zenon, <1>3
    <2>2. CASE Accounted(d)
      <3>1. PICK r \in Routes : Charged(d, r) /\ PayloadCharged(d, r)
        BY Zenon, <2>2 DEF Accounted
      <3>2. Accounting' /\ PayloadSums'
        BY Zenon, <1>1, <1>2, <3>1, ChargedAccounting, ChargedPayload DEF Balanced
      <3>3. WithinLimits'
        BY Zenon, <1>1, <1>2, <2>2, AccountedLimits
      <3> QED BY Zenon, <3>2, <3>3 DEF AccountingInv
    <2> QED BY Zenon, <1>1, <2>1, <2>2, StepAccounted, SameLanes
  <1>4. CASE UNCHANGED deliveries
    BY Zenon, <1>4, SameLanes DEF deliveries
  <1>5. CASE HoldNothing
    BY Zenon, <1>5, RestartAccounting
  <1> QED BY Zenon, <1>3, <1>4, <1>5 DEF DeliveriesNext, Run, LoseDeliveries,
                                         RecoverDeliveries

(* In any order of its operations the engine's counters are what it holds,  *)
(* in both lanes, per route and in bytes, and no limit is exceeded          *)
(* (runtime.rs:613-630, 713-775, 1027-1077, 1341-1383).                     *)
THEOREM DeliveriesAccounted ==
    DeliveriesSpec => [](Accounting /\ PayloadAccounting /\ WithinLimits)
  <1>1. AccountingInv => Accounting /\ PayloadAccounting /\ WithinLimits
    BY Zenon DEF AccountingInv, PayloadSums, WithinLimits, PayloadAccounting
  <1> QED BY <1>1, InvInit, InvNext, InitAccounting, AccountingNext, PTL DEF DeliveriesSpec
=============================================================================
