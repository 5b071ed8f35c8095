------------------------ MODULE EgressRuntime_proofs ------------------------
(***************************************************************************)
(* What the engine promises, for any finite set of deliveries, any set of  *)
(* routes, any limits and any combination of log faults.  Every step of    *)
(* the loop is a step of EgressDeliveries (EgressLoop_proofs), so what is  *)
(* proved of the deliveries there (EgressDeliveries_proofs) holds of the   *)
(* engine; the rest is about the loop, its queues, its heap and its drains.*)
(***************************************************************************)
EXTENDS EgressLoop_proofs, EgressDeliveries_proofs

-----------------------------------------------------------------------------
(* What the engine inherits *)

LoopInv == DeliveriesInv /\ AccountingInv /\ EngineOK /\ SweepHeld

(* With what EgressLoop_proofs takes for granted. *)
LEMMA LoopEngine == LoopInv => EngineInv
  BY Zenon DEF LoopInv, EngineInv, DeliveriesInv, Agreeing

(* A new process. *)
LEMMA LoopInit == Init => LoopInv /\ DeliveriesInit
  BY Zenon, InvInit, InitAccounting, EngineInit DEF Init, LoopInv

(* Every step keeps the deliveries, the counters, the types and the loops. *)
LEMMA LoopNext ==
    LoopInv /\ [Next]_vars => LoopInv' /\ [DeliveriesNext]_<<deliveries, phase>>
  <1> SUFFICES ASSUME LoopInv, [Next]_vars
               PROVE  LoopInv' /\ [DeliveriesNext]_<<deliveries, phase>>
    OBVIOUS
  <1>1. /\ DeliveriesInv /\ AccountingInv /\ EngineOK /\ SweepHeld
        /\ DeliveriesOK
    BY Zenon DEF LoopInv, DeliveriesInv, Agreeing
  <1>2. [DeliveriesNext]_<<deliveries, phase>>
    BY ZenonT(60), <1>1, EngineStep
  <1>3. DeliveriesInv' /\ AccountingInv'
    BY ZenonT(60), <1>1, <1>2, InvNext, AccountingNext
  <1>4. EngineOK'
    BY ZenonT(60), <1>1, EngineType
  <1>5. SweepHeld'
    BY ZenonT(60), <1>1, SweepNext
  <1> QED BY ZenonT(60), <1>2, <1>3, <1>4, <1>5 DEF LoopInv

(* It always holds. *)
LEMMA LoopAlways == Spec => []LoopInv
  BY LoopInit, LoopNext, PTL DEF Spec

(* The loop of run() decides when something happens to a delivery, never     *)
(* what: whatever it does is one of the operations of EgressDeliveries under *)
(* that operation's own conditions (runtime.rs:421-475).                     *)
THEOREM ImplementsDeliveries == Spec => DeliveriesSpec
  BY LoopInit, LoopNext, PTL DEF Spec, DeliveriesSpec

(* The engine's state has its types (runtime.rs:364-386, 1468-1502). *)
THEOREM TypeCorrect == Spec => []TypeOK
  <1>1. LoopInv => TypeOK
    BY Zenon DEF LoopInv, DeliveriesInv, Agreeing, EngineOK, TypeOK
  <1> QED BY <1>1, LoopAlways, PTL

(* Engine and log agree on every delivery (runtime.rs:520-611, 713-856,     *)
(* 1211-1339).                                                              *)
THEOREM AgreesWithLog == Spec => []LogAgreement
  BY ImplementsDeliveries, DeliveriesKept, PTL

(* No attempt reaches the transport before the log counts it                *)
(* (runtime.rs:734-775, delivery.rs:72-85).                                 *)
THEOREM RecordsBeforeSending == Spec => []RecordedBeforeSent
  BY ImplementsDeliveries, DeliveriesKept, PTL

(* Every call is answered once, when the engine lets go of it               *)
(* (runtime.rs:972-1025, 1364-1383).                                        *)
THEOREM AnswersCalls == Spec => []CallsAnswered
  BY ImplementsDeliveries, DeliveriesKept, PTL

(* No accepted delivery is lost, in a crash neither (runtime.rs:520-611,    *)
(* 1132-1145, 1211-1274).                                                   *)
THEOREM LosesNothing == Spec => []NothingLost
  BY ImplementsDeliveries, DeliveriesKept, PTL

(* A terminal status stays, unless the log reclaims its record              *)
(* (runtime.rs:632-640, 916-923, 1276-1287).                                *)
THEOREM TerminalStays == Spec => TerminalIsFinal
  BY ImplementsDeliveries, DeliveriesFinal, PTL

(* The counters are what the maps contain (runtime.rs:1027-1077, 1341-1383). *)
THEOREM AccountsExactly == Spec => []Accounting
  BY ImplementsDeliveries, DeliveriesAccounted, PTL

(* The byte counters are the retained payload bytes and within their limits *)
(* (runtime.rs:613-630).                                                    *)
THEOREM AccountsPayload == Spec => []PayloadAccounting
  BY ImplementsDeliveries, DeliveriesAccounted, PTL


-----------------------------------------------------------------------------
(* Routes and drains *)

(* RouteUsage::is_idle says that the route has no work. *)
LEMMA IdleRoute ==
    ASSUME DeliveriesOK, Accounting, NEW r \in Routes
    PROVE  IsIdle(usage[r]) <=> ~Work(r)
  <1>1. /\ usage[r].pending = Cardinality(ActiveOn(r))
        /\ usage[r].in_flight = Cardinality(InFlightOn(r))
        /\ usage[r].calls = Cardinality(CallsOn(r))
    BY Zenon DEF Accounting
  <1>2. /\ IsFiniteSet(ActiveOn(r)) /\ IsFiniteSet(InFlightOn(r)) /\ IsFiniteSet(CallsOn(r))
    BY Zenon, FiniteLanes
  <1>3. \A S : IsFiniteSet(S) => (Cardinality(S) = 0 <=> S = {})
    BY Zenon, FS_EmptySet
  <1>4. ActiveOn(r) = {} => InFlightOn(r) = {}
    BY Zenon DEF ActiveOn, InFlightOn, InFlight
  <1>5. (ActiveOn(r) = {} /\ CallsOn(r) = {}) <=> ~Work(r)
    BY Zenon DEF ActiveOn, CallsOn, Active, ActiveCalls, OnRoute, Work
  <1> QED BY ZenonT(60), <1>1, <1>2, <1>3, <1>4, <1>5 DEF IsIdle

(* So the counters tell the idle routes. *)
LEMMA LoopIdle == LoopInv => IdleExact
  BY Zenon, IdleRoute DEF LoopInv, DeliveriesInv, Agreeing, AccountingInv, IdleExact

(* A route that is draining is closed, a route that has work is registered, *)
(* and a drain that is waited for has work (runtime.rs:642-666, 1416-1437). *)
THEOREM DrainsAreSound == Spec => []DrainsSound
  <1>1. Init => DrainsSound
    <2> SUFFICES ASSUME Init PROVE DrainsSound
      OBVIOUS
    <2>1. Active = {} /\ ActiveCalls = {} /\ \A r \in Routes : drains[r] = NoDrain
      BY DEF Init, DeliveriesInit, Active, ActiveCalls
    <2> QED BY Zenon, <2>1 DEF DrainsSound
  <1>2. LoopInv /\ LoopInv' /\ DrainsSound /\ [Next]_vars => DrainsSound'
    BY ZenonT(60), LoopEngine, LoopIdle, DrainsNext DEF LoopInv, DeliveriesInv, Agreeing
  <1> QED BY <1>1, <1>2, LoopAlways, PTL DEF Spec

(* unregister_route and disable_route report success only when the route    *)
(* has no work left in either lane (runtime.rs:654-659, 1416-1431).         *)
THEOREM DrainsToTheEnd == Spec => DrainedWhenDone
  <1>1. LoopInv /\ [Next]_vars => [\A r \in Routes : DrainedOn(r)]_vars
    BY Zenon, LoopEngine, LoopIdle, DrainedStep
  <1>2. (\A r \in Routes : DrainedOn(r))
           <=> \A r \in Routes :
                 ( /\ Continuing
                   /\ ~stopping'
                   /\ \/ registry[r] # "absent" /\ registry'[r] = "absent"
                      \/ drains[r] # NoDrain /\ drains'[r] = NoDrain )
                 => \A d \in Deliveries :
                       ~OnRoute(active'[d], r) /\ ~OnRoute(active_calls'[d], r)
    BY Zenon DEF DrainedOn
  <1> QED BY <1>1, <1>2, LoopAlways, PTL DEF Spec, DrainedWhenDone

-----------------------------------------------------------------------------
(* Queues, the rotation and the retry heap *)

(* They lose nothing in any state. *)
LEMMA QueuesAlways == Spec => []QueuesInv
  <1>1. LoopInv /\ QueuesInv /\ [Next]_vars => QueuesInv'
    BY Zenon, LoopEngine, QueuesNext
  <1> QED BY <1>1, QueuesInit, LoopAlways, PTL DEF Spec

(* A route stands in the rotation as often as Distinct allows. *)
LEMMA Occurrences ==
    ASSUME EngineOK, Rotation, NEW r \in Routes
    PROVE  Cardinality({i \in DOMAIN ready_routes : ready_routes[i] = r})
              = One(ready[r] # << >>)
  <1> DEFINE places == {i \in DOMAIN ready_routes : ready_routes[i] = r}
  <1>1. DOMAIN ready_routes = 1 .. Len(ready_routes)
    BY DEF EngineOK
  <1>2. CASE ready[r] = << >>
    <2>1. places = {}
      BY Zenon, <1>1, <1>2 DEF Rotation, In
    <2> QED BY Zenon, <1>2, <2>1, FS_EmptySet DEF One
  <1>3. CASE ready[r] # << >>
    <2>1. PICK i \in 1 .. Len(ready_routes) : ready_routes[i] = r
      BY Zenon, <1>3 DEF Rotation, In
    <2>2. places = {i}
      BY Zenon, <1>1, <2>1 DEF Rotation, Distinct
    <2> QED BY Zenon, <1>3, <2>2, FS_Singleton DEF One
  <1> QED BY Zenon, <1>2, <1>3

(* A held delivery that is not in flight is in its route's queue or has a   *)
(* live entry in the retry heap, and a route is in the rotation, once,      *)
(* exactly while its queue is not empty (runtime.rs:677-711, 1079-1096,     *)
(* 1385-1391, 1445-1456).                                                   *)
THEOREM StrandsNothing == Spec => []NeverStranded
  <1>1. ASSUME LoopInv, QueuesInv PROVE NeverStranded
    <2>0. EngineOK /\ DeliveriesOK
      BY Zenon, <1>1 DEF LoopInv, DeliveriesInv, Agreeing
    <2>1. ASSUME NEW d \in Active
          PROVE  /\ active[d].state = "ready" => Queued(d, active[d].route)
                 /\ active[d].state = "waiting" =>
                       \/ active[d].due /\ Queued(d, active[d].route)
                       \/ \E t \in retries : t.delivery = d /\ ValidRetry(t)
      <3>1. d \in Deliveries /\ active[d] # NoDelivery /\ active[d].route \in Routes
        BY Zenon, <2>0, <2>1, HeldType DEF Active
      <3>2. Queued(d, active[d].route) <=> In(d, ready[active[d].route])
        BY ZenonT(60), <2>0, <3>1, QueuedIn
      <3> QED BY Zenon, <1>1, <3>1, <3>2 DEF QueuesInv, Waiting, HeapEntry
    <2>2. \A r \in Routes : Cardinality({i \in DOMAIN ready_routes : ready_routes[i] = r})
                               = One(ready[r] # << >>)
      BY Zenon, <1>1, <2>0, Occurrences DEF QueuesInv
    <2> QED BY ZenonT(60), <2>1, <2>2 DEF NeverStranded
  <1> QED BY <1>1, LoopAlways, QueuesAlways, PTL

(* Round robin: a route that was just served stands behind every other      *)
(* route that could have been served (runtime.rs:677-711).                  *)
THEOREM RotatesFairly == Spec => FairRotation
  <1>1. ASSUME LoopInv, QueuesInv, [Next]_vars
        PROVE  [ \A i, k \in DOMAIN ready_routes :
                   ( /\ phase = "dispatch"
                     /\ sent' # sent
                     /\ \A h \in 1 .. i - 1 : ~Serves(h)
                     /\ Serves(i)
                     /\ k # i
                     /\ Serves(k) )
                   => \E m \in DOMAIN ready_routes' :
                         /\ ready_routes'[m] = ready_routes[k]
                         /\ \A n \in DOMAIN ready_routes' :
                               ready_routes'[n] = ready_routes[i] => m < n ]_vars
    BY Zenon, <1>1, LoopEngine, ServedGoesLast DEF QueuesInv
  <1> QED BY <1>1, LoopAlways, QueuesAlways, PTL DEF Spec, FairRotation

-----------------------------------------------------------------------------
(* Tasks *)

(* The limit of a route, while no identifier is admitted twice. *)
RouteLimited ==
    (\A d \in Deliveries : admissions[d] <= 1) =>
       \A r \in Routes : Cardinality(InFlightOn(r)) <= RouteInFlight

(* Sets that grow by one element at most. *)
LEMMA GrowsByOne ==
    ASSUME NEW S, IsFiniteSet(S), NEW x, NEW T \in SUBSET (S \cup {x}), NEW n \in Nat,
           Cardinality(S) < n
    PROVE  Cardinality(T) <= n
  <1>1. /\ IsFiniteSet(S \cup {x})
        /\ Cardinality(S \cup {x}) = IF x \in S THEN Cardinality(S) ELSE Cardinality(S) + 1
    BY Zenon, FS_AddElement
  <1>2. IsFiniteSet(T) /\ Cardinality(T) <= Cardinality(S \cup {x})
    BY Zenon, <1>1, FS_Subset
  <1>3. Cardinality(S) \in Nat /\ Cardinality(T) \in Nat
    BY Zenon, <1>2, FS_CardinalityType
  <1> QED BY SMTT(30), <1>1, <1>2, <1>3

(* take_fair_ready looks at the limit of the route it serves. *)
LEMMA RouteLimitNext ==
    ASSUME LoopInv, Homed, RouteLimited, [Next]_vars
    PROVE  RouteLimited'
  <1> SUFFICES ASSUME \A d \in Deliveries : admissions'[d] <= 1, NEW r \in Routes
               PROVE  Cardinality(InFlightOn(r)') <= RouteInFlight
    BY Zenon DEF RouteLimited
  <1> DEFINE S == {e \in Deliveries : Flies(e, r)}
             T == {e \in Deliveries : Flies(e, r)'}
  <1>1. InFlightOn(r) = S /\ InFlightOn(r)' = T
    BY Zenon DEF InFlightOn, InFlight, Active, Flies
  <1>2. IsFiniteSet(S) /\ IsFiniteSet(T)
    BY Zenon, DeliveriesFinite, FS_Subset
  <1>3. EngineInv /\ usage[r].in_flight = Cardinality(S) /\ RouteInFlight \in Nat
    BY Zenon, <1>1, LoopEngine, RouteLimitAssumption DEF LoopInv, AccountingInv, Accounting
  <1>4. Cardinality(S) <= RouteInFlight
    BY ZenonT(60), <1>1, <1>3, AdmissionsGrow DEF RouteLimited
  <1>5. \/ T \in SUBSET S
        \/ ~AtLimit(r) /\ \E d \in Deliveries : T \in SUBSET (S \cup {d})
    BY ZenonT(60), <1>3, FlightNext
  <1> HIDE DEF S, T
  <1>6. Cardinality(S) \in Nat /\ Cardinality(T) \in Nat
    BY ZenonT(60), <1>2, FS_CardinalityType
  <1>7. CASE T \in SUBSET S
    <2>1. Cardinality(T) <= Cardinality(S)
      BY Zenon, <1>2, <1>7, FS_Subset
    <2> QED BY SMTT(30), <1>1, <1>3, <1>4, <1>6, <2>1
  <1>8. CASE ~AtLimit(r) /\ \E d \in Deliveries : T \in SUBSET (S \cup {d})
    <2>1. Cardinality(S) < RouteInFlight
      <3>1. ~(Cardinality(S) >= RouteInFlight)
        BY ZenonT(60), <1>3, <1>8 DEF AtLimit
      <3> QED BY SMTT(30), <1>3, <1>6, <3>1
    <2> QED BY ZenonT(60), <1>1, <1>2, <1>3, <1>8, <2>1, GrowsByOne
  <1> QED BY ZenonT(60), <1>5, <1>7, <1>8

TasksInv == HasTask /\ Homed /\ RouteLimited

(* They hold in every state. *)
LEMMA TasksAlways == Spec => []TasksInv
  <1>1. ASSUME Init PROVE TasksInv
    <2>1. /\ active = [d \in Deliveries |-> NoDelivery]
          /\ active_calls = [d \in Deliveries |-> NoDelivery]
          /\ ready = [r \in Routes |-> << >>]
      BY Zenon, <1>1 DEF Init, DeliveriesInit
    <2>2. HasTask
      BY Zenon, <2>1 DEF HasTask, TaskLeft
    <2>3. Homed
      <3>1. << >> \in Seq(Deliveries)
        OBVIOUS
      <3> QED BY ZenonT(60), <2>1, <3>1, EmptyQueue DEF Homed, HomedOne
    <2>4. RouteLimited
      <3>1. \A r \in Routes : InFlightOn(r) = {}
        BY Zenon, <2>1 DEF InFlightOn, InFlight, Active
      <3>2. 0 <= RouteInFlight
        BY SMTT(30), RouteLimitAssumption
      <3> QED BY Zenon, <3>1, <3>2, FS_EmptySet DEF RouteLimited
    <2> QED BY ZenonT(60), <2>2, <2>3, <2>4 DEF TasksInv
  <1>2. ASSUME LoopInv, QueuesInv, TasksInv, [Next]_vars PROVE TasksInv'
    BY Zenon, <1>2, LoopEngine, TasksNext, HomedNext, RouteLimitNext DEF TasksInv, QueuesInv
  <1> QED BY <1>1, <1>2, LoopAlways, QueuesAlways, PTL DEF Spec

(* Fewer than what is within a limit. *)
LEMMA Fewer ==
    ASSUME NEW S \in SUBSET Deliveries, NEW T \in SUBSET S, NEW n \in Nat, Cardinality(S) <= n
    PROVE  Cardinality(T) <= n
  <1>1. IsFiniteSet(S) /\ IsFiniteSet(T) /\ Cardinality(T) <= Cardinality(S)
    BY ZenonT(60), DeliveriesFinite, FS_Subset
  <1>2. Cardinality(S) \in Nat /\ Cardinality(T) \in Nat
    BY ZenonT(60), <1>1, FS_CardinalityType
  <1> QED BY SMTT(30), <1>1, <1>2

(* Transport work really running stays within the limits and belongs to a   *)
(* delivery still held, and what is held in flight has a task left to join  *)
(* (runtime.rs:668-856, 1341-1383).                                         *)
THEOREM OwnsTasks == Spec => []TasksOwned
  <1>1. ASSUME LoopInv, TasksInv PROVE TasksOwned
    <2> DEFINE running == {d \in Deliveries : attempts[d] = "running"}
               answering == {d \in Deliveries : calls[d] = "running"}
               on(r) == {d \in Deliveries : attempts[d] = "running" /\ OnRoute(active[d], r)}
    <2>1. \A d \in Deliveries : Owned(d) /\ TaskLeft(d)
      BY Zenon, <1>1 DEF LoopInv, DeliveriesInv, TasksInv, HasTask
    <2>2. phase # "sweep" => sweep.emits = {} /\ sweep.calls = {}
      <3>1. NoSweep.emits = {} /\ NoSweep.calls = {}
        BY DEF NoSweep
      <3> QED BY ZenonT(60), <1>1, <3>1 DEF LoopInv, SweepHeld
    <2>3. ASSUME NEW d \in Deliveries
          PROVE  /\ attempts[d] = "running" => d \in Active /\ active[d].abort
                 /\ calls[d] = "running" => d \in ActiveCalls /\ active_calls[d].abort
                 /\ (d \in Active /\ active[d].abort) =>
                       attempts[d] \in {"running"} \cup Finished \/ phase = "sweep"
                 /\ (d \in ActiveCalls /\ active_calls[d].abort) =>
                       calls[d] \in {"running"} \cup Finished \/ phase = "sweep"
      BY ZenonT(60), <2>1, <2>2 DEF Owned, TaskLeft, LiveTasks, Active, ActiveCalls
    <2>4. /\ GlobalInFlight \in Nat /\ CallInFlight \in Nat /\ RouteInFlight \in Nat
          /\ Cardinality(InFlight) <= GlobalInFlight /\ Cardinality(ActiveCalls) <= CallInFlight
      BY Zenon, <1>1, LimitsAssumption, RouteLimitAssumption
         DEF LoopInv, AccountingInv, Accounting, WithinLimits
    <2>5. /\ running \in SUBSET InFlight /\ answering \in SUBSET ActiveCalls
          /\ \A r \in Routes : on(r) \in SUBSET InFlightOn(r)
      BY Zenon, <2>3 DEF InFlight, InFlightOn, OnRoute
    <2> HIDE DEF running, answering, on
    <2>6. Cardinality(running) <= GlobalInFlight /\ Cardinality(answering) <= CallInFlight
      BY Zenon, <2>4, <2>5, FiniteLanes, Fewer
    <2>7. (\A d \in Deliveries : admissions[d] <= 1) =>
             \A r \in Routes : Cardinality(on(r)) <= RouteInFlight
      BY ZenonT(60), <1>1, <2>4, <2>5, FiniteLanes, Fewer DEF TasksInv, RouteLimited
    <2> QED BY ZenonT(60), <2>3, <2>6, <2>7 DEF TasksOwned, running, answering, on
  <1> QED BY <1>1, LoopAlways, TasksAlways, PTL
=============================================================================
