------------------------------- MODULE MCHost -------------------------------
(***************************************************************************)
(* The components a host process runs beside the delivery engine, checked  *)
(* side by side.  They do not interact in this module: a behaviour is one  *)
(* of the component that part names, chosen at the start among Parts.      *)
(* v1, v2, ... stand for the variables of that component, in the order in  *)
(* which its module declares them, and those it does not need are Idle.    *)
(* Where a component is instantiated twice, the second instance asks       *)
(* another question of it, in other bounds.                                *)
(***************************************************************************)
EXTENDS Naturals, Sequences, TLC

CONSTANTS
    Parts,              \* the components this run checks
    Live,               \* TRUE where liveness is checked, in smaller instances
    Solo, Pair, Duo, Trio,   \* threads, requests, tokens, ...: Solo is part of Pair
    None

VARIABLES
    part,
    v1, v2, v3, v4, v5, v6, v7, v8, v9, v10, v11, v12, v13, v14, v15, v16

slots == <<v1, v2, v3, v4, v5, v6, v7, v8, v9, v10,
           v11, v12, v13, v14, v15, v16>>
all == <<part, slots>>

Many == IF Live THEN Pair ELSE Trio
Tool(name, bytes) == [name |-> name, schema |-> "ok", bytes |-> bytes]
Tools == <<Tool("a", 1), Tool("b", 1), Tool("c", 2)>>    \* the last is too large
Services == [registry : {<<Tool("a", 1)>>}, granted : {{}, {"a"}}, readable : BOOLEAN]
Sizes == {[bytes |-> 2, depth |-> 2], [bytes |-> 5, depth |-> 2],
          [bytes |-> 2, depth |-> 33]}
CallRoute(automatic) ==
    [automatic |-> automatic, retries |-> IF Live THEN 1 ELSE 2, limit |-> 4, bearer |-> TRUE]

-----------------------------------------------------------------------------
(* The components *)

Http == INSTANCE HttpServer WITH
    Paths <- {"raw", "rest"}, ProtocolPaths <- {"rest"},
    Generations <- IF Live THEN Solo ELSE Duo, Requests <- Pair,
    NoGen <- None, Retained <- 2, AggregateRetained <- 3, MaxHandlers <- 1,
    MaxConnections <- 2, routes <- v1, stopping <- v2, gens <- v3,
    available <- v4, reqs <- v5, disables <- v6, closing <- v7, server <- v8,
    connections <- v9, stop <- v10, result <- v11

Socket == INSTANCE UnixSocket WITH
    Servers <- Trio, Inodes <- {"i1", "i2", "i3", "i4"}, None <- None,
    Exclusive <- TRUE, path <- v1, files <- v2, servers <- v3, left <- v4,
    torn <- v5

Abi == INSTANCE ServerAbi WITH
    Servers <- IF Live THEN Solo ELSE Duo, Dispatches <- Pair, None <- None,
    hostUnits <- v1, units <- v2, servers <- v3, status <- v4,
    dispatches <- v5

Config == INSTANCE ServerConfig WITH
    None <- None, input <- v1, status <- v2

Ingress == INSTANCE IngressHandler WITH
    Handlers <- IF Live THEN Solo ELSE Duo, Requests <- Pair, None <- None,
    units <- v1, handlers <- v2, requests <- v3, server <- v4

Mcp == INSTANCE MCMcpAdapter WITH
    request <- v1, svc <- v2, outcome <- v3, answer <- v4

(* Two capabilities, so that a grant can change between their evaluations. *)
Rest == INSTANCE RestAdapter WITH
    Requests <- Pair, Registry <- <<"a", "b">>, Unregistered <- "c",
    MaxChanges <- 1, granted <- v1, readable <- v2, changes <- v3,
    trail <- v4, request <- v5, at <- v6, cursor <- v7, pending <- v8,
    listed <- v9, ran <- v10, response <- v11, ever <- v12, always <- v13

Windows == INSTANCE SlidingWindow WITH
    Keys <- Pair, Limit <- 2, Window <- 5, TicksPerSecond <- 2,
    CleanEvery <- 3, MaxTime <- 7, MaxCalls <- 6,
    windows <- v1, operations <- v2, calls <- v3, now <- v4, admitted <- v5,
    hint <- v6, last <- v7

Limiter == INSTANCE RequestLimiter WITH
    Principals <- Pair, Limit <- 2, Window <- 3, TicksPerSecond <- 2,
    MaxSkew <- 1, MaxTime <- 5, MaxAdmitted <- 3, now <- v1, lastSeen <- v2,
    requests <- v3, admitted <- v4, due <- v5, decision <- v6

Dispatch == INSTANCE CapabilityDispatch WITH
    Caps <- {"c1"}, Handlers <- Duo, Tasks <- IF Live THEN Solo ELSE Pair,
    None <- None, MaxUnits <- 2, units <- v1, caps <- v2, handlers <- v3,
    tasks <- v4, pc <- v5, audit <- v6

Runtime == INSTANCE RuntimeAbi WITH
    Components <- IF Live THEN Solo ELSE Duo,
    MaxRows <- IF Live THEN 1 ELSE 2, strong <- v1, owners <- v2, rows <- v3,
    call <- v4, listing <- v5

Access == INSTANCE AccessControl WITH
    Clients <- {"c1"}, Tokens <- Pair, Threads <- Duo, MaxTime <- 1,
    Lifetimes <- {1}, Used <- {"issue", "revoke", "access"}, Attempts <- 1,
    now <- v1, clients <- v2, tokens <- v3, grants <- v4, calls <- v5,
    replaced <- v6

Rotation == INSTANCE AccessControl WITH
    Clients <- {"c1"}, Tokens <- Trio, Threads <- Pair, MaxTime <- 1,
    Lifetimes <- {0}, Used <- {"issue", "rotate", "revoke"}, Attempts <- 2,
    now <- v1, clients <- v2, tokens <- v3, grants <- v4, calls <- v5,
    replaced <- v6

Schema == INSTANCE SchemaMigration WITH
    Processes <- Pair, NoProcess <- None,
    Keys <- IF Live THEN {"k1"} ELSE {"k1", "k2"}, MaxRow <- 4,
    MaxCrashes <- 1, db <- v1, writer <- v2, work <- v3, program <- v4,
    process <- v5, seen <- v6, crashes <- v7

Credentials == INSTANCE CredentialStore WITH
    Threads <- Pair, Files <- Trio, Values <- {"short", "long"},
    Long <- {"long"}, MaxChanges <- 2, MaxFaults <- 1, None <- None,
    entry <- v1, temps <- v2, data <- v3, onDisk <- v4, thread <- v5,
    history <- v6, durable <- v7, acked <- v8, faults <- v9, dirty <- v10

Handle == INSTANCE EgressHandle WITH
    Threads <- Many, Routes <- {"r1"}, Capacity <- 1, CallLimit <- 1,
    None <- None, handle <- v1, stopping <- v2, active <- v3, parked <- v4,
    pc <- v5, command <- v6, result <- v7, queue <- v8, shutdown <- v9,
    engine <- v10, ending <- v11, owed <- v12, enabled <- v13, work <- v14,
    calls <- v15, drains <- v16

Egress == INSTANCE EgressAbi WITH
    Threads <- Pair, Deliveries <- {"d1"}, MaxResults <- 1, handle <- v1,
    held <- v2, boxes <- v3, owned <- v4, journal <- v5, sent <- v6,
    call <- v7

Transport == INSTANCE ForeignTransport WITH
    Requests <- Pair, Ticks <- IF Live THEN {0, 2} ELSE {0, 1, 2},
    Unknown <- None, stage <- v1, asked <- v2, cell <- v3, units <- v4,
    owed <- v5, runnable <- v6, said <- v7, result <- v8, timeout <- v9

Admission == INSTANCE RouteAdmission WITH
    Routes <- {"r1", "r2", "r3"}, CallRoutes <- {"r1"}, RegistryLimit <- 2,
    GlobalRate <- 1, GlobalCapacity <- 2, RouteRate <- 1, RouteCapacity <- 1,
    TokenUnits <- 2, MaxTime <- 2, MaxGrants <- 3, MaxRegistrations <- 3,
    now <- v1, global <- v2, entry <- v3, granted <- v4, registrations <- v5,
    result <- v6

Retries == INSTANCE RetrySchedule WITH
    RetryCounts <- {0, 3, 16, 17}, Bases <- {499, 5000, 5001},
    Caps <- {29999, 300000, 300001}, Timeouts <- {999, 1000, 120000, 120001},
    Jitters <- {0, 4000}, conf <- v1, state <- v2, attempts <- v3,
    elapsed <- v4, delay <- v5, previous <- v6

Retried == INSTANCE McpToolCall WITH
    Route <- CallRoute(TRUE), Mode <- "emit", Version <- Mcp!Modern,
    ToolName <- "a", Services <- Services, Sizes <- Sizes, svc <- v1,
    state <- v2, attempts <- v3, requests <- v4, answers <- v5, runs <- v6,
    ended <- v7, returned <- v8

Once == INSTANCE McpToolCall WITH
    Route <- CallRoute(FALSE), Mode <- "emit", Version <- Mcp!Legacy,
    ToolName <- "a", Services <- Services, Sizes <- Sizes, svc <- v1,
    state <- v2, attempts <- v3, requests <- v4, answers <- v5, runs <- v6,
    ended <- v7, returned <- v8

Result == INSTANCE McpToolCall WITH
    Route <- CallRoute(TRUE), Mode <- "call", Version <- Mcp!Modern,
    ToolName <- "a", Services <- Services, Sizes <- Sizes, svc <- v1,
    state <- v2, attempts <- v3, requests <- v4, answers <- v5, runs <- v6,
    ended <- v7, returned <- v8

Discovery == INSTANCE McpDiscovery WITH
    PeerIsAdapter <- FALSE, Bearer <- TRUE, MaxTools <- 2, MaxSchema <- 1,
    Registry <- Tools, op <- v1, late <- v2, wire <- v3, sent <- v4,
    taken <- v5, named <- v6, result <- v7, granted <- v8

Adapter == INSTANCE McpDiscovery WITH
    PeerIsAdapter <- TRUE, Bearer <- TRUE, MaxTools <- 2, MaxSchema <- 1,
    Registry <- Tools, op <- v1, late <- v2, wire <- v3, sent <- v4,
    taken <- v5, named <- v6, result <- v7, granted <- v8

Sent == INSTANCE WebhookDelivery WITH
    Keys <- {"d1"}, Timeout <- 1, RetryDelay <- 1, MaxRetries <- 1,
    Tolerance <- 1, Retention <- 5, Skew <- 1, Lag <- 0, Rotating <- FALSE,
    MaxFaults <- 2, MaxArrivals <- 2, MaxTime <- 6, now <- v1, sender <- v2,
    rotation <- v3, copies <- v4, answers <- v5, handling <- v6, table <- v7,
    expires <- v8, runs <- v9, successes <- v10, arrivals <- v11,
    faults <- v12

Rotated == INSTANCE WebhookDelivery WITH
    Keys <- {"d1"}, Timeout <- 1, RetryDelay <- 1, MaxRetries <- 1,
    Tolerance <- 1, Retention <- 6, Skew <- 0, Lag <- 0, Rotating <- TRUE,
    MaxFaults <- 0, MaxArrivals <- IF Live THEN 1 ELSE 2, MaxTime <- 4,
    now <- v1, sender <- v2, rotation <- v3, copies <- v4, answers <- v5,
    handling <- v6, table <- v7, expires <- v8, runs <- v9, successes <- v10,
    arrivals <- v11, faults <- v12

Claims == INSTANCE WebhookIngress WITH
    Requests <- Pair, Keys <- IF Live THEN Solo ELSE {"k1"}, NoKey <- None,
    Retained <- {}, StoreFaults <- {}, AuditFaults <- TRUE,
    OtherHandle <- FALSE, MaxStarts <- 2, MaxDecisions <- 1, table <- v1,
    requests <- v2, up <- v3, starts <- v4, decisions <- v5, runs <- v6,
    returned <- v7, allowed <- v8, decided <- v9

Memory == INSTANCE InMemoryDeliveryLog WITH
    Deliveries <- Trio \cup {"d4"}, Limit <- 2, MaxAttempts <- 2,
    records <- v1, terminal_order <- v2, answer <- v3

Sql == INSTANCE SqlCipherDeliveryLog WITH
    Deliveries <- Trio, MaxRecords <- 2, MaxBytes <- 1024, Charge <- 512,
    Retention <- 1, MaxTime <- 2, MaxAttempts <- 1, rows <- v1,
    updated_at <- v2, usage <- v3, answer <- v4

(* The longest identifier. *)
LogBridge == INSTANCE DeliveryLogBridge WITH
    Deliveries <- {"d1"}, MaxAttempts <- 1, ResultBytes <- {0, 7},
    Length <- [d \in {"d1"} |-> 128], rows <- v1, details <- v2, reply <- v3,
    answer <- v4, view <- v5, sent <- v6, descriptor <- v7, host <- v8,
    units <- v9

Dedup == INSTANCE SqlCipherDedupStore WITH
    Keys <- {1, 2}, MaxRecords <- 1, MaxBytes <- 6,
    Charge <- [k \in {1, 2} |-> k + 1], Retention <- 1, MaxTime <- 2,
    MaxClaims <- 3, rows <- v1, updated_at <- v2, expires_at <- v3,
    sequence <- v4, inserted <- v5, usage <- v6, answer <- v7, scan <- v8,
    steady <- v9, fresh <- v10

(* Room for both keys and no time: what a scan meets between two rows. *)
Scan == INSTANCE SqlCipherDedupStore WITH
    Keys <- {1, 2}, MaxRecords <- 2, MaxBytes <- 5,
    Charge <- [k \in {1, 2} |-> k + 1], Retention <- 0, MaxTime <- 0,
    MaxClaims <- 3, rows <- v1, updated_at <- v2, expires_at <- v3,
    sequence <- v4, inserted <- v5, usage <- v6, answer <- v7, scan <- v8,
    steady <- v9, fresh <- v10

DedupBridge == INSTANCE DedupBridge WITH
    Keys <- {"k1"}, Threads <- Pair, NoThread <- None, rows <- v1,
    reply <- v2, answer <- v3, view <- v4, recovered <- v5, lock <- v6,
    threads <- v7, contexts <- v8

Route == INSTANCE MCWebhookRoute WITH
    conf <- v1, route <- v2, outcome <- v3

(* The times of the two deliveries satisfy what WebhookDelivery asks. *)
ASSUME TimesAssumption == Sent!Sized /\ Rotated!Sized

-----------------------------------------------------------------------------
(* The unused variables of a component with n of them *)

Idle == "idle"
Idle13 == v14 = Idle /\ v15 = Idle /\ v16 = Idle
Idle12 == v13 = Idle /\ Idle13
Idle11 == v12 = Idle /\ Idle12
Idle10 == v11 = Idle /\ Idle11
Idle9 == v10 = Idle /\ Idle10
Idle8 == v9 = Idle /\ Idle9
Idle7 == v8 = Idle /\ Idle8
Idle6 == v7 = Idle /\ Idle7
Idle5 == v6 = Idle /\ Idle6
Idle4 == v5 = Idle /\ Idle5
Idle3 == v4 = Idle /\ Idle4
Idle2 == v3 = Idle /\ Idle3

After13 == <<v14, v15, v16>>
After12 == <<v13, After13>>
After11 == <<v12, After12>>
After10 == <<v11, After11>>
After9 == <<v10, After10>>
After8 == <<v9, After9>>
After7 == <<v8, After8>>
After6 == <<v7, After7>>
After5 == <<v6, After6>>
After4 == <<v5, After5>>
After3 == <<v4, After4>>
After2 == <<v3, After3>>
After16 == <<part>>
Idle16 == TRUE

(* The connection policy is a function: its input and its answer. *)
EndpointInit == v1 \in Transport!Connections /\ v2 = "none"
EndpointNext ==
    /\ v2 = "none"
    /\ v2' = Transport!VerifyConnection(v1.policy, v1.endpoint, v1.evidence)
    /\ UNCHANGED v1

(* So is the canonical form that a signature covers. *)
FormInit == v1 \in Route!Triples /\ v2 = <<>>
FormNext ==
    /\ v2 = <<>>
    /\ v2' = Route!Canonical(v1)
    /\ UNCHANGED v1

Begin(p, init, idle) == part = p /\ init /\ idle
Run(p, next, after) == part = p /\ next /\ UNCHANGED <<part, after>>

Init ==
    /\ part \in Parts
    /\ \/ Begin("http", Http!Init, Idle11)
       \/ Begin("http_drain", Http!Init, Idle11)
       \/ Begin("socket", Socket!Init, Idle5)
       \/ Begin("server_abi", Abi!Init, Idle5)
       \/ Begin("config", Config!Init, Idle2)
       \/ Begin("ingress_abi", Ingress!Init, Idle4)
       \/ Begin("mcp", Mcp!Init, Idle4)
       \/ Begin("rest", Rest!Init, Idle13)
       \/ Begin("windows", Windows!Init, Idle7)
       \/ Begin("limiter", Limiter!Init, Idle6)
       \/ Begin("dispatch", Dispatch!Init, Idle6)
       \/ Begin("runtime_abi", Runtime!Init, Idle5)
       \/ Begin("access", Access!Init, Idle6)
       \/ Begin("rotation", Rotation!Init, Idle6)
       \/ Begin("schema", Schema!Init, Idle7)
       \/ Begin("credentials", Credentials!Init, Idle10)
       \/ Begin("handle", Handle!Init, Idle16)
       \/ Begin("egress_abi", Egress!Init, Idle7)
       \/ Begin("transport", Transport!Init, Idle9)
       \/ Begin("admission", Admission!Init, Idle6)
       \/ Begin("retries", Retries!Init, Idle6)
       \/ Begin("retried", Retried!Init, Idle8)
       \/ Begin("once", Once!Init, Idle8)
       \/ Begin("result", Result!Init, Idle8)
       \/ Begin("discovery", Discovery!Init, Idle8)
       \/ Begin("adapter", Adapter!Init, Idle8)
       \/ Begin("sent", Sent!Init, Idle12)
       \/ Begin("rotated", Rotated!Init, Idle12)
       \/ Begin("claims", Claims!Init, Idle9)
       \/ Begin("memory", Memory!Init, Idle3)
       \/ Begin("sql", Sql!Init, Idle4)
       \/ Begin("log_bridge", LogBridge!Init, Idle9)
       \/ Begin("dedup", Dedup!Init, Idle10)
       \/ Begin("scan", Scan!Init, Idle10)
       \/ Begin("dedup_bridge", DedupBridge!Init, Idle8)
       \/ Begin("route", Route!Init, Idle3)
       \/ Begin("endpoint", EndpointInit, Idle2)
       \/ Begin("canonical", FormInit, Idle2)

Next ==
    \/ Run("http", Http!Next, After11)
    \/ Run("http_drain", Http!Next, After11)
    \/ Run("socket", Socket!Next, After5)
    \/ Run("server_abi", Abi!Next, After5)
    \/ Run("config", Config!Next, After2)
    \/ Run("ingress_abi", Ingress!Next, After4)
    \/ Run("mcp", Mcp!Next, After4)
    \/ Run("rest", Rest!Next, After13)
    \/ Run("windows", Windows!Next, After7)
    \/ Run("limiter", Limiter!Next, After6)
    \/ Run("dispatch", Dispatch!Next, After6)
    \/ Run("runtime_abi", Runtime!Next, After5)
    \/ Run("access", Access!Next, After6)
    \/ Run("rotation", Rotation!Next, After6)
    \/ Run("schema", Schema!Next, After7)
    \/ Run("credentials", Credentials!Next, After10)
    \/ Run("handle", Handle!Next, After16)
    \/ Run("egress_abi", Egress!Next, After7)
    \/ Run("transport", Transport!Next, After9)
    \/ Run("admission", Admission!Next, After6)
    \/ Run("retries", Retries!Next, After6)
    \/ Run("retried", Retried!Next, After8)
    \/ Run("once", Once!Next, After8)
    \/ Run("result", Result!Next, After8)
    \/ Run("discovery", Discovery!Next, After8)
    \/ Run("adapter", Adapter!Next, After8)
    \/ Run("sent", Sent!Next, After12)
    \/ Run("rotated", Rotated!Next, After12)
    \/ Run("claims", Claims!Next, After9)
    \/ Run("memory", Memory!Next, After3)
    \/ Run("sql", Sql!Next, After4)
    \/ Run("log_bridge", LogBridge!Next, After9)
    \/ Run("dedup", Dedup!Next, After10)
    \/ Run("scan", Scan!Next, After10)
    \/ Run("dedup_bridge", DedupBridge!Next, After8)
    \/ Run("route", Route!Next, After3)
    \/ Run("endpoint", EndpointNext, After2)
    \/ Run("canonical", FormNext, After2)

Spec == Init /\ [][Next]_all

(* The components treat the elements of these sets alike. *)
Symmetric == Permutations(Pair) \cup Permutations(Duo)
Alike == Symmetric \cup Permutations(Trio)

(* The contents of a file that nothing refers to do not matter. *)
View == IF part = "credentials" THEN <<part, Credentials!View>> ELSE all

-----------------------------------------------------------------------------
(* The engine's surroundings *)

(* The handle of a runtime is used by one owner at a time, and every call   *)
(* through it, or through the C ABI over it, is answered in full: results   *)
(* and contexts are owned by exactly one side, an output is written exactly *)
(* when it is announced, and a status tells what the journal holds          *)
(* (bondry-egress-runtime/src/runtime.rs, bondry-egress-ffi/src/ffi.rs).    *)
HandlesSound ==
    /\ part = "handle" =>
          Handle!TypeOK /\ Handle!ExclusiveHandle /\ Handle!AnsweredInFull
    /\ part = "egress_abi" =>
          /\ Egress!TypeOK /\ Egress!ContextsBalanced /\ Egress!OutputTold
          /\ Egress!ResultsBalanced /\ Egress!StatusTruthful
          /\ Egress!AtMostOnce /\ Egress!StatusReadsBack

(* What a peer or the host's transport says is believed only as far as its  *)
(* evidence goes: a response counts only over a connection the endpoint     *)
(* policy allows, the policy gives every address the class of its published *)
(* range, and callbacks are balanced in any order.  A tool call that may    *)
(* have run is not repeated silently, one reported delivered ran, and a     *)
(* discovery takes only the answers to its own questions, in the order of   *)
(* the handshake (bondry-egress-ffi/src/transport.rs,                       *)
(* bondry-transport/src/policy.rs, bondry-egress-mcp/src).                  *)
ExchangesSound ==
    /\ part = "transport" =>
          /\ Transport!TypeOK /\ Transport!UnitsBalanced
          /\ Transport!SecretDelivered /\ Transport!ResponseProven
          /\ Transport!HostHasTime
    /\ part = "endpoint" =>
          /\ Transport!ClassesAreRanges(v1)
          /\ Transport!CleartextOnlyWhereMeant(v1, v2)
          /\ Transport!NameProven(v1, v2)
          /\ Transport!OptInsOnlyOpen(v1, v2)
    /\ part = "retried" =>
          Retried!TypeOK /\ Retried!NoSilentRepeat /\ Retried!DeliveredMeansRan
    /\ part = "once" => Once!NoSilentRepeat
    /\ part = "result" => Result!ResultsBounded
    /\ part = "discovery" =>
          /\ Discovery!TypeOK /\ Discovery!HandshakeInOrder /\ Discovery!OwnAnswers
          /\ Discovery!ResultUsable /\ Discovery!SecretLetGo
    /\ part = "adapter" => Adapter!AdapterUnderstood

(* No route and no registry admits more than its rate in any interval, a    *)
(* rejection is justified at its time, and retries back off within the      *)
(* bounds that retention is computed from                                   *)
(* (bondry-egress/src/route.rs, delivery.rs and limits.rs).                 *)
SchedulesKept ==
    /\ part = "admission" =>
          Admission!TypeOK /\ Admission!RateKept /\ Admission!RejectionJustified
    /\ part = "retries" =>
          Retries!TypeOK /\ Retries!BacksOff /\ Retries!LifeWithinRetention

(* A webhook delivery over an unreliable network runs its capability at     *)
(* most once, is acknowledged or still held, and is accepted through clock  *)
(* skew and a rotation of the secret                                        *)
(* (bondry-egress-webhook/src, bondry-webhook-ingress/src/route.rs).        *)
DeliveredOnce ==
    /\ part = "sent" =>
          /\ Sent!TypeOK /\ Sent!RunsOnce /\ Sent!AcknowledgedOrHeld
          /\ Sent!AuthenticAccepted
    /\ part = "rotated" => Rotated!AuthenticAccepted

(* A stop returns only when the engine has exited and nothing is pending    *)
(* (runtime.rs), and a delivery is reported rejected only if its capability *)
(* has not run (route.rs, delivery.rs).                                     *)
EngineSteps ==
    [][/\ part = "handle" => Handle!StopReturnsAfterExit
       /\ part = "sent" => Sent!RejectedMeansUndone]_all

-----------------------------------------------------------------------------
(* The servers *)

(* A raw-body handler is counted, reached and released exactly, its bytes   *)
(* are returned whatever ends a request, and a socket path leads to the     *)
(* server that holds it, through every order of stop, drain and restart     *)
(* (raw_body.rs, server.rs, unix_socket.rs).                                *)
ListenersSound ==
    /\ part = "http" =>
          /\ Http!TypeOK /\ Http!ActiveExact /\ Http!ReleasedLast
          /\ Http!NoneForgotten /\ Http!BytesExact /\ Http!StopSound
    /\ part = "socket" =>
          /\ Socket!TypeOK /\ Socket!Reachable /\ Socket!NothingLeft
          /\ Socket!RestartFindsItsWay

(* Across the C ABI every ownership unit of a server, handler or dispatch   *)
(* is returned once, nothing runs after a start that failed, and no         *)
(* configuration exposes a server that was not acknowledged; a dispatch     *)
(* loses no wakeup and is polled by one thread, its handler's context       *)
(* outlives its calls, every run is audited, and outputs, inputs and lists  *)
(* are what the ABI announces (bondry-local-server-ffi/src,                 *)
(* bondry-runtime-ffi/src).                                                 *)
ForeignHandlesSound ==
    /\ part = "server_abi" =>
          Abi!TypeOK /\ Abi!UnitsExact /\ Abi!NothingRunsAfterFailure
    /\ part = "ingress_abi" =>
          /\ Ingress!TypeOK /\ Ingress!UnitsExact /\ Ingress!ContextAlive
          /\ Ingress!CompletedOnce /\ Ingress!NothingHeldAfterStop
    /\ part = "config" =>
          /\ Config!TypeOK /\ Config!NoUnacknowledgedExposure
          /\ Config!RunsBounded /\ Config!ValidStarts
    /\ part = "dispatch" =>
          /\ Dispatch!TypeOK /\ Dispatch!NoLostWakeup /\ Dispatch!PolledByOne
          /\ Dispatch!ContextOutlivesCalls /\ Dispatch!Audited
    /\ part = "runtime_abi" =>
          /\ Runtime!TypeOK /\ Runtime!OutputTold /\ Runtime!InputsIntact
          /\ Runtime!ListExact

(* A request of either protocol runs a capability only if it is registered  *)
(* and granted, is answered for what ran and in a form its own client       *)
(* understands, and tells a principal nothing of what it may not use        *)
(* (bondry-mcp-proto/src, bondry-rest-proto/src).                           *)
ProtocolsSound ==
    /\ part = "mcp" =>
          /\ Mcp!TypeOK /\ Mcp!RoutedOnce /\ Mcp!RunsOnlyGranted
          /\ Mcp!AbsentAndUngrantedAlike /\ Mcp!UnderstoodByClient
    /\ part = "rest" =>
          Rest!TypeOK /\ Rest!Correlated /\ Rest!RunsAreTold /\ Rest!ListSound

(* No key is admitted more often than its limit in any window, and a        *)
(* retry hint is kept: a caller that waits it out is admitted               *)
(* (rate_limit.rs, limiter.rs).                                             *)
RatesKept ==
    /\ part = "windows" =>
          Windows!TypeOK /\ Windows!WindowBound /\ Windows!RetryHonest
    /\ part = "limiter" =>
          /\ Limiter!TypeOK /\ Limiter!OldestInFront /\ Limiter!RateKept
          /\ Limiter!RetryHonest

(* A webhook request goes on to its claim only if its provider signed what  *)
(* it says, no credential enters the input, the selected headers suffice,   *)
(* and the signed form determines what was signed                           *)
(* (bondry-webhook-ingress/src, bondry-webhook-verify/src, bondry-secrets). *)
RequestsGenuine ==
    /\ part = "route" =>
          /\ Route!TypeOK /\ Route!AcceptedWasSigned /\ Route!ReplayProtected
          /\ Route!CredentialsStayOut /\ Route!SeamSuffices
    /\ part = "canonical" => Route!FormDeterminesInput(v1, v2)

(* A generation that drains admits no request, a server unlinks only the    *)
(* socket it checked, a dispatch box is freed once and by its owner, and a  *)
(* caller is limited only for what the window holds                         *)
(* (raw_body.rs, unix_socket.rs, bondry-local-server-ffi, rate_limit.rs).   *)
ServerSteps ==
    [][/\ part = "http" => Http!AdmissionClosed
       /\ part = "socket" => Socket!UnlinkOwn
       /\ part = "server_abi" => Abi!BoxesFreedOnce
       /\ part = "windows" => Windows!LimitedForCause]_all

-----------------------------------------------------------------------------
(* The runtime and its stores *)

(* An access is granted only to a token that was valid, unrevoked and       *)
(* granted at one moment of the call, and a token is replaced once          *)
(* (bondry-auth/src, bondry-store-sqlcipher/src).                           *)
AccessSound ==
    /\ part = "access" => Access!TypeOK /\ Access!Justified
    /\ part = "rotation" => Rotation!TypeOK /\ Rotation!RotatedOnce

(* A database that opened is current and counts its rows exactly, and a     *)
(* credential is stored whole, durable once acknowledged, and loaded as     *)
(* some order of the calls explains, through crashes between any two steps  *)
(* (database.rs, bondry-credential-store-unix/src/lib.rs).                  *)
StorageSound ==
    /\ part = "schema" =>
          /\ Schema!TypeOK /\ Schema!OpenIsCurrent /\ Schema!StatementsApply
          /\ Schema!CountsExact
    /\ part = "credentials" =>
          /\ Credentials!TypeOK /\ Credentials!StoredWhole
          /\ Credentials!AckedDurable /\ Credentials!LoadsLinearize
          /\ Credentials!NothingLeftBehind

(* A revoked token stays revoked, and a migration keeps every row and its   *)
(* place in the order (bondry-auth/src/manager.rs, database.rs).            *)
StorageSteps ==
    [][/\ part \in {"access", "rotation"} =>
             IF part = "access" THEN Access!RevokedForGood ELSE Rotation!RevokedForGood
       /\ part = "schema" => Schema!RowsKept]_all

(* The three delivery logs - in memory, in SQLCipher and behind the C ABI - *)
(* keep the contract the engine was verified against; memory is reclaimed   *)
(* oldest first, and a query across the ABI returns what was recorded       *)
(* (memory_log.rs, delivery.rs, store.rs, delivery_log.rs).                 *)
LogsImplementContract ==
    [][/\ part = "memory" => Memory!KeepsContract /\ Memory!OldestFirst
       /\ part = "sql" => Sql!KeepsContract
       /\ part = "log_bridge" => LogBridge!KeepsContract /\ LogBridge!ReadsBack]_all

(* A log counts what it holds: the reclamation order lists the terminal     *)
(* records, the usage counters that admission trusts are exact, and a       *)
(* descriptor keeps its store open (memory_log.rs, usage.rs,                *)
(* delivery_log.rs).                                                        *)
LogsExact ==
    /\ part = "memory" => Memory!TypeOK /\ Memory!ReclamationOrder
    /\ part = "sql" => Sql!TypeOK /\ Sql!UsageExact
    /\ part = "log_bridge" => LogBridge!TypeOK /\ LogBridge!StoreAlive

(* The persistent replay store keeps the contract that webhook ingress was  *)
(* verified against, its scan ends and repeats nothing, and across the C    *)
(* ABI a call is told what it did and a derivation leaves the claims of     *)
(* this process alone (dedup.rs, bondry-webhook-ingress-ffi/src/store.rs,   *)
(* dedup_store.rs).                                                         *)
ReplayStoreImplements ==
    [][/\ part = "dedup" => Dedup!KeepsContract
       /\ part = "scan" => Scan!ScanBounded
       /\ part = "dedup_bridge" =>
             /\ DedupBridge!DerivationKeepsClaims /\ DedupBridge!ShowsStored
             /\ DedupBridge!CallsKeepContract]_all

(* Expiry columns match the states, usage counters are exact, a scan that   *)
(* ends has visited what was unknown throughout, and no claim of the last   *)
(* process is taken for one of this process (database.rs, usage.rs,         *)
(* dedup.rs, dedup_store.rs).  Where the store answers truthfully and no    *)
(* other handle recovers claims, a claim has one holder: while a request    *)
(* holds its guard the record is in flight, and no other request holds a    *)
(* guard for that key (bondry-webhook-ingress/src/route.rs).                *)
ReplayStoreSound ==
    /\ part = "dedup" => Dedup!TypeOK /\ Dedup!ExpiryMatchesState
    /\ part = "scan" => Scan!UsageExact /\ Scan!ScanComplete
    /\ part = "dedup_bridge" =>
          DedupBridge!TypeOK /\ DedupBridge!NothingInFlightAtFirst
    /\ part = "claims" => Claims!ClaimsExclusive

-----------------------------------------------------------------------------
(* Liveness.  Each component runs on as its code is scheduled by threads,   *)
(* executors and timers; what no line below names may never happen.         *)

(* The server's thread and its timers, a thread inside begin_shutdown, stop *)
(* or a detachment, and a handler's call.  Nothing is assumed of peers, of  *)
(* completions the handler keeps, or of the host calling anything.          *)
HttpRuns(step) ==
    part \in {"http", "http_drain"} /\ step /\ UNCHANGED <<part, After11>>
HttpGoesOn ==
    /\ WF_slots(HttpRuns(Http!Closing))
    /\ WF_slots(HttpRuns(Http!Signal))
    /\ WF_slots(HttpRuns(Http!Joined))
    /\ WF_slots(HttpRuns(Http!Shutdown \/ Http!Drained \/ Http!GraceEnds \/ Http!Aborted
                         \/ Http!HandlersDrained \/ Http!DrainDeadline))
    /\ \A q \in Many :
          /\ WF_slots(HttpRuns(Http!AcceptRequest(q)))
          /\ WF_slots(HttpRuns(Http!Abort(q)))
          /\ WF_slots(HttpRuns(Http!InvokeReturns(q)))
          /\ WF_slots(HttpRuns(Http!Reserve(q) \/ Http!RejectRaw(q)))
    /\ \A g \in Solo : WF_slots(HttpRuns(Http!Detach(g)))

(* Where a drain is to end: handlers let go of completions, and requests do *)
(* not wait for ever for their bodies.                                      *)
HandlersLetGo ==
    \A q \in Many :
        /\ WF_slots(Run("http_drain", Http!LetGo(q, "sent") \/ Http!LetGo(q, "dropped"),
                        After11))
        /\ WF_slots(Run("http_drain", Http!RequestTimeout(q), After11))

(* The thread that stops and the server's thread; a callback and a call of  *)
(* the automation service return.  Nothing is assumed of dispatches the     *)
(* runtime has accepted.                                                    *)
IngressGoesOn ==
    /\ WF_slots(Run("ingress_abi", Ingress!DropRuntime, After4))
    /\ WF_slots(Run("ingress_abi", Ingress!Joined, After4))
    /\ \A h \in Solo :
          /\ WF_slots(Run("ingress_abi", Ingress!DrainNext(h), After4))
          /\ WF_slots(Run("ingress_abi", Ingress!RegisterRefused(h), After4))
    /\ \A q \in Pair :
          /\ WF_slots(Run("ingress_abi", Ingress!Respond(q), After4))
          /\ WF_slots(Run("ingress_abi", Ingress!DropTask(q), After4))
          /\ WF_slots(Run("ingress_abi",
                          Ingress!DispatchRefused(q) \/ Ingress!DispatchAccepted(q), After4))

(* The runtime answers or refuses what it is called with and completes what *)
(* it accepted (a dispatch ends, below); the server polls.  A thread inside *)
(* the runtime's library goes on, and the host completes what it was        *)
(* invoked for, returns, and lists on.                                      *)
DispatchGoesOn ==
    /\ \A d \in Pair :
          /\ WF_slots(Run("server_abi", Abi!Refused(d) \/ Abi!Accepted(d), After5))
          /\ WF_slots(Run("server_abi", Abi!CompleteDispatch(d), After5))
          /\ WF_slots(Run("server_abi", Abi!Receive(d), After5))
    /\ \A t \in Solo :
          /\ WF_slots(Run("dispatch", Dispatch!Complete(t), After6))
          /\ \A d \in Dispatch!Drivers :
                WF_slots(Run("dispatch", Dispatch!Drive(t, d), After6))
    /\ WF_slots(Run("runtime_abi", Runtime!CallStep, After5))
    /\ WF_slots(Run("runtime_abi", Runtime!ListNext, After5))

(* A process that opens the database runs until it has an answer; requests  *)
(* are polled, handlers return and a crashed process is started again.      *)
StoresGoOn ==
    /\ \A p \in Pair :
          WF_slots(Run("schema", Schema!Begin(p) \/ Schema!Busy(p) \/ Schema!Execute(p)
                                 \/ Schema!Commit(p), After7))
    /\ \A q \in Pair : WF_slots(Run("claims", Claims!Step(q), After9))
    /\ WF_slots(Run("claims", Claims!Start, After9))

(* A host thread that is not waiting goes on.  The select of the loop polls *)
(* its branches in random order, so a branch ready again and again is       *)
(* taken: a command, a call, whose attempts are bounded in number and in    *)
(* time, and the timer of a drain.  Nothing is assumed of a delivery's      *)
(* attempts.                                                                *)
HandleGoesOn ==
    /\ \A t \in Many : WF_slots(Run("handle", Handle!ThreadStep(t), After16))
    /\ WF_slots(Run("handle", Handle!HandOver, After16))
    /\ WF_slots(Run("handle", Handle!TopOfLoop, After16))
    /\ WF_slots(Run("handle", Handle!ShutdownChanged, After16))
    /\ WF_slots(Run("handle", Handle!ShutdownDeadline, After16))
    /\ SF_slots(Run("handle", Handle!HandleCommand, After16))
    /\ SF_slots(Run("handle", \E t \in Many : Handle!CallJoined(t), After16))
    /\ SF_slots(Run("handle", Handle!DrainDeadline("r1"), After16))

(* The executor polls a task that was woken and the host's callback         *)
(* returns; a discovery's and an attempt's deadline comes, and the engine   *)
(* starts what is due.  The peers owe nothing.                              *)
ExchangesGoOn ==
    /\ \A r \in Pair :
          /\ WF_slots(Run("transport", Transport!Poll(r), After9))
          /\ WF_slots(Run("transport", Transport!Accepted(r), After9))
    /\ WF_slots(Run("retried", Retried!StartAttempt, After8))
    /\ WF_slots(Run("retried", Retried!ExchangeFails("deadline_exceeded"), After8))
    /\ WF_slots(Run("discovery", Discovery!Send, After8))
    /\ WF_slots(Run("discovery", Discovery!TimeOut, After8))
    /\ WF_slots(Run("discovery", Discovery!Pass, After8))
    /\ WF_slots(Run("rotated", Rotated!Tick, After12))
    /\ WF_slots(Run("rotated", Rotated!StartAttempt, After12))
    /\ WF_slots(Run("rotated", Rotated!ExchangeFails, After12))

LiveSpec ==
    /\ Spec
    /\ HttpGoesOn /\ HandlersLetGo /\ IngressGoesOn /\ DispatchGoesOn
    /\ StoresGoOn /\ HandleGoesOn /\ ExchangesGoOn

Waiting(a) ==
    \/ part = "http" /\ Http!Stopping
    \/ part = "ingress_abi" /\ Ingress!StopCalled
    \/ part = "handle" /\ ~Handle!Returned(a)
    \/ part = "schema" /\ Schema!Opening(a)
    \/ part = "runtime_abi" /\ ~Runtime!Listed
    \/ part = "discovery" /\ Discovery!Begun
Answered(a) ==
    \/ part = "http" /\ Http!Stopped
    \/ part = "ingress_abi" /\ Ingress!Stopped
    \/ part = "handle" /\ Handle!Returned(a)
    \/ part = "schema" /\ Schema!Answered(a)
    \/ part = "runtime_abi" /\ Runtime!Listed
    \/ part = "discovery" /\ Discovery!Answered

(* Every blocking call returns: a stop of the HTTP server, whatever peers   *)
(* and completions do, and of the ingress handlers, every call through the  *)
(* runtime's handle, the opening of a database beside another process, a    *)
(* list, and a discovery                                                    *)
(* (server.rs, runtime.rs, database.rs, discovery.rs).                      *)
CallsReturn == \A a \in Pair : Waiting(a) ~> Answered(a)

Begun(a) ==
    \/ part = "http_drain" /\ a \in Solo /\ Http!Drains(a)
    \/ part = "dispatch" /\ a \in Solo /\ Dispatch!Dispatched(a)
    \/ part = "server_abi" /\ Abi!Waiting(a)
    \/ part = "transport" /\ Transport!Said(a)
    \/ part = "retried" /\ ~Retried!Terminal
    \/ part = "rotated" /\ ~Rotated!Terminal
    \/ part = "claims" /\ a \in Solo /\ Claims!Unsettled(a)
Finished(a) ==
    \/ part = "http_drain" /\ a \in Solo /\ Http!Detached(a)
    \/ part = "dispatch" /\ a \in Solo /\ Dispatch!Told(a)
    \/ part = "server_abi" /\ ~Abi!Waiting(a)
    \/ part = "transport" /\ Transport!Ended(a)
    \/ part = "retried" /\ Retried!Terminal
    \/ part = "rotated" /\ Rotated!Terminal
    \/ part = "claims" /\ a \in Solo /\ ~Claims!Unsettled(a)

(* Work that began ends: a drained handler is detached, a dispatch is told  *)
(* its result and its waiter answered, a completion reaches the engine, a   *)
(* delivery becomes terminal, and a claim is settled                        *)
(* (raw_body.rs, bondry-runtime-ffi/src, transport.rs, route.rs).           *)
WorkEnds == \A a \in Pair : Begun(a) ~> Finished(a)

(* LocalHttpServer::stop "stops accepting requests" (server.rs:177): once   *)
(* the accept loop has ended for it, no request is taken up.                *)
NoRequestAfterStop == [][part = "http" => Http!NoRequestTaken]_all
=============================================================================
