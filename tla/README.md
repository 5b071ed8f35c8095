# Bondry: TLA+ models, checks and proofs

Bondry gives a host application bounded outbound deliveries (egress), replay-protected
inbound webhooks (ingress), local HTTP, REST and MCP servers, access control, and the stores
behind them. This directory holds TLA+ models of the parts that keep state, the TLC
configurations that check them on small instances, and TLAPS proofs of what matters most.
`PROJECT.json` is the index: components, runs, the source lines of every definition, mutants,
hazards, findings and theorems.

## 1. The system and its modules

The **delivery engine** (`bondry-egress-runtime`) is one thread. It admits one-way deliveries
and calls, writes every step to a **delivery log** before it acts, runs attempts over a
transport, retries, drains routes and stops within a deadline. Hosts reach it through a handle
and a command channel, or through the C ABI above them. The log is in memory, in SQLCipher, or
behind a C ABI; several runtimes may share one.

**Webhook ingress** verifies a request, claims its identity in a **replay store**, dispatches to
a capability and settles the claim. Requests reach it through the **HTTP server**, which also
serves REST and MCP. Capabilities, clients, tokens and grants live in the **runtime** with its
C ABI. Everything persistent shares one SQLCipher database, apart from the Unix credential
store, which is files.

| Module | Models | State and actions |
|---|---|---|
| `DeliveryRecords` | delivery log contract as values | what each write makes of a log; lemmas about it |
| `DeliveryLog` | `DeliveryLog` trait | the contract as a state machine: atomic operations, any write may fail applied or not, only terminal records are reclaimed |
| `InMemoryDeliveryLog`, `SqlCipherDeliveryLog`, `DeliveryLogBridge` | the three logs | each operation one action; each implements `DeliveryLog` |
| `DeliveryLifecycle` | `delivery.rs` | what an event does to one delivery |
| `EgressDeliveries` | `runtime.rs`, what happens to a delivery | lanes, counters, tasks, records, answers; one operator per handler part |
| `EgressRuntime` | `runtime.rs`, when it happens | registry, drains, ready queues, rotation, retry heap, deadlines, the loop of `run()`, crash and restart |
| `SharedDeliveryLog` | several runtimes over one log | start with recovery, admission, attempts, outcomes, stop, crash |
| `EgressHandle`, `EgressAbi` | the handle, its threads, the Swift handle; the egress C ABI | commands, answers, stop; every entry point as its steps |
| `RouteAdmission`, `RetrySchedule` | token buckets, backoff | time in small integers |
| `ForeignTransport` | host transport and secret callbacks, endpoint policy | ownership of the completion cell, proofs of a connection |
| `McpToolCall`, `McpDiscovery`, `WebhookDelivery` | the delivery kinds and discovery | every transition, against a peer and a lossy network |
| `DedupRecords`, `DedupStore`, `SqlCipherDedupStore`, `DedupBridge` | replay store: contract, SQLCipher, C ABI | claim, settle, recover, resolve, expire, scan |
| `WebhookRoute`, `RequestLimiter`, `WebhookIngress` | ingress route | verification and mapping; limiter; from the claim to the answer |
| `HttpServer`, `UnixSocket`, `SlidingWindow` | HTTP server | accept, raw bodies, drain, stop; the socket file by system calls; rate windows |
| `ServerAbi`, `ServerConfig`, `IngressHandler` | C ABI of server and ingress | starts, stops, configurations, ownership |
| `CapabilityDispatch`, `RuntimeAbi` | dispatcher and runtime C ABI | registration, polling, completion; administration |
| `McpAdapter`, `RestAdapter` | protocols | routing, grants, audit, answers |
| `AccessControl` | clients, tokens, grants | each manager call step by step over atomic store calls |
| `SchemaMigration`, `CredentialStore` | opening a database; credential files | statements, commits and crashes; system calls, kills and power losses |
| `MC*` | instances for TLC | |
| `*_proofs` | theorems | |

The variables carry the names of the fields they model. Variables that no field corresponds to
are history of what an outsider has seen (`sent`, `answers`, `accepted`, `runs`, ...), and are
declared as such. A definition introduced by "Mutated X" is a wrong variant of X kept beside
it; with X replaced by it, the property named in `PROJECT.json` must fail. No specification
uses one.

`MCHost` checks the components around the engine side by side: `part` names one, chosen at the
start among `Parts`, and `v1`, `v2`, ... are its variables. They do not interact there. Where
two components do interact, a module contains both sides (`EgressHandle` the threads, channel
and engine, `McpToolCall` the call and the adapter, `WebhookDelivery` the sender and the route,
`HttpServer` listeners and handlers), or one is checked over the contract the other is shown to
implement (engine over log, ingress over replay store).

### Abstractions and assumptions

- Engine: no clock. A deadline is armed and passes at any moment while the engine is suspended.
  One pass of each loop over deliveries is one step, so a crash falls between any two writes. A
  rejected command changes nothing and is no action, except that `insert_intent` may reclaim or
  write before it fails. Failure kinds are one value, apart from `Cancelled`.
- A write to a log or store is applied, refused, or applied and reported as failed
  ("ambiguous").
- A log does not reclaim a record whose finished task is still to be joined (`Forgettable`).
  `TerminalIsFinal` covers every record: reclaiming, by an admission of a running engine that is
  not degraded, is the one step that ends a terminal one, and a crash or a restart never does.
  The code does not enforce it (`runtime.rs:921`); limits of 64 records and more, or retention
  times, make it so in practice. Reclaiming ends what the engine owes the host: `accepted` holds
  a delivery until then, and `NothingLost` and `CallsAnswered` speak of `accepted`.
- Shared log: records are kept, and the log answers every call.
- Ingress: which records have expired, and whether the store is full, are choices.
- The flags of `CapabilityDispatch` are sequentially consistent. The code uses acquire and
  release, which the targets it is built for order that way.
  The clock of `AccessControl` is monotone. Signatures are ideal.
- `EgressAbi`: one faulty call at a time; at-most-once holds within the log's retention.
- `ForeignTransport`: a host completes a request it accepted exactly once, as the header
  demands.
- `RequestLimiter`: the bound exempts requests of the limiter's instant 0, which its
  saturating cutoff does not count; its caller passes the instant, which may be older than the
  last. `SlidingWindow` has no such skew, since a server's requests share one thread;
  `rate_limit.rs:81` relies on instants that can be moved back.
- `WebhookDelivery`: skew and timeouts are within the verifier's tolerance and the store's
  retention; time spent in queues is left out.
- `CredentialStore`: the directory is written back like a journal, temporary names are fresh,
  one credential, nobody else changes the directory.
- `EgressHandle`: the engine thread does not panic. `RestAdapter`: timeouts are the server's.
- `ServerConfig` and `MCWebhookRoute` vary one group of inputs at a time. A route's
  `MAX_SELECTED_HEADERS` is 5 instead of 32, so that it is exceeded.

## 2. Runs

Deadlock is not checked: starts, admissions, requests and calls are bounded, and every part may
come to rest.

| Run | Instance | Shows |
|---|---|---|
| `egress_crash` | 2 deliveries, 1 route, calls, refused and ambiguous writes, a persistent log that reclaims, 2 admissions of an identifier, 2 starts; 1.16 million states | `RecordedBeforeSent`, `LogAgreement`, `NothingLost`, `CallsAnswered`, `TerminalIsFinal`, `DrainedWhenDone` |
| `egress_fair` | 3 deliveries, 2 routes, limits of 2 attempts in all and 1 per route; 0.83 million states | `Accounting`, `PayloadAccounting`, `TasksOwned`, `DrainsSound`, `NeverStranded`, `FairRotation` |
| `egress_live` | 2 deliveries, 1 route, calls, refused writes | `EveryDeliveryEnds`, `HostsAnswered` |
| `ingress` | 3 requests, 2 identities of which one is retained, every fault, 2 starts, 2 decisions; 3.8 million states | `AtMostOnce`, `SuccessAccounted`, `DecidedByOperator` |
| `shared_log` | 2 deliveries, 2 runtimes, 3 starts | `HeldOnce`, `SentRecorded`, `StatusKept` |
| `engine` | the parts around the engine; 1.68 million states | handle and C ABI (`HandlesSound`), peers and callbacks (`ExchangesSound`), rates and backoff (`SchedulesKept`), webhooks end to end (`DeliveredOnce`), steps they never take (`EngineSteps`) |
| `servers` | the parts that answer requests; 1.58 million states | `ListenersSound`, `ForeignHandlesSound`, `ProtocolsSound`, `RatesKept`, `RequestsGenuine`, `ServerSteps` |
| `stores` | the parts that keep state; 0.89 million states | `AccessSound`, `StorageSound`, `LogsExact`, `ReplayStoreSound`, `StorageSteps`, and the refinements `LogsImplementContract`, `ReplayStoreImplements` |
| `live` | 13 parts in smaller instances; 0.18 million states | every blocking call returns (`CallsReturn`), work that began ends (`WorkEnds`) |
| `http_after_stop`, `unix_socket_race`, `credential_race` | | violations, see section 4 |

A property of `MCHost` is a conjunction, one line per part, of definitions of that part's
module; each of those carries its own comment.

Why the bounds are enough: one retry gives every lifecycle state and both ways out of it. Two
deliveries with one slot give queueing behind a busy lane, two routes give rotation and, when
one is drained, its stale queue and heap entries beside the live ones of the other, a second admission gives the reuse of an identifier. Two starts give
recovery of everything one process can leave. Three requests are a holder, a duplicate and a
third that claims after the record was removed. In `MCHost`, two or three threads, requests,
tokens or processes are one that acts, one that interferes and, where it matters, one that
comes after; limits are one or two so that they are reached. Identifiers are compared for
equality only where a run uses symmetry; the liveness runs use none.

### Fairness

- Engine (`FairSpec`): its loops run on (weak fairness of `Dispatch`, `EndPrelude`, `Sweep`).
  `tokio::select!` polls its branches in random order, without `biased`, so a branch that is
  ready again and again is taken (strong fairness of `ProcessDeadlines`, `ShutdownFallsDue`,
  `DrainFallsDue`). `HostsAnswered` needs no more: drains and stop end although a transport
  never answers. `EveryDeliveryEnds` also assumes `AttemptsEnd`: an attempt ends by its request
  timeout and its join is taken.
- HTTP server: its thread, its timers, threads inside `stop` or a detachment, and a handler's
  call go on. Nothing is assumed of peers or of completions a handler keeps, except in the part
  `http_drain`, where handlers let go and bodies time out.
- Ingress handler: the stopping thread, the server's thread and callbacks go on; accepted
  dispatches may never end. Dispatch: threads inside the library go on and the host completes
  what it was invoked for.
- Stores: a process that opens the database runs until it has an answer; requests are polled,
  handlers return, a crashed process is started again.
- Handle: a thread that does not wait goes on; the branches of the loop as above; calls end,
  deliveries need not.
- Exchanges: a task that was woken is polled, deadlines come, what is due is started. Peers owe
  nothing.

## 3. Proofs

TLAPS proves the following for every value of the constants, under the `ASSUME`s of the modules:
finite deliveries and requests, natural limits, positive where the code demands it, and faults
among the two kinds. `PROJECT.json` lists each theorem. All bounds (`MaxStarts`,
`MaxAdmissions`, ...) are arbitrary naturals there.

**The logs** (`InMemoryDeliveryLog`, `SqlCipherDeliveryLog`, lemmas in `DeliveryRecords`).
`Refinement`: each implements `DeliveryLog`; an operation maps to the same operation, a
transaction that rolled back to a write answered "unavailable". It needs what the log counts:
that the reclamation queue lists exactly the terminal records, each once (`OrderIsExact`), and
that the usage counters are exact after every transaction (`CountersExact`). `RecordsMoveForward`
follows from the contract's step and the lemma `WritesForward`. `OnlyOldestReclaimed` says what
an insertion may remove.

**The engine.** The proof has three layers.

1. `EgressDeliveries_proofs` reasons about `DeliveriesSpec`, in which the operations on
   deliveries happen in any order their own conditions allow. Every operation is, for every
   delivery, one of a few steps of a life (`LifeStep`). From there `DeliveriesInv` is
   inductive: a held delivery has a pending record with the same attempts and no override
   (`Agrees`), a task belongs to what is held (`Owned`), and what was sent is recorded, calls
   are answered and accepted deliveries are held, ended or in the log (`Lived`). None of the
   four properties is inductive without the others: that a late completion changes nothing
   depends on `Owned`, that a restart loses nothing on `Agrees`. The counters are cardinalities
   and sums over what is held; each operation charges or releases one delivery on one route
   (`Charged`, `PayloadCharged`), and admission checks the room (`AccountingInv`). Hence the
   saturating subtractions never saturate.
2. `EgressLoop_proofs` shows that every step of the loop is such an operation, or leaves the
   deliveries alone. A loop over deliveries works on what it collected before, so `SweepHeld`
   says that what is left of it is still held and due. The module also has, for one step, what
   happens to drains, tasks, queues, the rotation and the heap: a delivery that is held and not
   in flight waits in a queue or the heap (`Waiting`), and the rotation lists exactly the routes
   with a non-empty queue, each once (`Rotation`).
3. `EgressRuntime_proofs` puts both together: `ImplementsDeliveries`
   (`Spec => DeliveriesSpec`), and `LogAgreement`, `RecordedBeforeSent`, `CallsAnswered`,
   `NothingLost`, `TerminalIsFinal`, `Accounting`, `PayloadAccounting` through it; then
   `DrainsSound` and `DrainedWhenDone` (counters are zero exactly when a route has no work),
   `NeverStranded`, `FairRotation` and `TasksOwned`. Its limit per route is proved, and holds,
   while no identifier is admitted twice: queue entries then are on their delivery's own route
   (`Homed`).

So every safety property and action property of the engine's runs is proved.

**Ingress** (`WebhookIngress_proofs`). `RunsAtMostOnce`: `Credit` counts, for each identity, the
runs, the claims that may still run and whether the key is free; together never more than one
plus the removals. `SuccessIsAccounted`: a success without a return has an unknown record, a
decision, or a claim that leads to one. `OperatorsDecide` is about single steps.
`ClaimsAreExclusive` assumes that no failed store call was applied and that recovery runs at
start only; guards are then held by a running process only, so recovery meets none. It does not
hold otherwise, since a guard names its claim by key alone; the other three do.

**Shared log** (`SharedDeliveryLog_proofs`). `OneOwner`, `NothingSentUnrecorded` and
`OutcomeKept` from one invariant: what a runtime holds has a record, the holder's count is the
log's, an outcome is in the log or in the process that gave it.

**Only model-checked.** Liveness and fairness (`EveryDeliveryEnds`, `HostsAnswered`,
`CallsReturn`, `WorkEnds`) are out of the prover's reach. The properties of `MCHost` are
checked on instances: several of those modules use recursive operators, which exclude the
prover, and results over bytes, texts and schedules would need induction over data. Of them,
`LogsExact` and the parts "memory" and "sql" of `LogsImplementContract` are proved in the log
modules, and the part "claims" of `ReplayStoreSound` in `WebhookIngress_proofs`.

## 4. Findings

- `http_after_stop`: `stop()` "stops accepting requests", but a request on an established
  connection is served until the grace period ends (`server.rs:413`).
- `unix_socket_race`: recovery of a stale socket compares identities and then unlinks by name;
  a server starting at the same time may have bound in between (`unix_socket.rs:253`).
- `credential_race`: an operation that overlaps a replacement or removal finds a link count of
  zero and reports unsafe storage (`lib.rs:268`).

Two more observations have no run of their own. A runtime that starts over a shared log records
"unknown" for what another one still holds. And the per-route concurrency cap (`limits.rs:142`)
may be exceeded when an identifier is reused on another route while an entry of its first life
is still queued (`runtime.rs:677-711`); `TasksOwned` states it with that exception.

## 5. Not modelled

TLS configuration, the network transport, HMAC and constant-time comparison (libraries);
identifiers, descriptors and value types that check one field; JSON rendering and schema
validation; the growing buffer with which the server ABI reads the capability list; the
expansion of a secret into a URL template; Swift bindings other than the egress handle and the
loading of a credential; a panic of the engine thread; several text inputs of one C call
(they are one); decoding of rows and configurations beyond their checks.
