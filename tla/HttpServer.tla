----------------------------- MODULE HttpServer -----------------------------
(***************************************************************************)
(* The local HTTP server: crates/engine/bondry-http-server/src/server.rs   *)
(* over the generations of raw_body.rs.                                    *)
(*                                                                         *)
(* The server is one thread with a single-threaded runtime: its tasks      *)
(* interleave at awaits only (Idle): nothing awaits between the match and  *)
(* the first frame of the body, nor while a handler's call runs.  The host *)
(* calls register, disable and stop on threads of its own and completes    *)
(* requests on any thread.                                                 *)
(*                                                                         *)
(* A connection carries one request at a time and may carry the next; a    *)
(* request that waits for its handler goes on living when its connection   *)
(* is gone, until the handler lets go of the completion.                   *)
(***************************************************************************)
EXTENDS Integers, FiniteSets

-----------------------------------------------------------------------------
(***************************************************************************)
(* Raw-body handler generations and the requests they accept:              *)
(* crates/engine/bondry-http-server/src/raw_body.rs.                       *)
(*                                                                         *)
(* A generation is one registration of a handler for a path.  The registry *)
(* lock and the lock of each generation are separate, so a step below is   *)
(* what happens under one lock (or under both, in finish_detachment); host *)
(* threads, the server thread and whichever thread drops the last          *)
(* completion interleave between the steps.                                *)
(***************************************************************************)

CONSTANTS
    Paths, Generations, Requests,
    NoGen,
    Retained,            \* retained_bytes of every route
    AggregateRetained,   \* aggregate_retained_bytes of the server
    MaxHandlers          \* MAX_REGISTERED_HANDLERS

VARIABLES
    routes,      \* RegistryState::routes
    stopping,    \* RegistryState::stopping
    gens,        \* every generation ever created
    available,   \* permits of the retained_bytes semaphore
    reqs,        \* requests, from the match to the last reference
    disables,    \* the last disable() of each generation
    closing      \* generations begin_shutdown has still to drain, by caller

registry == <<routes, stopping, gens, available, disables, closing>>

Callers == {"host", "server"}

(* handler: "held" by the generation, "taken" out by the thread that        *)
(* detaches it, then "dropped".                                             *)
Generation == [life : {"unused", "enabled", "draining", "detached"},
               active : Nat,
               handler : {"held", "taken", "dropped"}]

(* stage: where handle_raw_body is; "waiting" awaits the receiver, "done"   *)
(* has answered or was cancelled.  bytes: retained permits.  invocation and *)
(* completion: the two references to CompletionState.                       *)
Stages == {"new", "matched", "accepted", "reading", "invoking", "waiting",
           "body", "protocol", "done"}
Completions == {"none", "held", "sent", "dropped"}
Request == [stage : Stages, gen : Generations \cup {NoGen}, bytes : BOOLEAN,
            invocation : BOOLEAN, completion : Completions]
NewRequest == [stage |-> "new", gen |-> NoGen, bytes |-> FALSE,
               invocation |-> FALSE, completion |-> "none"]

InitRegistry ==
    /\ routes = [p \in Paths |-> NoGen]
    /\ stopping = FALSE
    /\ gens = [g \in Generations |->
                 [life |-> "unused", active |-> 0, handler |-> "held"]]
    /\ available = AggregateRetained
    /\ reqs = [q \in Requests |-> NewRequest]
    /\ disables = [g \in Generations |-> "none"]
    /\ closing = [c \in Callers |-> {}]

(* The request owns an ActiveRequest, itself or through CompletionState. *)
Holds(q) ==
    \/ reqs[q].stage \in {"accepted", "reading"}
    \/ reqs[q].invocation
    \/ reqs[q].completion = "held"

-----------------------------------------------------------------------------
(* The host *)

(* register: a path is free once its generation is detached; detached       *)
(* entries are swept before the capacity is checked.                        *)
Registrable(p) ==
    LET kept == {r \in Paths : routes[r] # NoGen
                               /\ gens[routes[r]].life # "detached"} IN
    /\ Retained <= AggregateRetained
    /\ ~stopping
    /\ p \notin kept
    /\ Cardinality(kept) < MaxHandlers

Register(p) ==
    /\ Registrable(p)
    /\ \E g \in Generations :
          /\ gens[g].life = "unused"
          /\ gens' = [gens EXCEPT ![g].life = "enabled"]
          /\ routes' = [r \in Paths |->
                IF r = p THEN g
                ELSE IF routes[r] # NoGen /\ gens[routes[r]].life = "detached"
                     THEN NoGen ELSE routes[r]]
    /\ UNCHANGED <<stopping, available, reqs, disables, closing>>

(* detach_if_idle: the last one out takes the handler. *)
DetachIfIdle(gen) ==
    IF gen.life = "draining" /\ gen.active = 0 /\ gen.handler = "held"
    THEN [gen EXCEPT !.handler = "taken"]
    ELSE gen

(* begin_draining, under the generation's lock. *)
Draining(g) ==
    DetachIfIdle([gens[g] EXCEPT
        !.life = IF @ = "enabled" THEN "draining" ELSE @])

(* disable() closes admission, then waits; dropping the registration     *)
(* closes admission and does not wait.                                      *)
Disable(g) ==
    /\ gens[g].life # "unused"
    /\ disables[g] # "waiting"
    /\ gens' = [gens EXCEPT ![g] = Draining(g)]
    /\ disables' = [disables EXCEPT ![g] = "waiting"]
    /\ UNCHANGED <<routes, stopping, available, reqs, closing>>

DropRegistration(g) ==
    /\ gens[g].life = "enabled"
    /\ gens' = [gens EXCEPT ![g] = Draining(g)]
    /\ UNCHANGED <<routes, stopping, available, reqs, disables, closing>>

(* wait_detached: woken by the detachment, or by its deadline. *)
DisableReturns(g) ==
    /\ disables[g] = "waiting"
    /\ disables' = [disables EXCEPT ![g] =
          IF gens[g].life = "detached" THEN "detached" ELSE "timeout"]
    /\ UNCHANGED <<routes, stopping, gens, available, reqs, closing>>

-----------------------------------------------------------------------------
(* Detachment, by the thread that took the handler *)

(* The host's handler context is released first, outside both locks. *)
DropHandler(g) ==
    /\ gens[g].handler = "taken"
    /\ gens' = [gens EXCEPT ![g].handler = "dropped"]
    /\ UNCHANGED <<routes, stopping, available, reqs, disables, closing>>

(* finish_detachment: the path is given up only if it is still this         *)
(* generation's.                                                            *)
FinishDetachment(g) ==
    /\ gens[g].handler = "dropped"
    /\ gens[g].life = "draining"
    /\ gens' = [gens EXCEPT ![g].life = "detached"]
    /\ routes' = [p \in Paths |-> IF routes[p] = g THEN NoGen ELSE routes[p]]
    /\ UNCHANGED <<stopping, available, reqs, disables, closing>>

-----------------------------------------------------------------------------
(* Shutdown *)

BeginShutdown(c) ==
    /\ stopping' = TRUE
    /\ closing' = [closing EXCEPT ![c] =
          {routes[p] : p \in Paths} \ {NoGen}]

CloseNext(c) ==
    /\ \E g \in closing[c] :
          /\ gens' = [gens EXCEPT ![g] = Draining(g)]
          /\ closing' = [closing EXCEPT ![c] = @ \ {g}]
    /\ UNCHANGED <<routes, stopping, available, reqs, disables>>

-----------------------------------------------------------------------------
(* Requests *)

(* Mutated Accepts: only detachment closes admission. *)
AcceptsDraining(g) == gens[g].life # "detached" /\ gens[g].handler = "held"

(* Generation::accept *)
Accepts(g) == gens[g].life = "enabled" /\ gens[g].handler = "held"

(* The last reference to an ActiveRequest goes: the retained permits are    *)
(* given back and the generation counts one request less.  The thread that  *)
(* drops it goes on to DropHandler if it took the handler.                  *)
Released(q) ==
    /\ gens' = [gens EXCEPT ![reqs[q].gen] =
          DetachIfIdle([@ EXCEPT !.active = IF @ > 0 THEN @ - 1 ELSE 0])]
    /\ available' = IF reqs[q].bytes THEN available + Retained ELSE available

Kept == UNCHANGED <<gens, available>>

-----------------------------------------------------------------------------
CONSTANTS
    ProtocolPaths,      \* paths a mounted protocol accepts
    MaxConnections

VARIABLES
    server,      \* the server thread
    connections, \* open connections: slots taken
    stop,        \* the host's stop()
    result       \* what the thread returns

vars == <<registry, reqs, server, connections, stop, result>>
own == <<server, connections, stop, result>>

Phases == {"accepting", "draining", "aborting", "waiting", "ended"}

(* Types: the generations' counters and the semaphore never leave their     *)
(* ranges, whoever drops a request (raw_body.rs:638-673, server.rs:806-814).*)
TypeOK ==
    /\ routes \in [Paths -> Generations \cup {NoGen}]
    /\ stopping \in BOOLEAN
    /\ gens \in [Generations -> Generation]
    /\ \A g \in Generations : gens[g].active <= Cardinality(Requests)
    /\ available \in 0 .. AggregateRetained
    /\ reqs \in [Requests -> Request]
    /\ disables \in [Generations -> {"none", "waiting", "detached", "timeout"}]
    /\ closing \in [Callers -> SUBSET Generations]
    /\ server \in Phases
    /\ connections \in 0 .. MaxConnections
    /\ stop \in {"none", "closing", "joining", "returned"}
    /\ result \in {"none", "ok", "io", "drain_timeout"}

Init ==
    /\ InitRegistry
    /\ server = "accepting"
    /\ connections = 0
    /\ stop = "none"
    /\ result = "none"

InService == {q \in Requests :
                 reqs[q].stage \notin {"new", "done"}}
Idle ==
    /\ \A q \in Requests :
          reqs[q].stage \notin {"matched", "accepted", "invoking"}
    /\ closing["server"] = {}
Serving == server \in {"accepting", "draining"} /\ Idle

-----------------------------------------------------------------------------
(* The accept loop *)

(* With every slot taken the stream is dropped, and nothing changes. *)
Accept ==
    /\ server = "accepting" /\ Idle
    /\ connections < MaxConnections
    /\ connections' = connections + 1
    /\ UNCHANGED <<registry, reqs, server, stop, result>>

(* The peer closes an idle connection, or its time is up. *)
CloseIdle ==
    /\ Serving
    /\ connections > Cardinality(InService)
    /\ connections' = connections - 1
    /\ UNCHANGED <<registry, reqs, server, stop, result>>

(* The loop ends on the host's signal or on an accept error; either way     *)
(* drain_connections closes the registry.                                   *)
StopAccepting(r) ==
    /\ server = "accepting" /\ Idle
    /\ server' = "draining"
    /\ result' = r
    /\ BeginShutdown("server")
    /\ UNCHANGED <<routes, gens, available, disables, reqs, connections,
                   stop>>

Shutdown == stop = "joining" /\ StopAccepting("ok")
AcceptFails == StopAccepting("io")

-----------------------------------------------------------------------------
(* handle *)

Moves(q, stage) == reqs' = [reqs EXCEPT ![q].stage = stage]
(* A response of whatever status. *)
Answers(q) == reqs' = [reqs EXCEPT ![q].stage = "done", ![q].bytes = FALSE]

(* match_request, first lock: the generation of the path. *)
Match(q, p) ==
    /\ Serving
    /\ reqs[q].stage = "new"
    /\ Cardinality(InService) < connections
    /\ routes[p] # NoGen
    /\ reqs' = [reqs EXCEPT ![q].stage = "matched", ![q].gen = routes[p]]
    /\ UNCHANGED <<registry, own>>

(* match_request, second lock: Generation::accept. *)
AcceptRequest(q) ==
    /\ reqs[q].stage = "matched"
    /\ IF Accepts(reqs[q].gen)
       THEN /\ Moves(q, "accepted")
            /\ gens' = [gens EXCEPT ![reqs[q].gen].active = @ + 1]
       ELSE Answers(q) /\ UNCHANGED gens
    /\ UNCHANGED <<routes, stopping, available, disables, closing, own>>

(* handle_raw_body turns the request away before the body is read: its      *)
(* origin, the pre-authentication rates or its selected headers.            *)
RejectRaw(q) ==
    /\ reqs[q].stage = "accepted"
    /\ Released(q) /\ Answers(q)
    /\ UNCHANGED <<routes, stopping, disables, closing, own>>

(* The budget of the whole lifecycle is reserved before the first frame is  *)
(* awaited; without it the request is told to come back.                    *)
Reserve(q) ==
    /\ reqs[q].stage = "accepted"
    /\ IF available >= Retained
       THEN /\ reqs' = [reqs EXCEPT ![q].stage = "reading", ![q].bytes = TRUE]
            /\ available' = available - Retained
            /\ UNCHANGED gens
       ELSE Released(q) /\ Answers(q)
    /\ UNCHANGED <<routes, stopping, disables, closing, own>>

(* The body is too long, or a frame of it is invalid. *)
BodyFails(q) ==
    /\ Serving
    /\ reqs[q].stage = "reading"
    /\ Released(q) /\ Answers(q)
    /\ UNCHANGED <<routes, stopping, disables, closing, own>>

(* The handler is called with the completion; the permits move along. *)
Invoke(q) ==
    /\ Serving
    /\ reqs[q].stage = "reading"
    /\ reqs' = [reqs EXCEPT ![q].stage = "invoking", ![q].invocation = TRUE,
                            ![q].completion = "held"]
    /\ UNCHANGED <<registry, own>>

(* The handler completes or drops the completion, inside its call or later  *)
(* on any thread; a panic inside the call drops it too.  The state goes     *)
(* with its last reference.                                                 *)
LetGo(q, how) ==
    /\ reqs[q].completion = "held"
    /\ reqs' = [reqs EXCEPT ![q].completion = how,
                            ![q].bytes = @ /\ reqs[q].invocation]
    /\ IF reqs[q].invocation THEN Kept ELSE Released(q)
    /\ UNCHANGED <<routes, stopping, disables, closing, own>>

InvokeReturns(q) ==
    /\ reqs[q].stage = "invoking"
    /\ reqs' = [reqs EXCEPT ![q].stage = "waiting", ![q].invocation = FALSE,
                            ![q].bytes = @ /\ reqs[q].completion = "held"]
    /\ IF reqs[q].completion = "held" THEN Kept ELSE Released(q)
    /\ UNCHANGED <<routes, stopping, disables, closing, own>>

(* The receiver has the response, or learns that the sender is gone. *)
Respond(q) ==
    /\ Serving
    /\ reqs[q].stage = "waiting"
    /\ reqs[q].completion # "held"
    /\ Answers(q)
    /\ UNCHANGED <<registry, own>>

(* A path without a generation goes to a protocol.  Up to the body all of   *)
(* it is one step of the thread: origin, the failure window, the            *)
(* authenticator, and the principal's own window (see SlidingWindow).       *)
Protocol(q, p) ==
    /\ Serving
    /\ reqs[q].stage = "new"
    /\ Cardinality(InService) < connections
    /\ routes[p] = NoGen
    /\ \/ Answers(q)     \* not found, forbidden, limited, unauthorized...
       \/ p \in ProtocolPaths /\ Moves(q, "body")
    /\ UNCHANGED <<registry, own>>

(* read_body, then protocol.handle. *)
ProtocolStep(q) ==
    /\ Serving
    /\ \/ reqs[q].stage = "body" /\ Moves(q, "protocol")
       \/ reqs[q].stage \in {"body", "protocol"} /\ Answers(q)
    /\ UNCHANGED <<registry, own>>

(* The request's future is dropped, by the request timeout (the connection  *)
(* stays), by the connection's end, or by abort_all.                        *)
Dropped(q) ==
    /\ reqs[q].stage \in {"reading", "waiting", "body", "protocol"}
    /\ IF reqs[q].stage = "reading" THEN Released(q) ELSE Kept
    /\ reqs' = [reqs EXCEPT ![q].stage = "done",
                            ![q].bytes = @ /\ reqs[q].completion = "held"]
    /\ UNCHANGED <<routes, stopping, disables, closing>>

RequestTimeout(q) ==
    /\ Serving
    /\ Dropped(q)
    /\ UNCHANGED own

ConnectionEnds(q) ==
    /\ Serving
    /\ Dropped(q)
    /\ connections' = connections - 1
    /\ UNCHANGED <<server, stop, result>>

-----------------------------------------------------------------------------
(* drain_connections *)

(* Every connection has ended within the grace period. *)
Drained ==
    /\ server = "draining" /\ Idle
    /\ connections = 0
    /\ server' = "waiting"
    /\ UNCHANGED <<registry, reqs, connections, stop, result>>

(* The grace period is over: abort_all. *)
GraceEnds ==
    /\ server = "draining" /\ Idle
    /\ connections > 0
    /\ server' = "aborting"
    /\ UNCHANGED <<registry, reqs, connections, stop, result>>

Abort(q) ==
    /\ server = "aborting" /\ Idle
    /\ Dropped(q)
    /\ UNCHANGED own

Aborted ==
    /\ server = "aborting"
    /\ InService = {}
    /\ connections' = 0
    /\ server' = "waiting"
    /\ UNCHANGED <<registry, reqs, stop, result>>

(* Mutated HandlersDrained: it is enough that admission is closed. *)
HandlersClosed ==
    /\ server = "waiting"
    /\ server' = "ended"
    /\ UNCHANGED <<registry, reqs, connections, stop, result>>

(* wait_for_shutdown finds every registered generation detached. *)
HandlersDrained ==
    /\ server = "waiting"
    /\ \A p \in Paths : routes[p] # NoGen => gens[routes[p]].life = "detached"
    /\ server' = "ended"
    /\ UNCHANGED <<registry, reqs, connections, stop, result>>

(* Its deadline comes first; this error hides an accept error. *)
DrainDeadline ==
    /\ server = "waiting"
    /\ \E p \in Paths : routes[p] # NoGen /\ gens[routes[p]].life # "detached"
    /\ server' = "ended"
    /\ result' = "drain_timeout"
    /\ UNCHANGED <<registry, reqs, connections, stop>>

-----------------------------------------------------------------------------
(* stop() *)

(* The registry is closed on the host's thread before the signal is sent. *)
Stop ==
    /\ stop = "none"
    /\ stop' = "closing"
    /\ BeginShutdown("host")
    /\ UNCHANGED <<routes, gens, available, disables, reqs, server,
                   connections, result>>

Signal ==
    /\ stop = "closing"
    /\ closing["host"] = {}
    /\ stop' = "joining"
    /\ UNCHANGED <<registry, reqs, server, connections, result>>

Joined ==
    /\ stop = "joining"
    /\ server = "ended"
    /\ stop' = "returned"
    /\ UNCHANGED <<registry, reqs, server, connections, result>>

Host ==
    \/ \E p \in Paths \ ProtocolPaths : Register(p) /\ UNCHANGED own
    \/ \E g \in Generations :
          \/ Disable(g) /\ UNCHANGED own
          \/ DropRegistration(g) /\ UNCHANGED own
          \/ DisableReturns(g) /\ UNCHANGED own
    \/ Stop

Closing == \E c \in Callers : CloseNext(c) /\ UNCHANGED own

Detach(g) == (DropHandler(g) \/ FinishDetachment(g)) /\ UNCHANGED own
Detaching == \E g \in Generations : Detach(g)

(* Steps the server thread takes by itself or on a timer. *)
Thread ==
    \/ Shutdown \/ Drained \/ GraceEnds \/ Aborted
    \/ HandlersDrained \/ DrainDeadline
    \/ \E q \in Requests : AcceptRequest(q) \/ Reserve(q) \/ Respond(q) \/ Abort(q)

Handler ==
    \E q \in Requests :
        InvokeReturns(q) \/ LetGo(q, "sent") \/ LetGo(q, "dropped")

Peers ==
    \/ Accept \/ CloseIdle \/ AcceptFails
    \/ \E q \in Requests :
          \/ \E p \in Paths : Match(q, p) \/ Protocol(q, p)
          \/ RejectRaw(q) \/ BodyFails(q) \/ Invoke(q) \/ ProtocolStep(q)
          \/ RequestTimeout(q) \/ ConnectionEnds(q)

Next == Host \/ Closing \/ Detaching \/ Thread \/ Handler \/ Peers \/ Signal \/ Joined

Spec == Init /\ [][Next]_vars

-----------------------------------------------------------------------------
(* Properties *)

Holders(g) == {q \in Requests : reqs[q].gen = g /\ Holds(q)}

(* A generation counts exactly the requests that still refer to its         *)
(* handler, whichever of rejection, timeout, abort, completion, dropped     *)
(* completion or panic ends them; the decrement saturates, so one too many  *)
(* would not be noticed (raw_body.rs:638-673, 731-736).                     *)
ActiveExact == \A g \in Generations : gens[g].active = Cardinality(Holders(g))

(* The host's handler context is released only when no request can reach    *)
(* it any more, and a generation is detached only after that                *)
(* (raw_body.rs:675-692, 719-724).                                          *)
ReleasedLast ==
    \A g \in Generations :
        /\ gens[g].handler # "held" => Holders(g) = {}
        /\ gens[g].life = "detached" => gens[g].handler = "dropped"
        /\ disables[g] = "detached" => gens[g].life = "detached"

(* Every generation that is not detached is found under its path, so that   *)
(* neither a second handler of the path nor the shutdown can miss it        *)
(* (raw_body.rs:464-493, 532-559, 675-692).                                 *)
NoneForgotten ==
    \A g \in Generations :
        gens[g].life \in {"enabled", "draining"} => \E p \in Paths : routes[p] = g

(* The retained-byte budget is charged for every body being read or handled *)
(* and for nothing else (server.rs:773, 806-814; raw_body.rs:738-742).      *)
BytesExact ==
    available + Retained * Cardinality({q \in Requests : reqs[q].bytes})
        = AggregateRetained

(* When stop() returns without an error, no handler is registered, called   *)
(* or waited for (server.rs:413-432, raw_body.rs:543-559).                  *)
StopSound ==
    stop = "returned" /\ result = "ok" =>
        /\ \A g \in Generations : gens[g].life \in {"unused", "detached"}
        /\ \A q \in Requests : ~Holds(q)

(* Once admission to a generation is closed it takes in no further request, *)
(* also not one that looked the generation up before (raw_body.rs:496-507,  *)
(* 638-649).                                                                *)
AdmissionClosed ==
    \A g \in Generations : gens[g].life # "enabled" =>
        gens'[g].active <= gens[g].active \/ gens[g].life = "unused"

(* stop() returns, whatever peers and handlers do (server.rs:178-187,       *)
(* 413-432): handlers that keep their completion only cost the deadline.    *)
Stopping == stop = "closing"
Stopped == stop = "returned"
(* A generation that drains is detached once its handler lets go of every   *)
(* completion (raw_body.rs:651-692).                                        *)
Drains(g) == gens[g].life = "draining"
Detached(g) == gens[g].life = "detached"
(* What "stops accepting requests" would mean of stop (server.rs:177).     *)
NoRequestTaken ==
    \A q \in Requests :
        stop = "joining" /\ result = "ok" /\ reqs[q].stage = "new" =>
            reqs'[q].stage # "body"
=============================================================================
