--------------------------- MODULE IngressHandler ---------------------------
(***************************************************************************)
(* Webhook handlers built from foreign services and registered with a      *)
(* local server, all through the C ABI:                                    *)
(* crates/ffi/bondry-webhook-ingress-ffi/src (handler.rs, service.rs,      *)
(* store.rs, secrets.rs) and                                               *)
(* crates/ffi/bondry-local-server-ffi/src/raw_body.rs.                     *)
(*                                                                         *)
(* A handler context owns one unit of each service it was built from and   *)
(* is itself counted: one unit for its creator, one for the server.  A     *)
(* request borrows the context for the callback, then goes on as a task of *)
(* the server's runtime, which is dropped with everything in it when the   *)
(* server ends.  What a route decides is module WebhookIngress; when a     *)
(* generation detaches is module HttpServer.                               *)
(***************************************************************************)
EXTENDS Integers, FiniteSets, Sequences

CONSTANTS Handlers, Requests, None

(* The services, in the order they are retained. *)
Services == <<"automation", "dedup", "secrets">>
ServiceSet == {Services[i] : i \in DOMAIN Services}

VARIABLES
    units,      \* units of each service the host has given out
    handlers,   \* handler contexts and their registrations
    requests,   \* requests the server passed to a handler
    server      \* "running", "draining", "dropping" its runtime, "stopped"

vars == <<units, handlers, requests, server>>

(* retained: how many services are; refs: units of the context; gen: the    *)
(* registration.                                                            *)
Handler == [stage : {"none", "creating", "live", "freed", "failed"},
            retained : 0 .. Len(Services), refs : 0 .. 2, creator : BOOLEAN,
            gen : {"none", "retained", "enabled", "draining", "detached"}]

(* stage: in the callback, then a task; dispatch: the allocation given to   *)
(* the automation service; calls: times the completion was called.          *)
Request == [handler : Handlers \cup {None},
            stage : {"none", "callback", "task", "done"},
            dispatch : {"none", "caller", "runtime", "freed"},
            calls : 0 .. 2]

TypeOK ==
    /\ units \in [ServiceSet -> 0 .. Cardinality(Handlers)]
    /\ handlers \in [Handlers -> Handler]
    /\ requests \in [Requests -> Request]
    /\ server \in {"running", "draining", "dropping", "stopped"}

Init ==
    /\ units = [s \in ServiceSet |-> 0]
    /\ handlers = [h \in Handlers |-> [stage |-> "none", retained |-> 0, refs |-> 0,
                                       creator |-> FALSE, gen |-> "none"]]
    /\ requests = [q \in Requests |-> [handler |-> None, stage |-> "none",
                                       dispatch |-> "none", calls |-> 0]]
    /\ server = "running"

Retained(h) == {Services[i] : i \in 1 .. handlers[h].retained}
Given(set) == units' = [s \in ServiceSet |-> IF s \in set THEN units[s] - 1 ELSE units[s]]

-----------------------------------------------------------------------------
(* bondry_webhook_ingress_handler_v1 *)

(* The descriptor and the configuration's length and text are acceptable;   *)
(* anything else returns before a service is retained.                      *)
Create(h) ==
    /\ handlers[h].stage = "none"
    /\ handlers' = [handlers EXCEPT ![h].stage = "creating"]
    /\ UNCHANGED <<units, requests, server>>

(* ForeignAutomationService::retain, ForeignDedupStore::retain,             *)
(* ForeignSecretProvider::retain                                            *)
RetainService(h) ==
    /\ handlers[h].stage = "creating"
    /\ handlers[h].retained < Len(Services)
    /\ units' = [units EXCEPT ![Services[handlers[h].retained + 1]] = @ + 1]
    /\ handlers' = [handlers EXCEPT ![h].retained = @ + 1]
    /\ UNCHANGED <<requests, server>>

(* A descriptor is not acceptable, its retain callback answers null, or the *)
(* route cannot be built: what was retained is dropped.                     *)
CreateFails(h) ==
    /\ handlers[h].stage = "creating"
    /\ Given(Retained(h))
    /\ handlers' = [handlers EXCEPT ![h].stage = "failed", ![h].retained = 0]
    /\ UNCHANGED <<requests, server>>

Created(h) ==
    /\ handlers[h].stage = "creating"
    /\ handlers[h].retained = Len(Services)
    /\ handlers' = [handlers EXCEPT ![h].stage = "live", ![h].refs = 1,
                                    ![h].creator = TRUE]
    /\ UNCHANGED <<units, requests, server>>

(* A unit of the context goes; the last one takes the services with it. *)
DropUnit(h, with) ==
    IF handlers[h].refs = 1
    THEN /\ Given(Retained(h))
         /\ handlers' = [handlers EXCEPT ![h] =
               [with EXCEPT !.refs = 0, !.stage = "freed", !.retained = 0]]
    ELSE /\ handlers' = [handlers EXCEPT ![h] = [with EXCEPT !.refs = @ - 1]]
         /\ UNCHANGED units

(* bondry_webhook_ingress_handler_release_v1, once, after the registration. *)
ReleaseHandler(h) ==
    /\ handlers[h].creator
    /\ handlers[h].gen # "retained"
    /\ DropUnit(h, [handlers[h] EXCEPT !.creator = FALSE])
    /\ UNCHANGED <<requests, server>>

-----------------------------------------------------------------------------
(* bondry_server_raw_body_handler_register_v1 and its siblings *)

(* The route is decoded first; then the context is retained. *)
RetainHandler(h) ==
    /\ handlers[h].creator
    /\ handlers[h].gen = "none"
    /\ server # "stopped"
    /\ handlers' = [handlers EXCEPT ![h].refs = @ + 1, ![h].gen = "retained"]
    /\ UNCHANGED <<units, requests, server>>

Register(h) ==
    /\ handlers[h].gen = "retained"
    /\ server = "running"
    /\ handlers' = [handlers EXCEPT ![h].gen = "enabled"]
    /\ UNCHANGED <<units, requests, server>>

(* The path is taken, the registry is full, or the server stops. *)
RegisterRefused(h) ==
    /\ handlers[h].gen = "retained"
    /\ DropUnit(h, [handlers[h] EXCEPT !.gen = "detached"])
    /\ UNCHANGED <<requests, server>>

Active(h) == {q \in Requests : requests[q].handler = h /\ requests[q].calls = 0}

(* disable_v1, release_v1 of the registration, or the server's drain: the   *)
(* context is given back when no request is left.                           *)
Draining(h) ==
    IF Active(h) = {}
    THEN DropUnit(h, [handlers[h] EXCEPT !.gen = "detached"])
    ELSE /\ handlers' = [handlers EXCEPT ![h].gen = "draining"]
         /\ UNCHANGED units

Disable(h) ==
    /\ handlers[h].gen = "enabled"
    /\ Draining(h)
    /\ UNCHANGED <<requests, server>>

-----------------------------------------------------------------------------
(* Requests *)

(* ForeignRawBodyHandler::handle gives the completion to handle_request. *)
Handle(q, h) ==
    /\ server \in {"running", "draining"}
    /\ handlers[h].gen = "enabled"
    /\ requests[q].stage = "none"
    /\ requests' = [requests EXCEPT ![q].handler = h, ![q].stage = "callback"]
    /\ UNCHANGED <<units, handlers, server>>

(* complete_raw_body: the last completion of a draining generation gives    *)
(* the context back.  An answer that does not decode becomes a 500.         *)
Completes(q) ==
    LET h == requests[q].handler IN
    /\ requests' = [requests EXCEPT ![q].calls = @ + 1, ![q].stage = "done"]
    /\ IF handlers[h].gen = "draining" /\ Active(h) = {q}
       THEN DropUnit(h, [handlers[h] EXCEPT !.gen = "detached"])
       ELSE UNCHANGED <<units, handlers>>

(* The request does not parse, the route refuses it, or the callback panics: *)
(* it is answered inside the callback.                                      *)
Respond(q) ==
    /\ requests[q].stage = "callback"
    /\ Completes(q)
    /\ UNCHANGED server

(* A task of the server's runtime goes on with what begin returned. *)
Spawn(q) ==
    /\ requests[q].stage = "callback"
    /\ requests' = [requests EXCEPT ![q].stage = "task"]
    /\ UNCHANGED <<units, handlers, server>>

(* ForeignAutomationService::dispatch *)
Dispatch(q) ==
    /\ requests[q].stage = "task"
    /\ requests[q].dispatch = "none"
    /\ server # "stopped"
    /\ requests' = [requests EXCEPT ![q].dispatch = "caller"]
    /\ UNCHANGED <<units, handlers, server>>

(* Refused: the allocation is taken back and the request answered. *)
DispatchRefused(q) ==
    /\ requests[q].dispatch = "caller"
    /\ requests' = [requests EXCEPT ![q].dispatch = "freed"]
    /\ UNCHANGED <<units, handlers, server>>

DispatchAccepted(q) ==
    /\ requests[q].dispatch = "caller"
    /\ requests' = [requests EXCEPT ![q].dispatch = "runtime"]
    /\ UNCHANGED <<units, handlers, server>>

(* complete_dispatch, perhaps after the task is gone. *)
DispatchCompletes(q) ==
    /\ requests[q].dispatch = "runtime"
    /\ requests' = [requests EXCEPT ![q].dispatch = "freed"]
    /\ UNCHANGED <<units, handlers, server>>

(* The task ends with the route's answer. *)
TaskEnds(q) ==
    /\ requests[q].stage = "task"
    /\ requests[q].dispatch \in {"none", "freed"}
    /\ Completes(q)
    /\ UNCHANGED server

-----------------------------------------------------------------------------
(* The server stops *)

Stop ==
    /\ server = "running"
    /\ server' = "draining"
    /\ UNCHANGED <<units, handlers, requests>>

DrainNext(h) ==
    /\ server # "running"
    /\ handlers[h].gen = "enabled"
    /\ Draining(h)
    /\ UNCHANGED <<requests, server>>

(* All generations have detached, or the deadline has passed. *)
DropRuntime ==
    /\ server = "draining"
    /\ \A h \in Handlers : handlers[h].gen # "enabled"
    /\ \A q \in Requests : requests[q].stage # "callback" /\ requests[q].dispatch # "caller"
    /\ server' = "dropping"
    /\ UNCHANGED <<units, handlers, requests>>

(* A task that is dropped drops its Completion, which answers.  The task    *)
(* may still wait for a dispatch.                                           *)
DropTask(q) ==
    /\ server = "dropping"
    /\ requests[q].stage = "task"
    /\ Completes(q)
    /\ UNCHANGED server

Joined ==
    /\ server = "dropping"
    /\ \A q \in Requests : requests[q].stage # "task"
    /\ server' = "stopped"
    /\ UNCHANGED <<units, handlers, requests>>

Next ==
    \/ \E h \in Handlers :
          \/ Create(h) \/ RetainService(h) \/ CreateFails(h) \/ Created(h)
          \/ ReleaseHandler(h) \/ RetainHandler(h) \/ Register(h)
          \/ RegisterRefused(h) \/ Disable(h) \/ DrainNext(h)
          \/ \E q \in Requests : Handle(q, h)
    \/ \E q \in Requests :
          \/ Respond(q) \/ Spawn(q) \/ Dispatch(q) \/ DispatchRefused(q)
          \/ DispatchAccepted(q) \/ DispatchCompletes(q) \/ TaskEnds(q) \/ DropTask(q)
    \/ Stop \/ DropRuntime \/ Joined

Spec == Init /\ [][Next]_vars

-----------------------------------------------------------------------------
(* Properties *)

(* Every service unit given to a handler is given back exactly once: by a   *)
(* creation that fails half-way, or when the last unit of the context goes, *)
(* whoever drops it (handler.rs:147-158, service.rs:108-113, store.rs,      *)
(* secrets.rs).                                                             *)
UnitsExact ==
    \A s \in ServiceSet :
        units[s] = Cardinality({h \in Handlers : s \in Retained(h)})

(* The context a callback or a task uses is alive: the generation holds its *)
(* unit until the last completion (raw_body.rs:218-258, handler.rs:196-219).*)
ContextAlive ==
    \A q \in Requests :
        requests[q].stage \in {"callback", "task"} =>
            handlers[requests[q].handler].stage = "live"

(* Each request is completed exactly once: in the callback, by its task, or *)
(* by the drop of its task (handler.rs:308-377).                            *)
CompletedOnce ==
    \A q \in Requests :
        /\ requests[q].calls <= 1
        /\ requests[q].stage = "done" => requests[q].calls = 1

(* After stop the server holds no unit of any handler, although a drain may *)
(* have timed out and dispatches are still with the runtime: what is left   *)
(* is the creator's to release (raw_body.rs:455-472, handler.rs:163-179).   *)
NothingHeldAfterStop ==
    server = "stopped" =>
        \A h \in Handlers :
            handlers[h].gen # "retained" =>
                handlers[h].refs = IF handlers[h].creator THEN 1 ELSE 0

(* A stop ends although no dispatch it waits for may ever be completed.     *)
StopCalled == server = "draining"
Stopped == server = "stopped"
=============================================================================
