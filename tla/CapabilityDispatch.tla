------------------------- MODULE CapabilityDispatch -------------------------
(***************************************************************************)
(* Capabilities registered and dispatched through the runtime's C ABI:     *)
(* crates/ffi/bondry-runtime-ffi/src/capabilities.rs and lib.rs, over the  *)
(* dispatcher of crates/contract/bondry-core/src/dispatch.rs.              *)
(*                                                                         *)
(* A dispatch is a DispatchTask: a future and a callback behind a lock,    *)
(* and two flags that elect the one thread that polls.  Two threads may    *)
(* drive it: the one that starts the dispatch, and the one on which the    *)
(* host completes the handler (inside the invocation, or later).  Every    *)
(* step between two accesses to a flag or a lock is one action.  The       *)
(* flags are taken as sequentially consistent, as they are on the targets  *)
(* the library is built for.                                               *)
(***************************************************************************)
EXTENDS Integers, FiniteSets, Sequences

CONSTANTS
    Caps, Handlers, Tasks, None,
    MaxUnits       \* bound on the ownership units of the store handle

VARIABLES
    units,       \* ownership units of the StoreHandle
    caps,        \* StoreHandle::capabilities
    handlers,    \* ForeignHandler: its Arc count and its releases
    tasks,       \* DispatchTask
    pc,          \* where each driver of a task is
    audit        \* the events recorded for each invocation, in order

vars == <<units, caps, handlers, tasks, pc, audit>>

Drivers == {"starter", "completer"}
Results == {"ok", "failed", "not_found", "denied", "invalid_input", "audit"}
Events == {"started", "succeeded", "handler_failed", "not_found", "denied",
           "invalid_input"}
(* future: "waiting" awaits the handler; completion: ForeignCompletion,     *)
(* "waker" when it holds one.                                               *)
Task == [handler : Handlers \cup {None},
         future : {"none", "fresh", "waiting", "gone"},
         lock : Drivers \cup {None},
         polling : BOOLEAN, requested : BOOLEAN,
         callback : BOOLEAN, calls : Nat,
         completion : {"none", "pending", "waker", "ready", "consumed"},
         result : Results \cup {None}]
NewTask == [handler |-> None, future |-> "none", lock |-> None,
            polling |-> FALSE, requested |-> FALSE, callback |-> FALSE,
            calls |-> 0, completion |-> "none", result |-> None]
Places == {"idle", "request", "cas", "clear", "lock", "poll", "invoking",
           "await", "deliver", "call", "recheck", "unpoll", "recheck2",
           "cas2", "end"}

(* Types; the handle's units never go below none (lib.rs:                   *)
(* bondry_store_retain_v1, bondry_store_close_v1).                          *)
TypeOK ==
    /\ units \in 0 .. MaxUnits
    /\ caps \in [Caps -> Handlers \cup {None}]
    /\ handlers \in [Handlers -> [state : {"unused", "live", "released"},
                                  count : Nat]]
    /\ tasks \in [Tasks -> Task]
    /\ pc \in [Tasks -> [Drivers -> Places]]
    /\ audit \in [Tasks -> Seq(Events)]

Init ==
    /\ units = 1
    /\ caps = [c \in Caps |-> None]
    /\ handlers = [h \in Handlers |-> [state |-> "unused", count |-> 0]]
    /\ tasks = [t \in Tasks |-> NewTask]
    /\ pc = [t \in Tasks |-> [d \in Drivers |-> "idle"]]
    /\ audit = [t \in Tasks |-> <<>>]

Goes(t, d, place) == pc' = [pc EXCEPT ![t][d] = place]
At(t, d, place) == pc[t][d] = place

(* n references go; the last one calls the host's release. *)
Dropped(h, n) ==
    [handlers EXCEPT ![h].count = @ - n,
                     ![h].state = IF handlers[h].count = n THEN "released" ELSE @]

-----------------------------------------------------------------------------
(* The store handle *)

Retain ==
    /\ units > 0 /\ units < MaxUnits
    /\ units' = units + 1
    /\ UNCHANGED <<caps, handlers, tasks, pc, audit>>

(* The last unit takes the registered capabilities with it; dispatches that *)
(* are running keep their own handler.                                      *)
Close ==
    /\ units > 0
    /\ units' = units - 1
    /\ IF units = 1
       THEN /\ caps' = [c \in Caps |-> None]
            /\ handlers' = [h \in Handlers |->
                  LET n == Cardinality({c \in Caps : caps[c] = h}) IN
                  IF n = 0 THEN handlers[h] ELSE Dropped(h, n)[h]]
       ELSE UNCHANGED <<caps, handlers>>
    /\ UNCHANGED <<tasks, pc, audit>>

(* An occupied name, like every earlier error, leaves the context with the  *)
(* caller.                                                                  *)
Register(c) ==
    /\ units > 0
    /\ caps[c] = None
    /\ \E h \in Handlers :
          /\ handlers[h].state = "unused"
          /\ handlers' = [handlers EXCEPT ![h] = [state |-> "live", count |-> 1]]
          /\ caps' = [caps EXCEPT ![c] = h]
    /\ UNCHANGED <<units, tasks, pc, audit>>

Unregister(c) ==
    /\ units > 0
    /\ caps[c] # None
    /\ caps' = [caps EXCEPT ![c] = None]
    /\ handlers' = Dropped(caps[c], 1)
    /\ UNCHANGED <<units, tasks, pc, audit>>

-----------------------------------------------------------------------------
(* DispatchTask *)

(* start_dispatch: the capability is looked up once, here. *)
StartDispatch(t, c) ==
    /\ units > 0
    /\ tasks[t].future = "none"
    /\ tasks' = [tasks EXCEPT ![t] = [NewTask EXCEPT
          !.handler = caps[c], !.future = "fresh", !.callback = TRUE]]
    /\ handlers' = IF caps[c] = None THEN handlers
                   ELSE [handlers EXCEPT ![caps[c]].count = @ + 1]
    /\ Goes(t, "starter", "request")
    /\ UNCHANGED <<units, caps, audit>>

(* request_poll *)
Request(t, d) ==
    /\ At(t, d, "request")
    /\ tasks' = [tasks EXCEPT ![t].requested = TRUE]
    /\ Goes(t, d, "cas")
    /\ UNCHANGED <<units, caps, handlers, audit>>

Elect(t, d) ==
    /\ pc[t][d] \in {"cas", "cas2"}
    /\ IF tasks[t].polling
       THEN Goes(t, d, "end") /\ UNCHANGED tasks
       ELSE /\ tasks' = [tasks EXCEPT ![t].polling = TRUE]
            /\ Goes(t, d, "clear")
    /\ UNCHANGED <<units, caps, handlers, audit>>

(* drive *)
Clear(t, d) ==
    /\ At(t, d, "clear")
    /\ tasks' = [tasks EXCEPT ![t].requested = FALSE]
    /\ Goes(t, d, "lock")
    /\ UNCHANGED <<units, caps, handlers, audit>>

Lock(t, d) ==
    /\ At(t, d, "lock")
    /\ tasks[t].lock = None
    /\ IF tasks[t].future = "gone"
       THEN /\ tasks' = [tasks EXCEPT ![t].polling = FALSE]
            /\ Goes(t, d, "end")
       ELSE /\ tasks' = [tasks EXCEPT ![t].lock = d]
            /\ Goes(t, d, IF tasks[t].future = "fresh" THEN "poll" ELSE "await")
    /\ UNCHANGED <<units, caps, handlers, audit>>

Records(t, e) == audit' = [audit EXCEPT ![t] = Append(@, e)]

(* The future is ready: it goes, and its handler reference with it; the     *)
(* callback is taken out and the lock given back.                           *)
Finish(t, d, r) ==
    /\ tasks' = [tasks EXCEPT ![t].future = "gone", ![t].callback = FALSE,
          ![t].lock = None, ![t].handler = None, ![t].result = r,
          ![t].completion = IF @ = "ready" THEN "consumed" ELSE @]
    /\ handlers' = IF tasks[t].handler = None THEN handlers
                   ELSE Dropped(tasks[t].handler, 1)
    /\ Goes(t, d, IF tasks[t].callback THEN "deliver" ELSE "recheck")

(* An outcome counts only once its event is recorded. *)
FinishAudited(t, d, e, r) ==
    \/ Records(t, e) /\ Finish(t, d, r)
    \/ UNCHANGED audit /\ Finish(t, d, "audit")

(* Dispatcher::dispatch up to the handler: resolve, authorize, validate,    *)
(* record the start.                                                        *)
Refuse(t, d) ==
    /\ At(t, d, "poll")
    /\ IF tasks[t].handler = None
       THEN FinishAudited(t, d, "not_found", "not_found")
       ELSE \/ FinishAudited(t, d, "denied", "denied")
            \/ FinishAudited(t, d, "invalid_input", "invalid_input")
            \/ UNCHANGED audit /\ Finish(t, d, "audit")
    /\ UNCHANGED <<units, caps>>

(* ForeignHandler::invoke calls the host, the task's lock held. *)
Invoke(t, d) ==
    /\ At(t, d, "poll")
    /\ tasks[t].handler # None
    /\ Records(t, "started")
    /\ tasks' = [tasks EXCEPT ![t].future = "waiting",
                              ![t].completion = "pending"]
    /\ Goes(t, d, "invoking")
    /\ UNCHANGED <<units, caps, handlers>>

InvokeReturns(t, d) ==
    /\ At(t, d, "invoking")
    /\ Goes(t, d, "await")
    /\ UNCHANGED <<units, caps, handlers, tasks, audit>>

(* ForeignHandlerFuture::poll, and the rest of the dispatch once the        *)
(* handler's result is there.                                               *)
Await(t, d) ==
    /\ At(t, d, "await")
    /\ IF tasks[t].completion = "ready"
       THEN \/ FinishAudited(t, d, "succeeded", "ok")
            \/ FinishAudited(t, d, "handler_failed", "failed")
       ELSE /\ tasks' = [tasks EXCEPT ![t].completion = "waker", ![t].lock = None]
            /\ Goes(t, d, "recheck")
            /\ UNCHANGED <<handlers, audit>>
    /\ UNCHANGED <<units, caps>>

Deliver(t, d) ==
    /\ At(t, d, "deliver")
    /\ tasks' = [tasks EXCEPT ![t].polling = FALSE]
    /\ Goes(t, d, "call")
    /\ UNCHANGED <<units, caps, handlers, audit>>

(* DispatchCallback::call *)
Call(t, d) ==
    /\ At(t, d, "call")
    /\ tasks' = [tasks EXCEPT ![t].calls = @ + 1]
    /\ Goes(t, d, "end")
    /\ UNCHANGED <<units, caps, handlers, audit>>

Recheck(t, d) ==
    /\ At(t, d, "recheck")
    /\ tasks' = [tasks EXCEPT ![t].requested = FALSE]
    /\ Goes(t, d, IF tasks[t].requested THEN "clear" ELSE "unpoll")
    /\ UNCHANGED <<units, caps, handlers, audit>>

(* Mutated Unpoll: whoever asked in between is not looked for. *)
UnpollAndLeave(t, d) ==
    /\ At(t, d, "unpoll")
    /\ tasks' = [tasks EXCEPT ![t].polling = FALSE]
    /\ Goes(t, d, "end")
    /\ UNCHANGED <<units, caps, handlers, audit>>

Unpoll(t, d) ==
    /\ At(t, d, "unpoll")
    /\ tasks' = [tasks EXCEPT ![t].polling = FALSE]
    /\ Goes(t, d, "recheck2")
    /\ UNCHANGED <<units, caps, handlers, audit>>

(* Mutated RecheckUnpolled: the request found is left to another thread. *)
RecheckTrusting(t, d) ==
    /\ At(t, d, "recheck2")
    /\ tasks' = [tasks EXCEPT ![t].requested = FALSE]
    /\ Goes(t, d, "end")
    /\ UNCHANGED <<units, caps, handlers, audit>>

RecheckUnpolled(t, d) ==
    /\ At(t, d, "recheck2")
    /\ tasks' = [tasks EXCEPT ![t].requested = FALSE]
    /\ Goes(t, d, IF tasks[t].requested THEN "cas2" ELSE "end")
    /\ UNCHANGED <<units, caps, handlers, audit>>

-----------------------------------------------------------------------------
(* The host completes the handler *)

(* complete_foreign_handler: whatever the payload is, one result is stored; *)
(* the waker, if the future left one, is called outside the lock.           *)
Complete(t) ==
    /\ tasks[t].completion \in {"pending", "waker"}
    /\ tasks' = [tasks EXCEPT ![t].completion = "ready"]
    /\ Goes(t, "completer",
            IF tasks[t].completion = "waker" THEN "request" ELSE "end")
    /\ UNCHANGED <<units, caps, handlers, audit>>

Drive(t, d) ==
    \/ Request(t, d) \/ Elect(t, d) \/ Clear(t, d) \/ Lock(t, d)
    \/ Refuse(t, d) \/ Invoke(t, d) \/ InvokeReturns(t, d) \/ Await(t, d)
    \/ Deliver(t, d) \/ Call(t, d)
    \/ Recheck(t, d) \/ Unpoll(t, d) \/ RecheckUnpolled(t, d)

Host ==
    \/ Retain \/ Close
    \/ \E c \in Caps : Register(c) \/ Unregister(c)
    \/ \E t \in Tasks, c \in Caps : StartDispatch(t, c)
    \/ \E t \in Tasks : Complete(t)

Next == Host \/ \E t \in Tasks, d \in Drivers : Drive(t, d)

Spec == Init /\ [][Next]_vars

-----------------------------------------------------------------------------
(* Properties *)

(* No wake-up is lost: when no thread drives a task any more, either its    *)
(* future is gone and the caller was called, or the handler has not         *)
(* completed and will find the waker (capabilities.rs:408-459).             *)
NoLostWakeup ==
    \A t \in Tasks :
        /\ tasks[t].future # "none"
        /\ \A d \in Drivers : pc[t][d] \in {"idle", "end"}
        => \/ tasks[t].future = "gone" /\ tasks[t].calls = 1
           \/ tasks[t].future = "waiting" /\ tasks[t].completion = "waker"

(* One thread polls at a time, it owns the polling flag, and the caller is  *)
(* called once, with no future left behind (capabilities.rs:408-459).       *)
PolledByOne ==
    \A t \in Tasks :
        /\ tasks[t].calls <= 1
        /\ tasks[t].calls = 1 => tasks[t].future = "gone"
        /\ LET inside == {d \in Drivers : pc[t][d] \in
                 {"clear", "lock", "poll", "invoking", "await", "recheck",
                  "unpoll", "deliver"}} IN
           /\ Cardinality(inside) <= 1
           /\ inside # {} => tasks[t].polling

(* The host's context is counted once for its registration and once for     *)
(* every future that has not ended, and is released when the count is used  *)
(* up: never while a call of it can still run (capabilities.rs:69-95,       *)
(* 611-645, 994-1044; lib.rs: bondry_store_close_v1).                       *)
ContextOutlivesCalls ==
    \A h \in Handlers :
        /\ handlers[h].count =
              Cardinality({c \in Caps : caps[c] = h})
              + Cardinality({t \in Tasks : tasks[t].handler = h})
        /\ handlers[h].state = "live" <=> handlers[h].count > 0

(* What the caller is told is in the audit log: a run is preceded by        *)
(* "started", a result by its own event, and a failed record never turns    *)
(* into a success (dispatch.rs:61-110).                                     *)
Audited ==
    \A t \in Tasks :
        /\ tasks[t].completion # "none" => audit[t] # <<>> /\ audit[t][1] = "started"
        /\ tasks[t].result = "ok" => audit[t] = <<"started", "succeeded">>
        /\ tasks[t].result = "failed" => audit[t] = <<"started", "handler_failed">>
        /\ tasks[t].result \in {"not_found", "denied", "invalid_input"} =>
              audit[t] = <<tasks[t].result>>

(* Every dispatch that was accepted calls its caller back once its handler  *)
(* completes (capabilities.rs:994-1044).                                    *)
Dispatched(t) == tasks[t].future = "fresh"
Told(t) == tasks[t].calls = 1
=============================================================================
