------------------------------ MODULE EgressAbi ------------------------------
(***************************************************************************)
(* The C ABI of egress (crates/ffi/bondry-egress-ffi/src/ffi.rs): the      *)
(* engine's handle, the contexts it retains from the host, the results the *)
(* host owns, and the status of every call.                                *)
(*                                                                         *)
(* Threads of the host call on one handle.  An entry point is the sequence *)
(* of its steps; each fails with its own statuses, and a call that fails   *)
(* drops what its earlier steps acquired.  The engine behind the handle is *)
(* reduced to what it promises: EgressRuntime models it.                   *)
(***************************************************************************)
EXTENDS Naturals, Sequences, FiniteSets

CONSTANTS
    Threads,
    Deliveries,
    MaxResults      \* results the host keeps at a time

VARIABLES
    handle,     \* "none", "live" or "stopped"
    held,       \* units of the host's contexts and the store the engine has
    boxes,      \* results in memory
    owned,      \* results the host was given and has not released
    journal,    \* the delivery log: what became of each delivery
    sent,       \* how often each delivery went out
    call        \* what each thread of the host is doing

vars == <<handle, held, boxes, owned, journal, sent, call>>
engine == <<handle, held, boxes, owned, journal, sent>>

Contexts == {"log", "secrets", "transport"}

(* The steps of every entry point, in the code's order. *)
Starting == <<"out", "clear", "pointers", "bytes", "config", "log", "secrets", "transport", "runtime">>
Registering == <<"handle", "bytes", "config", "run">>
RouteOperation == <<"handle", "route", "run">>
Emitting == <<"handle", "route", "delivery", "payload", "run">>

Calling == <<"out", "clear", "handle", "bound", "route", "delivery", "payload", "run", "size", "give">>

Discovering == <<"out", "clear", "handle", "bytes", "config", "run", "give">>
Listing == <<"clear", "handle", "run", "write">>
Querying == <<"out", "clear", "handle", "delivery", "run">>
Borrowing == <<"out", "clear", "result", "lend">>

Entry(op) ==
    CASE op = "start" -> Starting
      [] op = "register" -> Registering
      [] op \in {"enable", "disable", "unregister"} -> RouteOperation
      [] op = "emit" -> Emitting
      [] op = "call" -> Calling
      [] op = "discover" -> Discovering
      [] op = "routes" -> Listing
      [] op = "status" -> Querying
      [] op = "result" -> Borrowing

Operations == {"start", "register", "enable", "disable", "unregister", "emit", "call", "discover",
               "routes", "status", "result"}
Delivering == {"emit", "call"}

(* required_bytes, required_identifier, configuration_status *)
BytesStatus == {"null_pointer", "invalid_length", "payload_too_large"}
InputStatus(step) ==
    CASE step \in {"out", "pointers", "handle", "result"} -> {"null_pointer"}
      [] step \in {"bytes", "payload"} -> BytesStatus
      [] step = "config" -> {"invalid_json", "invalid_argument"}
      [] step \in {"route", "delivery"} -> BytesStatus \cup {"invalid_utf8", "invalid_argument"}
      [] step = "bound" -> {"invalid_argument"}
InputSteps == {"out", "pointers", "handle", "result", "bytes", "payload", "config", "route",
               "delivery", "bound"}

(* delivery_log_error_status *)
LogErrorStatus ==
    [Conflict |-> "already_exists", CapacityExhausted |-> "capacity_exhausted",
     NotFound |-> "not_found", InvalidTransition |-> "delivery_log", Unavailable |-> "delivery_log"]
(* admission_error_status *)
AdmissionErrorStatus ==
    [RouteNotFound |-> "not_found", RouteDisabled |-> "route_disabled",
     UnsupportedOperation |-> "unsupported_operation", PayloadTooLarge |-> "payload_too_large",
     PayloadInvalidJson |-> "invalid_json", PayloadOther |-> "invalid_argument",
     GlobalRateLimited |-> "global_rate_limited", RouteRateLimited |-> "route_rate_limited",
     KindUnsupported |-> "unsupported_operation", KindOther |-> "invalid_argument"]
(* route_error_status *)
RouteErrorStatus ==
    [AlreadyExists |-> "already_exists", CapacityExhausted |-> "capacity_exhausted",
     PayloadLimitUnsupported |-> "invalid_argument", NotFound |-> "not_found"]
(* start_error_status *)
StartErrorStatus ==
    [Recovery |-> "delivery_log", Thread |-> "start_failed", Runtime |-> "start_failed",
     Startup |-> "start_failed"]
(* discovery_error_status *)
DiscoveryErrorStatus ==
    [SecretUnavailable |-> "discovery_secret", EndpointPolicy |-> "discovery_endpoint_policy",
     DeadlineExceeded |-> "discovery_deadline", Unavailable |-> "discovery_unavailable",
     ResponseTooLarge |-> "discovery_response_too_large",
     UnsupportedProtocol |-> "discovery_unsupported_protocol",
     UnsupportedResponseMode |-> "discovery_unsupported_response_mode",
     Rejected |-> "discovery_rejected", InvalidResponse |-> "discovery_invalid_response",
     ToolLimitExceeded |-> "discovery_tool_limit", InvalidToolSchema |-> "discovery_invalid_schema",
     InvalidState |-> "internal_failure", InvalidRequest |-> "internal_failure"]

StatusesOf(table) == {table[e] : e \in DOMAIN table}

(* runtime_error_status: what the engine answers without having accepted *)
RefusedStatus(op) ==
    {"busy", "stopped"}
    \cup (IF op \in Delivering
          THEN StatusesOf(AdmissionErrorStatus) \cup {"capacity_exhausted", "delivery_log"}
          ELSE StatusesOf(RouteErrorStatus) \cup {"route_draining"})
    \cup (IF op = "emit" THEN {"pending_capacity", "pending_bytes"} ELSE {})
    \cup (IF op = "call" THEN {"call_capacity"} ELSE {})

(* encode_delivery_status and encode_failure: state, outcome and failure *)
FailureCodes ==
    <<"cancelled", "deadline_exceeded", "endpoint_policy", "secret_unavailable",
      "transport_unavailable", "receiver_rejected", "retry_exhausted", "internal">>
Failed(code) == [state |-> "terminal", outcome |-> "failed", failure |-> FailureCodes[code]]
Delivered == [state |-> "terminal", outcome |-> "delivered", failure |-> "none"]
Pending == [state |-> "pending", outcome |-> "none", failure |-> "none"]
Unrecorded == [state |-> "none", outcome |-> "none", failure |-> "none"]
Code(codes, name) == CHOOSE i \in DOMAIN codes : codes[i] = name
Blank == <<0, 0, 0>>

EncodeDeliveryStatus(record) ==
    <<IF record.state = "pending" THEN 1 ELSE 2,
      CASE record.outcome = "none" -> 0
        [] record.outcome = "delivered" -> 1
        [] record.outcome = "failed" -> 2
        [] record.outcome = "lost_on_shutdown" -> 3
        [] record.outcome = "unknown_after_crash" -> 4,
      IF record.outcome = "failed" THEN Code(FailureCodes, record.failure) ELSE 0>>

-----------------------------------------------------------------------------
NoCall == [op |-> "none", at |-> 1, fault |-> "none", status |-> "none", out |-> "stale",
           d |-> "none", own |-> {}, recorded |-> FALSE, seen |-> Blank]
Step(t) == Entry(call[t].op)[call[t].at]
Running(t) == call[t].op # "none" /\ call[t].status = "none"
Returned(t) == call[t].status # "none"

(* Types.  A call owns the contexts of a start that has not succeeded yet,  *)
(* and every unit held is owned by such a call or by the live handle        *)
(* (ffi.rs:203-251).                                                        *)
TypeOK ==
    /\ handle \in {"none", "live", "stopped"}
    /\ held \in [Contexts -> 0 .. 1]
    /\ boxes \in 0 .. MaxResults + Cardinality(Threads)
    /\ owned \in 0 .. MaxResults + Cardinality(Threads)
    /\ \A t \in Threads :
          /\ call[t].own \subseteq Contexts
          /\ Running(t) => call[t].at \in DOMAIN Entry(call[t].op)
          /\ call[t].own # {} => call[t].op = "start"

Init ==
    /\ handle = "none"
    /\ held = [c \in Contexts |-> 0]
    /\ boxes = 0
    /\ owned = 0
    /\ journal = [d \in Deliveries |-> Unrecorded]
    /\ sent = [d \in Deliveries |-> 0]
    /\ call = [t \in Threads |-> NoCall]

OnHandle(op) == \E i \in DOMAIN Entry(op) : Entry(op)[i] = "handle"

(* The host calls, with at most one argument that is wrong: the first wrong *)
(* one decides; and with one such call at a time, as a test of an argument  *)
(* changes nothing that others see.  It calls on a live handle or on null,  *)
(* starts one engine, and reads results it has.                             *)
Begin(t, op, fault, d) ==
    /\ fault # "none" => fault \in InputSteps /\ \E i \in DOMAIN Entry(op) : Entry(op)[i] = fault
    /\ fault # "none" => \A u \in Threads : call[u].fault = "none"
    /\ OnHandle(op) /\ fault # "handle" => handle = "live"
    /\ op = "start" => handle = "none" /\ \A u \in Threads : call[u].op # "start"
    /\ op = "result" /\ fault # "result" => owned > 0
    /\ op \in {"call", "discover"} => owned < MaxResults
    /\ call' = [call EXCEPT ![t] = [NoCall EXCEPT !.op = op, !.fault = fault, !.d = d]]
    /\ UNCHANGED engine

Goes(t) == call' = [call EXCEPT ![t].at = @ + 1]
(* A call that returns drops what it owns; the handle took what a start     *)
(* that succeeded acquired.                                                 *)
Ends(t, status, out) ==
    /\ call' = [call EXCEPT ![t].status = status, ![t].out = out, ![t].own = {}]
    /\ held' = IF status = "ok" THEN held
               ELSE [c \in Contexts |-> IF c \in call[t].own THEN 0 ELSE held[c]]

(* A test of an argument *)
Test(t) ==
    /\ Running(t)
    /\ Step(t) \in InputSteps
    /\ IF Step(t) = call[t].fault
       THEN /\ \E status \in InputStatus(Step(t)) : Ends(t, status, call[t].out)
            /\ UNCHANGED <<handle, boxes, owned, journal, sent>>
       ELSE Goes(t) /\ UNCHANGED engine

(* The output pointer is written null before anything else is looked at. *)
Clear(t) ==
    /\ Running(t)
    /\ Step(t) = "clear"
    /\ call' = [call EXCEPT ![t].at = @ + 1, ![t].out = "null"]
    /\ UNCHANGED engine

(* ForeignDeliveryLog::derive, ForeignSecretProvider::retain,               *)
(* ForeignHttpTransport::retain: in this order, each may refuse             *)
Acquire(t) ==
    /\ Running(t)
    /\ Step(t) \in Contexts
    /\ \/ /\ held' = [held EXCEPT ![Step(t)] = 1]
          /\ call' = [call EXCEPT ![t].at = @ + 1, ![t].own = @ \cup {Step(t)}]
       \/ Ends(t, IF Step(t) = "log" THEN "delivery_log" ELSE "invalid_argument", "null")
    /\ UNCHANGED <<handle, boxes, owned, journal, sent>>

(* EgressRuntime::start, and the handle made of it *)
StartRuntime(t) ==
    /\ Running(t)
    /\ Step(t) = "runtime"
    /\ \/ Ends(t, "ok", "handle") /\ handle' = "live"
       \/ /\ \E status \in StatusesOf(StartErrorStatus) \cup StatusesOf(LogErrorStatus) :
                Ends(t, status, "null")
          /\ UNCHANGED handle
    /\ UNCHANGED <<boxes, owned, journal, sent>>

(* Register, enable, disable and unregister: the engine's answer passed on *)
RunRoute(t) ==
    /\ Running(t)
    /\ Step(t) = "run"
    /\ call[t].op \in {"register", "enable", "disable", "unregister"}
    /\ \E status \in {"ok"} \cup RefusedStatus(call[t].op) : Ends(t, status, call[t].out)
    /\ UNCHANGED <<handle, boxes, owned, journal, sent>>

Recorded(d, record) == journal' = [journal EXCEPT ![d] = record]

(* The engine refuses, or finds the delivery in its log, before it accepts. *)
Refuse(t) ==
    /\ Running(t)
    /\ Step(t) = "run"
    /\ call[t].op \in Delivering
    /\ \/ \E status \in RefusedStatus(call[t].op) : Ends(t, status, call[t].out)
       \/ journal[call[t].d] # Unrecorded /\ Ends(t, LogErrorStatus.Conflict, call[t].out)
    /\ UNCHANGED <<handle, boxes, owned, journal, sent>>

(* The engine accepts an event: it is in the log, and goes out in its time. *)
Accept(t) ==
    LET d == call[t].d
    IN  /\ Running(t)
        /\ Step(t) = "run"
        /\ call[t].op = "emit"
        /\ journal[d] = Unrecorded
        /\ Recorded(d, Pending)
        /\ sent' = [sent EXCEPT ![d] = @ + 1]
        /\ call' = [call EXCEPT ![t].status = "ok", ![t].recorded = TRUE]
        /\ UNCHANGED <<handle, held, boxes, owned>>

(* The engine records and makes a call and its outcome is terminal; or the  *)
(* log fails before the call goes out, and the call says so.                *)
RunCall(t) ==
    LET d == call[t].d
    IN  /\ Running(t)
        /\ Step(t) = "run"
        /\ call[t].op = "call"
        /\ journal[d] = Unrecorded
        /\ \/ /\ Recorded(d, Failed(8))
              /\ call' = [call EXCEPT ![t].status = "delivery_log", ![t].recorded = TRUE]
              /\ UNCHANGED sent
           \/ /\ sent' = [sent EXCEPT ![d] = @ + 1]
              /\ \/ /\ Recorded(d, Failed(6))
                    /\ call' = [call EXCEPT ![t].status = "call_failed", ![t].recorded = TRUE]
                 \/ /\ Recorded(d, Delivered)
                    /\ call' = [call EXCEPT ![t].at = @ + 1, ![t].recorded = TRUE]
        /\ UNCHANGED <<handle, held, boxes, owned>>

(* An event that was accepted ends. *)
Finish(d) ==
    /\ journal[d] = Pending
    /\ \E record \in {Delivered, Failed(1)} : Recorded(d, record)
    /\ UNCHANGED <<handle, held, boxes, owned, sent, call>>

(* execute_discovery, as one step: McpDiscovery models it *)
RunDiscovery(t) ==
    /\ Running(t)
    /\ Step(t) = "run"
    /\ call[t].op = "discover"
    /\ \/ Goes(t) /\ UNCHANGED engine
       \/ /\ \E status \in StatusesOf(DiscoveryErrorStatus) : Ends(t, status, "null")
          /\ UNCHANGED <<handle, boxes, owned, journal, sent>>

(* A result longer than the host's bound is dropped; the call was made. *)
Measure(t) ==
    /\ Running(t)
    /\ Step(t) = "size"
    /\ \/ Goes(t) /\ UNCHANGED engine
       \/ /\ Ends(t, "result_too_large", "null")
          /\ UNCHANGED <<handle, boxes, owned, journal, sent>>

(* The result is boxed and its pointer written. *)
Give(t) ==
    /\ Running(t)
    /\ Step(t) = "give"
    /\ boxes' = boxes + 1
    /\ owned' = owned + 1
    /\ call' = [call EXCEPT ![t].status = "ok", ![t].out = "result"]
    /\ UNCHANGED <<handle, held, journal, sent>>

(* call_result_json, mcp_discovery_result_json: a view of an owned result *)
Lend(t) ==
    /\ Running(t)
    /\ Step(t) = "lend"
    /\ call' = [call EXCEPT ![t].status = "ok", ![t].out = "view"]
    /\ UNCHANGED engine

(* bondry_egress_routes_json: the engine's routes, or its error *)
RunRoutes(t) ==
    /\ Running(t)
    /\ Step(t) = "run"
    /\ call[t].op = "routes"
    /\ \/ Goes(t) /\ UNCHANGED engine
       \/ /\ \E status \in {"busy", "stopped"} : Ends(t, status, "null")
          /\ UNCHANGED <<handle, boxes, owned, journal, sent>>

(* write_bytes: the length is told before the buffer is looked at *)
Write(t) ==
    /\ Running(t)
    /\ Step(t) = "write"
    /\ \/ Ends(t, "null_pointer", "stale")
       \/ Ends(t, "ok", "length")
       \/ Ends(t, "ok", "bytes")
       \/ \E status \in {"null_pointer", "buffer_too_small"} : Ends(t, status, "length")
    /\ UNCHANGED <<handle, boxes, owned, journal, sent>>

(* delivery_status: found or not, the record as codes *)
Query(t) ==
    /\ Running(t)
    /\ Step(t) = "run"
    /\ call[t].op = "status"
    /\ \/ /\ journal[call[t].d] = Unrecorded
          /\ Ends(t, "ok", "null")
       \/ /\ journal[call[t].d] # Unrecorded
          /\ call' = [call EXCEPT ![t].status = "ok", ![t].out = "record",
                                  ![t].seen = EncodeDeliveryStatus(journal[call[t].d])]
          /\ UNCHANGED held
       \/ \E status \in {"busy", "stopped"} \cup StatusesOf(LogErrorStatus) : Ends(t, status, "null")
    /\ UNCHANGED <<handle, boxes, owned, journal, sent>>

Read(t) ==
    /\ Returned(t)
    /\ call' = [call EXCEPT ![t] = NoCall]
    /\ UNCHANGED engine

(* call_result_release, mcp_discovery_result_release: no view is in use *)
ReleaseResult ==
    /\ owned > 0
    /\ \A t \in Threads : call[t].op # "result"
    /\ boxes' = boxes - 1
    /\ owned' = owned - 1
    /\ UNCHANGED <<handle, held, journal, sent, call>>

(* bondry_egress_stop: the handle is consumed whatever the engine answers,  *)
(* and its contexts with it.  Results the host has stay its own.  What did  *)
(* not end is lost.                                                         *)
Stop ==
    /\ handle = "live"
    /\ \A t \in Threads : call[t] # NoCall => ~OnHandle(call[t].op)
    /\ handle' = "stopped"
    /\ held' = [c \in Contexts |-> 0]
    /\ journal' = [d \in Deliveries |->
                     IF journal[d] = Pending THEN [Pending EXCEPT !.state = "terminal", !.outcome = "lost_on_shutdown"]
                     ELSE journal[d]]
    /\ UNCHANGED <<boxes, owned, sent, call>>

CallStep(t) ==
    \/ Test(t) \/ Clear(t) \/ Acquire(t) \/ StartRuntime(t)
    \/ RunRoute(t) \/ Refuse(t) \/ Accept(t) \/ RunCall(t) \/ RunDiscovery(t)
    \/ Measure(t) \/ Give(t) \/ Lend(t) \/ RunRoutes(t) \/ Write(t) \/ Query(t)

Next ==
    \/ \E t \in Threads :
          \/ /\ call[t] = NoCall
             /\ \E op \in Operations, fault \in InputSteps \cup {"none"}, d \in Deliveries :
                   Begin(t, op, fault, d)
          \/ CallStep(t)
          \/ Read(t)
    \/ \E d \in Deliveries : Finish(d)
    \/ ReleaseResult
    \/ Stop

Spec == Init /\ [][Next]_vars

-----------------------------------------------------------------------------
(* The engine has exactly the contexts it can still use: all three while    *)
(* the handle lives, those a start in progress acquired, none after a start *)
(* that failed at any step or after a stop (ffi.rs:203-273).                *)
ContextsBalanced ==
    \A c \in Contexts :
        held[c] = 1 <=> handle = "live" \/ \E t \in Threads : c \in call[t].own

(* A call that fails leaves no pointer behind: its output is null, or was   *)
(* never touched because there is none; an output that is set belongs to a  *)
(* call that succeeded (ffi.rs:199-202, 453-456, 565-568, 667-673).         *)
OutputTold ==
    \A t \in Threads :
        Returned(t) /\ call[t].status # "ok" /\ call[t].op # "routes" =>
            call[t].out = IF call[t].fault = "out" \/ ~\E i \in DOMAIN Entry(call[t].op) : Entry(call[t].op)[i] = "clear"
                          THEN "stale" ELSE "null"

(* Every result in memory is one the host was given and has not released:   *)
(* a result that is too large for its caller is not left behind, and a stop *)
(* takes none away (ffi.rs:487-499, 542-549).                               *)
ResultsBalanced == boxes = owned

(* The status of an emit or a call says whether this call entered the       *)
(* delivery in the log: yes for OK, a failed call and a result too large,   *)
(* perhaps for a log that failed, no for every other status, so that the    *)
(* host may repeat it (ffi.rs:398-499, 819-839).                   *)
StatusTruthful ==
    \A t \in Threads :
        Returned(t) /\ call[t].op \in Delivering =>
            /\ call[t].status \in {"ok", "call_failed", "result_too_large"} => call[t].recorded
            /\ call[t].recorded => call[t].status \in {"ok", "call_failed", "result_too_large", "delivery_log"}

(* However often and from however many threads the host repeats a delivery, *)
(* it goes out at most once, and only if it is in the log (ffi.rs:398-499). *)
AtMostOnce == \A d \in Deliveries : sent[d] <= 1 /\ (sent[d] = 1 => journal[d] # Unrecorded)

(* The codes of bondry.h for the state, the outcome and the failure *)
HeaderRecord(codes) ==
    CASE codes[1] = 1 -> Pending
      [] codes[2] = 1 -> Delivered
      [] codes[2] = 2 -> IF codes[3] \in 1 .. 8 THEN Failed(codes[3]) ELSE Unrecorded
      [] codes[2] = 3 -> [Pending EXCEPT !.state = "terminal", !.outcome = "lost_on_shutdown"]
      [] OTHER -> Unrecorded

(* The status a host reads, decoded by the header's constants, is a record  *)
(* the delivery had: a terminal one is its record for ever, a pending one   *)
(* may have ended since (ffi.rs:921-975).                                   *)
StatusReadsBack ==
    \A t \in Threads :
        call[t].seen # Blank =>
            LET record == HeaderRecord(call[t].seen)
            IN  record = journal[call[t].d] \/ (record = Pending /\ journal[call[t].d] # Unrecorded)
=============================================================================
