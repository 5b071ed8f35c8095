----------------------------- MODULE ServerAbi ------------------------------
(***************************************************************************)
(* Servers started and stopped through the C ABI, and the dispatches their *)
(* requests send to the runtime:                                           *)
(* crates/ffi/bondry-local-server-ffi/src/lib.rs.                          *)
(*                                                                         *)
(* A server holds one ownership unit of the runtime's store handle.  A     *)
(* dispatch hands the runtime a completion allocation, which the runtime   *)
(* gives back in exactly one callback (module CapabilityDispatch), on any  *)
(* thread and possibly before the call returns; the request that waits for *)
(* it may be gone by then, and so may its server.                          *)
(***************************************************************************)
EXTENDS Integers, FiniteSets

CONSTANTS Servers, Dispatches, None

VARIABLES
    hostUnits,   \* units of the store handle the host holds
    units,       \* all units of the store handle
    servers,     \* the servers' handles
    status,      \* what the last start or stop of a server returned
    dispatches   \* dispatches of the servers' requests

vars == <<hostUnits, units, servers, status, dispatches>>

(* How a server is started; only the unix start can fail after the server   *)
(* runs, when its path does not fit the record it is returned in.           *)
Kinds == {"http", "rest", "tls", "unix"}
Stages == {"none", "retained", "launched", "running", "stopped"}

(* box: the completion allocation - with the caller until the runtime has   *)
(* accepted it.  waiter: the future that awaits the receiver.               *)
Dispatch == [server : Servers \cup {None},
             box : {"none", "caller", "runtime", "freed"},
             waiter : {"none", "waiting", "answered", "refused", "gone"},
             sent : BOOLEAN]
NewDispatch == [server |-> None, box |-> "none", waiter |-> "none",
                sent |-> FALSE]

(* Types; the store handle has no more units than holders                   *)
(* (lib.rs:199-227, 322-327).                                               *)
TypeOK ==
    /\ hostUnits \in 0 .. 1
    /\ units \in 0 .. 1 + Cardinality(Servers)
    /\ servers \in [Servers -> [stage : Stages, kind : Kinds \cup {None}]]
    /\ status \in [Servers -> {"none", "ok", "failed", "stop"}]
    /\ dispatches \in [Dispatches -> Dispatch]

Init ==
    /\ hostUnits = 1
    /\ units = 1
    /\ servers = [s \in Servers |-> [stage |-> "none", kind |-> None]]
    /\ status = [s \in Servers |-> "none"]
    /\ dispatches = [d \in Dispatches |-> NewDispatch]

-----------------------------------------------------------------------------
(* The host *)

(* The store must stay live while it is being retained. *)
HostCloses ==
    /\ hostUnits > 0
    /\ hostUnits' = 0
    /\ units' = units - 1
    /\ UNCHANGED <<servers, status, dispatches>>

Returns(s, r) == status' = [status EXCEPT ![s] = r]
Idle(s) == servers[s].stage \in {"none", "stopped"}

(* A start returns before the store handle is retained: a null pointer, a   *)
(* length or a size, JSON or its shape, the TLS identity, or a store handle *)
(* that cannot be retained.  Outputs were zeroed first.                     *)
RefuseStart(s) ==
    /\ hostUnits > 0
    /\ Idle(s)
    /\ servers' = [servers EXCEPT ![s] = [stage |-> "none", kind |-> None]]
    /\ Returns(s, "failed")
    /\ UNCHANGED <<hostUnits, units, dispatches>>

(* RuntimeHandle::retain *)
Retain(s, kind) ==
    /\ hostUnits > 0
    /\ Idle(s)
    /\ servers' = [servers EXCEPT ![s] = [stage |-> "retained", kind |-> kind]]
    /\ units' = units + 1
    /\ Returns(s, "none")
    /\ UNCHANGED <<hostUnits, dispatches>>

(* The server's thread runs; its requests may come before the start has     *)
(* returned.                                                                *)
Launch(s) ==
    /\ servers[s].stage = "retained"
    /\ servers' = [servers EXCEPT ![s].stage = "launched"]
    /\ UNCHANGED <<hostUnits, units, status, dispatches>>

(* The configuration is refused, an adapter cannot be mounted, or the       *)
(* socket cannot be bound (module ServerConfig says when).                  *)
FailStart(s) ==
    /\ servers[s].stage = "retained"
    /\ servers' = [servers EXCEPT ![s].stage = "none"]
    /\ units' = units - 1
    /\ Returns(s, "failed")
    /\ UNCHANGED <<hostUnits, dispatches>>

Return(s) ==
    /\ servers[s].stage = "launched"
    /\ servers' = [servers EXCEPT ![s].stage = "running"]
    /\ Returns(s, "ok")
    /\ UNCHANGED <<hostUnits, units, dispatches>>

(* The futures of a server go when its connections do. *)
Abandoned(s) ==
    [d \in Dispatches |->
        IF dispatches[d].server = s /\ dispatches[d].waiter = "waiting"
        THEN [dispatches[d] EXCEPT !.waiter = "gone"] ELSE dispatches[d]]

(* Between two polls of the server's thread. *)
NotCalling(s) ==
    \A d \in Dispatches :
        dispatches[d].server = s => dispatches[d].box # "caller"

(* The path does not fit the endpoint record: dropping the server stops it. *)
FailEndpoint(s) ==
    /\ servers[s].stage = "launched"
    /\ servers[s].kind = "unix"
    /\ NotCalling(s)
    /\ servers' = [servers EXCEPT ![s].stage = "none"]
    /\ units' = units - 1
    /\ Returns(s, "failed")
    /\ dispatches' = Abandoned(s)
    /\ UNCHANGED hostUnits

(* stop consumes the handle and ends the server, in time or not. *)
Stop(s) ==
    /\ servers[s].stage = "running"
    /\ NotCalling(s)
    /\ servers' = [servers EXCEPT ![s].stage = "stopped"]
    /\ units' = units - 1
    /\ \E r \in {"ok", "stop"} : Returns(s, r)
    /\ dispatches' = Abandoned(s)
    /\ UNCHANGED hostUnits

-----------------------------------------------------------------------------
(* RuntimeHandle::dispatch, on the server's thread *)

Begin(d, s) ==
    /\ servers[s].stage \in {"launched", "running"}
    /\ dispatches[d].box = "none"
    /\ dispatches' = [dispatches EXCEPT ![d] =
          [server |-> s, box |-> "caller", waiter |-> "waiting", sent |-> FALSE]]
    /\ UNCHANGED <<hostUnits, units, servers, status>>

(* The runtime refuses: the allocation is taken back. *)
Refused(d) ==
    /\ dispatches[d].box = "caller"
    /\ dispatches' = [dispatches EXCEPT ![d].box = "freed", ![d].waiter = "refused"]
    /\ UNCHANGED <<hostUnits, units, servers, status>>

Accepted(d) ==
    /\ dispatches[d].box = "caller"
    /\ dispatches' = [dispatches EXCEPT ![d].box = "runtime"]
    /\ UNCHANGED <<hostUnits, units, servers, status>>

(* complete_dispatch: the result is copied, or an error takes its place;    *)
(* nobody may be there to receive it.                                       *)
CompleteDispatch(d) ==
    /\ dispatches[d].box = "runtime"
    /\ dispatches' = [dispatches EXCEPT ![d].box = "freed",
                         ![d].sent = dispatches[d].waiter = "waiting"]
    /\ UNCHANGED <<hostUnits, units, servers, status>>

(* decode_dispatch_result maps every outcome to an answer. *)
Receive(d) ==
    /\ dispatches[d].waiter = "waiting"
    /\ dispatches[d].sent
    /\ dispatches' = [dispatches EXCEPT ![d].waiter = "answered"]
    /\ UNCHANGED <<hostUnits, units, servers, status>>

(* The request times out, or its connection ends. *)
GiveUp(d) ==
    /\ dispatches[d].waiter = "waiting"
    /\ dispatches[d].box # "caller"
    /\ dispatches' = [dispatches EXCEPT ![d].waiter = "gone"]
    /\ UNCHANGED <<hostUnits, units, servers, status>>

Next ==
    \/ HostCloses
    \/ \E s \in Servers :
          \/ RefuseStart(s) \/ \E k \in Kinds : Retain(s, k)
          \/ Launch(s) \/ FailStart(s) \/ Return(s) \/ FailEndpoint(s) \/ Stop(s)
    \/ \E d \in Dispatches :
          \/ \E s \in Servers : Begin(d, s)
          \/ Refused(d) \/ Accepted(d) \/ CompleteDispatch(d)
          \/ Receive(d) \/ GiveUp(d)

Spec == Init /\ [][Next]_vars

-----------------------------------------------------------------------------
(* Properties *)

Holding == {s \in Servers : servers[s].stage \in {"retained", "launched", "running"}}

(* The store handle outlives every server that uses it, and no failed start *)
(* or stop keeps or loses a unit of it, whether or not the host has closed  *)
(* its own (lib.rs:199-227, 322-327).                                       *)
UnitsExact == units = hostUnits + Cardinality(Holding)

(* A start is all or nothing: no request of a server whose start failed, or *)
(* that was stopped, still waits or is in a call of the runtime with a      *)
(* handle the server no longer holds (lib.rs:450-466, 926-935).             *)
NothingRunsAfterFailure ==
    \A d \in Dispatches :
        dispatches[d].box = "caller" =>
            dispatches[d].server \in Holding /\ units > 0

(* The runtime never calls back into an allocation that is gone, and an     *)
(* allocation is freed although nobody waits for it any more                *)
(* (lib.rs:279-320, 1395-1409).                                             *)
BoxesFreedOnce ==
    \A d \in Dispatches :
        /\ dispatches[d].box = "freed" => dispatches'[d].box = "freed"
        /\ dispatches[d].box = "runtime" /\ dispatches'[d].box = "freed" =>
              dispatches'[d].waiter = dispatches[d].waiter

(* A request that waits for a dispatch is answered, unless it gives up      *)
(* (lib.rs:309-320).                                                        *)
Waiting(d) == dispatches[d].waiter = "waiting"
=============================================================================
