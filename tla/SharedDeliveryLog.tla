------------------------- MODULE SharedDeliveryLog -------------------------
(***************************************************************************)
(* Several egress runtimes over one persistent delivery log                *)
(* (crates/engine/bondry-egress-runtime/src/runtime.rs).  Every start      *)
(* recovers the log, also while another runtime holds deliveries of it;    *)
(* nothing in the code forbids it.                                         *)
(*                                                                         *)
(* An engine is reduced to the deliveries it holds and its writes.  The    *)
(* log answers every call: failing writes are in EgressRuntime.  Records   *)
(* are kept, as the retention is longer than a delivery takes.             *)
(***************************************************************************)
EXTENDS DeliveryRecords

CONSTANTS
    Engines,        \* runtimes that use the log
    MaxAttempts,    \* the retry policy's limit
    MaxStarts       \* bound: starts of a runtime

ASSUME SharedLogAssumption ==
    /\ MaxAttempts \in Nat \ {0}
    /\ MaxStarts \in Nat

VARIABLES
    log,         \* the records
    mode,        \* of each engine: "off", "on" or "stopping"
    held,        \* where each engine is with each delivery
    attempts,    \* the lifecycle's count for a delivery an engine holds
    degraded,    \* persistence_degraded of each engine
    overrides,   \* process-local terminal records of each engine
    sent,        \* how often each delivery was transmitted
    told,        \* the outcome with which each engine ended each delivery
    lost,        \* deliveries whose engine crashed while it held them
    starts       \* starts so far

vars == <<log, mode, held, attempts, degraded, overrides, sent, told, lost, starts>>

Places == {"none", "queued", "spawned", "sent"}
Nothing == [d \in Deliveries |-> "none"]

Init ==
    /\ log = EmptyLog
    /\ mode = [e \in Engines |-> "off"]
    /\ held = [e \in Engines |-> Nothing]
    /\ attempts = [e \in Engines |-> [d \in Deliveries |-> 0]]
    /\ degraded = [e \in Engines |-> FALSE]
    /\ overrides = [e \in Engines |-> Nothing]
    /\ sent = [d \in Deliveries |-> 0]
    /\ told = [e \in Engines |-> Nothing]
    /\ lost = {}
    /\ starts = 0

(* EgressRuntime::start: recover, then an empty engine. *)
Start(e) ==
    /\ mode[e] = "off"
    /\ starts < MaxStarts
    /\ starts' = starts + 1
    /\ log' = Recovered(log)
    /\ mode' = [mode EXCEPT ![e] = "on"]
    /\ degraded' = [degraded EXCEPT ![e] = FALSE]
    /\ overrides' = [overrides EXCEPT ![e] = Nothing]
    /\ told' = [told EXCEPT ![e] = Nothing]
    /\ UNCHANGED <<held, attempts, sent, lost>>

(* Mutated Admit: what a recovery marked unknown is taken again. *)
AdmitAgain(e, d) ==
    /\ mode[e] = "on" /\ ~degraded[e]
    /\ log[d].state \in {"absent", "unknown_after_crash"}
    /\ log' = WithIntent(log, d)
    /\ held' = [held EXCEPT ![e][d] = "queued"]
    /\ attempts' = [attempts EXCEPT ![e][d] = 0]
    /\ UNCHANGED <<mode, degraded, overrides, sent, told, lost, starts>>

(* admit_emit: a known identifier is a conflict and changes nothing. *)
Admit(e, d) ==
    /\ mode[e] = "on" /\ ~degraded[e]
    /\ log[d].state = "absent"
    /\ log' = WithIntent(log, d)
    /\ held' = [held EXCEPT ![e][d] = "queued"]
    /\ attempts' = [attempts EXCEPT ![e][d] = 0]
    /\ UNCHANGED <<mode, degraded, overrides, sent, told, lost, starts>>

(* Mutated End: any terminal record is taken for the engine's own. *)
EndTrusting(e, d, outcome, closes) ==
    LET persisted == AcceptsOutcome(log, d, outcome)
        kept == persisted \/ IsTerminal(log[d])
    IN  /\ log' = IF persisted THEN WithOutcome(log, d, outcome) ELSE log
        /\ degraded' = [degraded EXCEPT ![e] = @ \/ closes \/ ~kept]
        /\ overrides' = IF kept THEN overrides
                        ELSE [overrides EXCEPT ![e][d] = outcome]
        /\ held' = [held EXCEPT ![e][d] = "none"]
        /\ told' = [told EXCEPT ![e][d] = outcome]
        /\ UNCHANGED <<mode, sent, lost, starts>>

(* persist_terminal and finish_delivery: an outcome the log does not take is   *)
(* kept in the process, unless the log already says the same, and closes       *)
(* admission.                                                                  *)
End(e, d, outcome, closes) ==
    LET persisted == AcceptsOutcome(log, d, outcome)
        kept == persisted \/ log[d].state = outcome
    IN  /\ log' = IF persisted THEN WithOutcome(log, d, outcome) ELSE log
        /\ degraded' = [degraded EXCEPT ![e] = @ \/ closes \/ ~kept]
        /\ overrides' = IF kept THEN overrides
                        ELSE [overrides EXCEPT ![e][d] = outcome]
        /\ held' = [held EXCEPT ![e][d] = "none"]
        /\ told' = [told EXCEPT ![e][d] = outcome]
        /\ UNCHANGED <<mode, sent, lost, starts>>

(* Mutated StartAttempt: the attempt is made although the log refuses it. *)
StartAttemptUnheeded(e, d) ==
    LET n == attempts[e][d] + 1
    IN  /\ mode[e] # "off" /\ held[e][d] = "queued"
        /\ log' = IF AcceptsAttempt(log, d, n) THEN WithAttempt(log, d, n) ELSE log
        /\ attempts' = [attempts EXCEPT ![e][d] = n]
        /\ held' = [held EXCEPT ![e][d] = "spawned"]
        /\ UNCHANGED <<mode, degraded, overrides, sent, told, lost, starts>>

(* start_attempt: without the record there is no attempt, and the delivery fails. *)
StartAttempt(e, d) ==
    LET n == attempts[e][d] + 1
    IN  /\ mode[e] # "off" /\ held[e][d] = "queued"
        /\ AcceptsAttempt(log, d, n)
        /\ log' = WithAttempt(log, d, n)
        /\ attempts' = [attempts EXCEPT ![e][d] = n]
        /\ held' = [held EXCEPT ![e][d] = "spawned"]
        /\ UNCHANGED <<mode, degraded, overrides, sent, told, lost, starts>>

(* start_attempt without its record: nothing is sent, the delivery fails and *)
(* admission closes.                                                         *)
AttemptRefused(e, d) ==
    LET n == attempts[e][d] + 1
    IN  /\ mode[e] # "off" /\ held[e][d] = "queued"
        /\ ~AcceptsAttempt(log, d, n)
        /\ attempts' = [attempts EXCEPT ![e][d] = n]
        /\ End(e, d, "failed", TRUE)

(* The spawned task submits the request. *)
Transmit(e, d) ==
    /\ held[e][d] = "spawned"
    /\ sent' = [sent EXCEPT ![d] = @ + 1]
    /\ held' = [held EXCEPT ![e][d] = "sent"]
    /\ UNCHANGED <<log, mode, attempts, degraded, overrides, told, lost, starts>>

(* An attempt that is over leads to a retry or to the end of the delivery. *)
Retry(e, d) ==
    /\ mode[e] # "off"
    /\ held[e][d] \in {"spawned", "sent"}
    /\ attempts[e][d] < MaxAttempts
    /\ held' = [held EXCEPT ![e][d] = "queued"]
    /\ UNCHANGED <<log, mode, attempts, degraded, overrides, sent, told, lost, starts>>

Finish(e, d) ==
    /\ mode[e] # "off"
    /\ \/ held[e][d] = "sent" /\ End(e, d, "delivered", FALSE)
       \/ held[e][d] \in {"spawned", "sent"} /\ End(e, d, "failed", FALSE)
       \/ held[e][d] # "none" /\ End(e, d, "cancelled", FALSE)
    /\ UNCHANGED attempts

(* EgressRuntime::stop: the engine works on until the deadline, then gives up *)
(* what is left.                                                              *)
Stop(e) ==
    /\ mode[e] = "on"
    /\ mode' = [mode EXCEPT ![e] = "stopping"]
    /\ UNCHANGED <<log, held, attempts, degraded, overrides, sent, told, lost, starts>>

Shutdown(e, d) ==
    /\ mode[e] = "stopping"
    /\ held[e][d] # "none"
    /\ End(e, d, "lost_on_shutdown", FALSE)
    /\ UNCHANGED attempts

Stopped(e) ==
    /\ mode[e] = "stopping"
    /\ held[e] = Nothing
    /\ mode' = [mode EXCEPT ![e] = "off"]
    /\ UNCHANGED <<log, held, attempts, degraded, overrides, sent, told, lost, starts>>

(* The process of the runtime is killed. *)
Crash(e) ==
    /\ mode[e] # "off"
    /\ mode' = [mode EXCEPT ![e] = "off"]
    /\ held' = [held EXCEPT ![e] = Nothing]
    /\ lost' = lost \cup {d \in Deliveries : held[e][d] # "none"}
    /\ UNCHANGED <<log, attempts, degraded, overrides, sent, told, starts>>

Next ==
    \E e \in Engines :
        \/ Start(e) \/ Stop(e) \/ Stopped(e) \/ Crash(e)
        \/ \E d \in Deliveries :
              \/ Admit(e, d) \/ StartAttempt(e, d) \/ AttemptRefused(e, d)
              \/ Transmit(e, d) \/ Retry(e, d) \/ Finish(e, d) \/ Shutdown(e, d)

Spec == Init /\ [][Next]_vars

-----------------------------------------------------------------------------
(***************************************************************************)
(* Properties.                                                             *)
(***************************************************************************)

(* The state has its type, and no record counts more attempts than the limit. *)
TypeOK ==
    /\ log \in [Deliveries -> [state : LogStates, attempts : 0..MaxAttempts]]
    /\ mode \in [Engines -> {"off", "on", "stopping"}]
    /\ held \in [Engines -> [Deliveries -> Places]]
    /\ attempts \in [Engines -> [Deliveries -> 0..MaxAttempts]]
    /\ degraded \in [Engines -> BOOLEAN]
    /\ overrides \in [Engines -> [Deliveries -> Outcomes \cup {"none"}]]
    /\ sent \in [Deliveries -> Nat]
    /\ told \in [Engines -> [Deliveries -> Outcomes \cup {"none"}]]
    /\ lost \in SUBSET Deliveries
    /\ starts \in 0..MaxStarts

(* insert_intent decides which runtime a delivery belongs to: no two hold the *)
(* same one, whatever recovery does in between.                               *)
HeldOnce ==
    \A d \in Deliveries, e, f \in Engines :
        held[e][d] # "none" /\ held[f][d] # "none" => e = f

(* start_attempt records before it sends: the transmissions of all runtimes *)
(* together are never more than the record says.                            *)
SentRecorded == \A d \in Deliveries : sent[d] <= log[d].attempts

(* delivery_status: overrides before the log. *)
Status(e, d) == IF overrides[e][d] # "none" THEN overrides[e][d] ELSE log[d].state

(* A runtime that ended a delivery goes on to answer with the outcome it gave, *)
(* although another one's recovery may have written "unknown" into the log.    *)
StatusKept ==
    \A e \in Engines, d \in Deliveries :
        mode[e] # "off" /\ told[e][d] # "none" => Status(e, d) = told[e][d]

=============================================================================
