---------------------------- MODULE DeliveryLog ----------------------------
(***************************************************************************)
(* The contract of the DeliveryLog trait                                   *)
(* (crates/contract/bondry-delivery-store/src/delivery.rs), which          *)
(* EgressRuntime relies on and which InMemoryDeliveryLog and               *)
(* SqlCipherDeliveryLog are shown to implement.                            *)
(*                                                                         *)
(* Every operation is atomic.  A write may answer "unavailable" whether or *)
(* not it took effect.  Only terminal records are ever reclaimed, and only *)
(* by insert_intent.                                                       *)
(***************************************************************************)
EXTENDS DeliveryRecords

CONSTANT MaxAttempts      \* bound: attempts a caller records

VARIABLES
    log,       \* the records
    answer     \* result of the last operation

vars == <<log, answer>>

Answers == {"none", "ok", "conflict", "capacity", "invalid", "not_found",
            "unavailable"}

(* Records and answers keep their types (delivery.rs:135-225). *)
TypeOK ==
    /\ log \in [Deliveries -> Records]
    /\ answer \in Answers

Init ==
    /\ log = EmptyLog
    /\ answer = "none"

(* A write that the log accepts: done, or reported unavailable.  One that it *)
(* does not accept changes nothing and says why.                             *)
Write(accepts, written, d) ==
    \/ accepts /\ log' = written /\ answer' \in {"ok", "unavailable"}
    \/ ~accepts /\ log' = log
       /\ answer' = IF log[d] = Absent THEN "not_found" ELSE "invalid"
    \/ log' = log /\ answer' = "unavailable"

InsertIntent(d) ==
    \E forgotten \in SUBSET TerminalIn(log) :
       LET l == Without(log, forgotten) IN
       \/ /\ l[d] = Absent
          /\ log' = WithIntent(l, d)
          /\ answer' \in {"ok", "unavailable"}
       \/ /\ l[d] # Absent
          /\ log' = l
          /\ answer' = "conflict"
       \/ /\ log' = l
          /\ answer' \in {"capacity", "unavailable"}

RecordAttempt(d, count) ==
    Write(AcceptsAttempt(log, d, count), WithAttempt(log, d, count), d)

(* The runtime records only outcomes it observed: UnknownAfterCrash is the  *)
(* recovery's.                                                              *)
RecordOutcome(d, outcome) ==
    Write(log[d].state = "pending", WithOutcome(log, d, outcome), d)

RecoverUnfinished ==
    \/ log' = Recovered(log) /\ answer' \in {"ok", "unavailable"}
    \/ log' = log /\ answer' = "unavailable"

Next ==
    \/ \E d \in Deliveries :
          \/ InsertIntent(d)
          \/ \E count \in 1 .. MaxAttempts : RecordAttempt(d, count)
          \/ \E outcome \in Outcomes \ {"unknown_after_crash"} :
                RecordOutcome(d, outcome)
    \/ RecoverUnfinished

Spec == Init /\ [][Next]_vars

-----------------------------------------------------------------------------
(* A record only moves forward: from no record to a pending one without     *)
(* attempts; while pending the attempts only grow; pending to one outcome,  *)
(* keeping the attempts; and a terminal record changes only by being        *)
(* reclaimed, which may make room for a new intent of the same identifier   *)
(* (bondry-delivery-store/src/delivery.rs:196-225).                         *)
Forward == [][\A d \in Deliveries : MovesForward(log[d], log'[d])]_vars
=============================================================================
