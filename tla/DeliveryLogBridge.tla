-------------------------- MODULE DeliveryLogBridge --------------------------
(***************************************************************************)
(* The persistent delivery log behind the C ABI: the engine's side in      *)
(* crates/ffi/bondry-egress-ffi/src/store.rs, the store's side in          *)
(* crates/ffi/bondry-runtime-ffi/src/delivery_log.rs.                      *)
(*                                                                         *)
(* The two libraries share no types.  Outcomes, results, records and       *)
(* errors cross as integers that each side encodes and decodes with tables *)
(* of its own.  The store itself behaves as module DeliveryLog says.       *)
(***************************************************************************)
EXTENDS DeliveryRecords, Sequences

CONSTANTS
    MaxAttempts,   \* bound: attempts recorded
    ResultBytes,   \* sizes of results
    Length         \* bytes of each identifier, at most MAX_DELIVERY_ID_BYTES

VARIABLES
    rows,        \* the store's table, see DeliveryRecords
    details,     \* its failure_kind, result_category and result_bytes columns
    reply,       \* what the store answered
    answer,      \* what the engine was told
    view,        \* what the engine's query returned, if that was its last call
    sent,        \* details as the engine had them when it recorded the outcome
    descriptor,  \* the engine's: "none", "held" or "released"
    host,        \* the host has its store handle open
    units        \* owners of the opened store

vars == <<rows, details, reply, answer, view, sent, descriptor, host, units>>
life == <<descriptor, host, units>>

Store == INSTANCE DeliveryLog WITH log <- rows, answer <- reply

-----------------------------------------------------------------------------
(* The codes of the ABI; each failure's is its place in the list.            *)

FailureCodes == <<"cancelled", "deadline_exceeded", "endpoint_policy",
                  "secret_unavailable", "transport_unavailable",
                  "receiver_rejected", "retry_exhausted", "internal">>
Failures == {FailureCodes[i] : i \in DOMAIN FailureCodes}
CategoryCodes == <<"succeeded", "failed", "invalid">>

(* DeliveryOutcome with its failure, and Option<DeliveryResultMetadata> *)
AllOutcomes == Failures \cup {"delivered", "lost_on_shutdown", "unknown_after_crash"}
NoResult == [category |-> "none", bytes |-> 0]
Results == {NoResult} \cup [category : {"succeeded", "failed", "invalid"}, bytes : ResultBytes]

(* What DeliveryRecords keeps of an outcome *)
Coarse(outcome) == IF outcome \in Failures \ {"cancelled"} THEN "failed" ELSE outcome

Code(codes, name) == CHOOSE i \in DOMAIN codes : codes[i] = name

(* encode_outcome and encode_failure, the same on both sides *)
EncodeOutcome(outcome) ==
    CASE outcome = "delivered" -> <<1, 0>>
      [] outcome \in Failures -> <<2, Code(FailureCodes, outcome)>>
      [] outcome = "lost_on_shutdown" -> <<3, 0>>
      [] outcome = "unknown_after_crash" -> <<4, 0>>

(* encode_result, and the end of encode_record *)
EncodeResult(result) ==
    IF result = NoResult THEN <<0, 0>>
    ELSE <<Code(CategoryCodes, result.category), result.bytes>>

Malformed == "malformed"

(* decode_outcome of the runtime: a caller may not report UnknownAfterCrash. *)
DecodeOutcomeRuntime(wire) ==
    CASE wire = <<1, 0>> -> "delivered"
      [] wire[1] = 2 /\ wire[2] \in DOMAIN FailureCodes -> FailureCodes[wire[2]]
      [] wire = <<3, 0>> -> "lost_on_shutdown"
      [] OTHER -> Malformed

(* decode_outcome of the engine *)
DecodeOutcomeEngine(wire) ==
    IF wire = <<4, 0>> THEN "unknown_after_crash" ELSE DecodeOutcomeRuntime(wire)

(* decode_result, the same on both sides *)
DecodeResult(wire) ==
    CASE wire = <<0, 0>> -> NoResult
      [] wire[1] \in DOMAIN CategoryCodes ->
            [category |-> CategoryCodes[wire[1]], bytes |-> wire[2]]

(* delivery_error *)
Status(error) ==
    CASE error = "ok" -> 0
      [] error = "conflict" -> 28
      [] error = "capacity" -> 32
      [] error = "not_found" -> 20
      [] error = "invalid" -> 33
      [] error = "unavailable" -> 15

InvalidArgument == 5

(* decode_status *)
DecodeStatus(status) ==
    CASE status = 0 -> "ok"
      [] status = 28 -> "conflict"
      [] status = 32 -> "capacity"
      [] status = 20 -> "not_found"
      [] status \in {5, 33} -> "invalid"
      [] OTHER -> "unavailable"

(* terminated: the identifier and a zero in IDENTIFIER_CAPACITY bytes *)
Terminated(d) == Length[d] < 129

(* encode_record of the runtime, as integers *)
EncodeRecord(d) ==
    [state |-> IF rows[d].state = "pending" THEN 1 ELSE 2,
     outcome |-> IF rows[d].state = "pending" THEN <<0, 0>>
                 ELSE EncodeOutcome(details[d].outcome),
     result |-> EncodeResult(details[d].result),
     attempts |-> rows[d].attempts]

(* decode_record of the engine *)
DecodeRecord(record) ==
    LET outcome == IF record.state = 1 /\ record.outcome = <<0, 0>> THEN "pending"
                   ELSE IF record.state = 2 THEN DecodeOutcomeEngine(record.outcome)
                   ELSE Malformed
    IN IF outcome = Malformed THEN [found |-> Malformed]
       ELSE [found |-> "yes", outcome |-> outcome, attempts |-> record.attempts,
             result |-> DecodeResult(record.result)]

-----------------------------------------------------------------------------
NoDetails == [outcome |-> "pending", result |-> NoResult]

(* Types: every code decodes to an outcome, a result or an error of the     *)
(* contract (store.rs:296-430, delivery_log.rs:418-540).                    *)
TypeOK ==
    /\ rows \in [Deliveries -> Records]
    /\ details \in [Deliveries -> [outcome : AllOutcomes \cup {"pending"}, result : Results]]
    /\ sent \in [Deliveries -> [outcome : AllOutcomes \cup {"pending"}, result : Results]]
    /\ {reply, answer} \subseteq Store!Answers
    /\ view \in [found : {"none", "no", "unavailable"}]
                \cup [found : {"yes"}, outcome : AllOutcomes \cup {"pending"},
                      attempts : Nat, result : Results]
    /\ descriptor \in {"none", "held", "released"}
    /\ host \in BOOLEAN
    /\ units \in 0 .. 2

Init ==
    /\ Store!Init
    /\ details = [d \in Deliveries |-> NoDetails]
    /\ sent = [d \in Deliveries |-> NoDetails]
    /\ answer = "none"
    /\ view = [found |-> "none"]
    /\ descriptor = "none"
    /\ host = TRUE
    /\ units = 1

(* bondry_store_delivery_log_v1 *)
Derive ==
    /\ descriptor = "none" /\ host
    /\ descriptor' = "held"
    /\ units' = units + 1
    /\ UNCHANGED <<rows, details, reply, answer, view, sent, host>>

(* Drop for ForeignDeliveryLog; derive also releases a descriptor that does  *)
(* not have the shape this library was built for.                            *)
Release ==
    /\ descriptor = "held"
    /\ descriptor' = "released"
    /\ units' = units - 1
    /\ UNCHANGED <<rows, details, reply, answer, view, sent, host>>

(* bondry_store_close_v1 *)
CloseStore ==
    /\ host
    /\ host' = FALSE
    /\ units' = units - 1
    /\ UNCHANGED <<rows, details, reply, answer, view, sent, descriptor>>

(* The engine is told what the store answered; a row that is gone, or new,   *)
(* has no details.                                                           *)
Told ==
    /\ descriptor = "held"
    /\ answer' = DecodeStatus(Status(reply'))
    /\ view' = [found |-> "none"]
    /\ UNCHANGED life

Kept(columns) ==
    [d \in Deliveries |-> IF rows'[d].state \in {"absent", "pending"} THEN NoDetails
                          ELSE columns[d]]

InsertIntent(d) ==
    /\ Store!InsertIntent(d)
    /\ details' = Kept(details)
    /\ sent' = Kept(sent)
    /\ Told

RecordAttempt(d, count) ==
    /\ Store!RecordAttempt(d, count)
    /\ UNCHANGED <<details, sent>>
    /\ Told

RecordOutcome(d, outcome, result) ==
    LET decoded == DecodeOutcomeRuntime(EncodeOutcome(outcome))
        metadata == DecodeResult(EncodeResult(result))
    IN
    IF decoded = Malformed
    THEN /\ descriptor = "held"
         /\ answer' = DecodeStatus(InvalidArgument)
         /\ view' = [found |-> "none"]
         /\ UNCHANGED <<rows, details, reply, sent, life>>
    ELSE /\ Store!RecordOutcome(d, Coarse(decoded))
         /\ details' = IF rows' = rows THEN details
               ELSE [details EXCEPT ![d] = [outcome |-> decoded, result |-> metadata]]
         /\ sent' = IF rows' = rows THEN sent
               ELSE [sent EXCEPT ![d] = [outcome |-> outcome, result |-> result]]
         /\ Told

(* An intent that recovery ends has no result. *)
RecoverUnfinished ==
    /\ Store!RecoverUnfinished
    /\ LET ended == [outcome |-> "unknown_after_crash", result |-> NoResult]
           Ended(columns) == [d \in Deliveries |-> IF rows'[d] # rows[d] THEN ended
                                                   ELSE columns[d]]
       IN details' = Ended(details) /\ sent' = Ended(sent)
    /\ Told

(* query_delivery and ForeignDeliveryLog::delivery *)
Query(d) ==
    /\ descriptor = "held"
    /\ \/ view' = [found |-> "unavailable"]
       \/ rows[d] = Absent /\ view' = [found |-> "no"]
       \/ rows[d] # Absent /\ view' = IF Terminated(d) THEN DecodeRecord(EncodeRecord(d))
                                      ELSE [found |-> Malformed]
    /\ UNCHANGED <<rows, details, reply, answer, sent, life>>

Next ==
    \/ Derive \/ Release \/ CloseStore
    \/ \E d \in Deliveries :
          \/ InsertIntent(d)
          \/ \E count \in 1 .. MaxAttempts : RecordAttempt(d, count)
          \/ \E outcome \in AllOutcomes \ {"unknown_after_crash"}, result \in Results :
                RecordOutcome(d, outcome, result)
          \/ Query(d)
    \/ RecoverUnfinished

Spec == Init /\ [][Next]_vars

-----------------------------------------------------------------------------
(* Properties *)

(* A query returns the outcome, failure kind, result and attempts that the  *)
(* engine recorded, or that recovery recorded for it, although each crossed *)
(* the ABI twice through four tables; a record is never unreadable          *)
(* (store.rs:296-430, delivery_log.rs:418-540).                             *)
ReadsBack ==
    \A d \in Deliveries :
        Query(d) /\ view'.found \notin {"unavailable", "no"} =>
            view' = [found |-> "yes", outcome |-> sent[d].outcome,
                     attempts |-> rows[d].attempts, result |-> sent[d].result]

Contract == INSTANCE DeliveryLog WITH log <- rows

(* Every step is one of the contract, or changes nothing it speaks of. *)
KeepsContract == Contract!Next \/ UNCHANGED Contract!vars

(* The descriptor keeps the store open after the host closed its handle,    *)
(* and the store is closed once neither owns it, whichever goes first       *)
(* (delivery_log.rs:208-262).                                               *)
StoreAlive == (host \/ descriptor = "held") <=> units > 0

=============================================================================
