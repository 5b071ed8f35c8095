----------------------------- MODULE DedupBridge -----------------------------
(***************************************************************************)
(* The persistent replay-protection store behind the C ABI: the webhook    *)
(* side in crates/ffi/bondry-webhook-ingress-ffi/src/store.rs, the store's *)
(* side in crates/ffi/bondry-runtime-ffi/src/dedup_store.rs.               *)
(*                                                                         *)
(* Policies, resolutions, claims, records and errors cross as integers     *)
(* that each side encodes and decodes by itself.  The first descriptor     *)
(* derived from a store handle recovers the claims of the last process;    *)
(* several threads may derive descriptors at once.  The store behaves as   *)
(* module DedupStore says.                                                 *)
(***************************************************************************)
EXTENDS DedupRecords, FiniteSets

CONSTANTS Threads, NoThread

VARIABLES
    rows,        \* the store's table
    reply,       \* what the store answered
    answer,      \* what the caller was told
    view,        \* the record a query or visit showed, if that was the last call
    recovered,   \* StoreHandle::dedup_recovered
    lock,        \* the thread that holds its mutex
    threads,     \* each thread's call of bondry_store_dedup_v1
    contexts     \* owners of the context each thread derived

vars == <<rows, reply, answer, view, recovered, lock, threads, contexts>>
derivation == <<recovered, lock, threads, contexts>>

Store == INSTANCE DedupStore WITH table <- rows, answer <- reply

-----------------------------------------------------------------------------
(* The codes of the ABI *)

EncodePolicy(retain) == IF retain THEN 1 ELSE 2
DecodePolicy(code) == code = 1
EncodeResolution(retryAllowed) == IF retryAllowed THEN 2 ELSE 1
DecodeResolution(code) == code = 2

(* encode_state and decode_state *)
StateCodes == <<"in_flight", "completed", "unknown">>
EncodeState(state) == CHOOSE i \in DOMAIN StateCodes : StateCodes[i] = state

(* store_status *)
Status(error) ==
    CASE error = "capacity" -> 32
      [] error = "not_found" -> 20
      [] error = "invalid" -> 33
      [] error = "unavailable" -> 15
      [] OTHER -> 0

(* decode_status *)
DecodeStatus(status) ==
    CASE status = 0 -> "ok"
      [] status = 32 -> "capacity"
      [] status = 20 -> "not_found"
      [] status = 33 -> "invalid"
      [] OTHER -> "unavailable"

(* The outputs of the claim callback: status, result and state *)
EncodeClaim(claim) ==
    CASE claim = "claimed" -> <<0, 1, 0>>
      [] \E s \in DOMAIN DuplicateOf : claim = DuplicateOf[s] ->
            <<0, 2, EncodeState(CHOOSE s \in DOMAIN DuplicateOf : claim = DuplicateOf[s])>>
      [] OTHER -> <<Status(claim), 0, 0>>

(* ForeignDedupStore::claim *)
DecodeClaim(outputs) ==
    CASE outputs[1] # 0 -> DecodeStatus(outputs[1])
      [] outputs = <<0, 1, 0>> -> "claimed"
      [] outputs[2] = 2 /\ outputs[3] \in DOMAIN StateCodes ->
            DuplicateOf[StateCodes[outputs[3]]]
      [] OTHER -> "unavailable"

(* BondryDedupRecordV1::from_record and decode_record *)
Record(k) ==
    LET code == EncodeState(rows[k].state) IN
    IF code \in DOMAIN StateCodes THEN StateCodes[code] ELSE "unavailable"

-----------------------------------------------------------------------------
Stages == {"idle", "waiting", "locked", "recovered", "derived", "failed"}

(* Types: every code decodes to a claim, a state or an error of the         *)
(* contract, and a context has at most two owners here (store.rs:132-381,   *)
(* dedup_store.rs:661-714).                                                 *)
TypeOK ==
    /\ rows \in [Keys -> DedupRecord]
    /\ {reply, answer} \subseteq Store!Answers
    /\ view \in {"none", "absent", "unavailable"} \cup DedupStates
    /\ recovered \in BOOLEAN
    /\ lock \in Threads \cup {NoThread}
    /\ threads \in [Threads -> Stages]
    /\ contexts \in [Threads -> 0 .. 2]

(* Records of an earlier process are in the table. *)
Init ==
    /\ rows \in [Keys -> DedupRecord]
    /\ \A k \in Keys : rows[k].state = "absent" => rows[k] = NoRecord
    /\ reply = "none"
    /\ answer = "none"
    /\ view = "none"
    /\ recovered = FALSE
    /\ lock = NoThread
    /\ threads = [t \in Threads |-> "idle"]
    /\ contexts = [t \in Threads |-> 0]

-----------------------------------------------------------------------------
(* bondry_store_dedup_v1 *)

Enter(t) ==
    /\ threads[t] \in {"idle", "failed"}
    /\ threads' = [threads EXCEPT ![t] = "waiting"]
    /\ UNCHANGED <<rows, reply, answer, view, recovered, lock, contexts>>

(* The mutex is taken; a recovered handle is not recovered again. *)
Lock(t) ==
    /\ threads[t] = "waiting"
    /\ lock = NoThread
    /\ IF recovered
       THEN threads' = [threads EXCEPT ![t] = "recovered"] /\ UNCHANGED lock
       ELSE threads' = [threads EXCEPT ![t] = "locked"] /\ lock' = t
    /\ UNCHANGED <<rows, reply, answer, view, recovered, contexts>>

(* recover_in_flight with the mutex held.  It may fail, perhaps after it     *)
(* took effect: no descriptor then, and the next call tries again.           *)
Recover(t) ==
    /\ threads[t] = "locked"
    /\ \/ /\ rows' = RecoveredClaims(rows)
          /\ recovered' = TRUE
          /\ threads' = [threads EXCEPT ![t] = "recovered"]
       \/ /\ rows' \in {rows, RecoveredClaims(rows)}
          /\ threads' = [threads EXCEPT ![t] = "failed"]
          /\ UNCHANGED recovered
    /\ lock' = NoThread
    /\ UNCHANGED <<reply, answer, view, contexts>>

(* The descriptor is written, with one unit of its context. *)
Derive(t) ==
    /\ threads[t] = "recovered"
    /\ threads' = [threads EXCEPT ![t] = "derived"]
    /\ contexts' = [contexts EXCEPT ![t] = 1]
    /\ UNCHANGED <<rows, reply, answer, view, recovered, lock>>

(* A webhook handler retains the context. *)
Retain(t) ==
    /\ contexts[t] = 1
    /\ contexts' = [contexts EXCEPT ![t] = 2]
    /\ UNCHANGED <<rows, reply, answer, view, recovered, lock, threads>>

(* release_context *)
Release(t) ==
    /\ contexts[t] > 0
    /\ contexts' = [contexts EXCEPT ![t] = @ - 1]
    /\ UNCHANGED <<rows, reply, answer, view, recovered, lock, threads>>

-----------------------------------------------------------------------------
(* Operations through a descriptor *)

Open == \E t \in Threads : contexts[t] > 0

Told ==
    /\ Open
    /\ answer' = DecodeStatus(Status(reply'))
    /\ view' = "none"
    /\ UNCHANGED derivation

Claim(k, retain) ==
    /\ Open
    /\ Store!Claim(k, DecodePolicy(EncodePolicy(retain)))
    /\ answer' = DecodeClaim(EncodeClaim(reply'))
    /\ view' = "none"
    /\ UNCHANGED derivation

Complete(k) == Store!Complete(k) /\ Told
MarkUnknown(k) == Store!MarkUnknown(k) /\ Told
ReleaseClaim(k) == Store!ReleaseClaim(k) /\ Told

ResolveUnknown(k, retryAllowed) ==
    Store!ResolveUnknown(k, DecodeResolution(EncodeResolution(retryAllowed))) /\ Told

ClearCompleted == Store!ClearCompletedBefore /\ Told
RecoverInFlight == Store!RecoverInFlight /\ Told

(* ForeignDedupStore::record *)
Query(k) ==
    /\ Open
    /\ view' \in {"unavailable", IF rows[k] = NoRecord THEN "absent" ELSE Record(k)}
    /\ UNCHANGED <<rows, reply, answer, derivation>>

(* One record given to the visitor of visit_unknown.  A record that does not *)
(* decode ends the visit and fails it.                                       *)
VisitRecord(k) ==
    /\ Open
    /\ rows[k].state = "unknown"
    /\ view' \in {"unavailable", Record(k)}
    /\ UNCHANGED <<rows, reply, answer, derivation>>

Next ==
    \/ \E t \in Threads :
          Enter(t) \/ Lock(t) \/ Recover(t) \/ Derive(t) \/ Retain(t) \/ Release(t)
    \/ \E k \in Keys :
          \/ \E retain \in BOOLEAN : Claim(k, retain)
          \/ Complete(k) \/ MarkUnknown(k) \/ ReleaseClaim(k)
          \/ Query(k) \/ VisitRecord(k)
          \/ \E retryAllowed \in BOOLEAN : ResolveUnknown(k, retryAllowed)
    \/ ClearCompleted
    \/ RecoverInFlight

Spec == Init /\ [][Next]_vars

-----------------------------------------------------------------------------
(* Properties *)

(* Deriving a descriptor never touches a claim of this process: once one    *)
(* thread has a descriptor and may have claimed, no other thread's recovery *)
(* marks the claim unknown (dedup_store.rs:256-276).                        *)
DerivationKeepsClaims ==
    Open /\ UNCHANGED <<reply, answer>> /\ derivation' # derivation => rows' = rows

(* No claim of the last process is taken for one of this process: when the  *)
(* first descriptor appears, nothing is in flight.                          *)
NothingInFlightAtFirst ==
    (\A t \in Threads : contexts[t] = 0) /\ (\E t \in Threads : threads[t] = "recovered")
        /\ (\A t \in Threads : threads[t] # "derived")
            => \A k \in Keys : rows[k].state # "in_flight"

(* A query or a visit shows the state that is stored (from_record,          *)
(* decode_record).                                                          *)
ShowsStored ==
    \A k \in Keys : (Query(k) \/ VisitRecord(k)) /\ view' # "unavailable"
        => view' = rows[k].state

(* What the caller is told about a call agrees with what the call did, as   *)
(* the contract has it: a claim it is told of is stored in flight under its *)
(* policy, a decision is the one asked for, and no error is taken for       *)
(* another (store.rs:132-290).                                              *)
CallsKeepContract ==
    /\ \A k \in Keys, r \in BOOLEAN :
          /\ Claim(k, r) /\ answer' = "claimed" =>
                rows'[k] = [state |-> "in_flight", retain |-> r]
          /\ Claim(k, r) /\ answer' = "capacity" => rows[k] = NoRecord \/ k \in Expirable(rows)
          /\ ResolveUnknown(k, r) /\ answer' = "ok" =>
                rows'[k] = IF r THEN NoRecord ELSE [rows[k] EXCEPT !.state = "completed"]
    /\ \A k \in Keys : answer' = "not_found" /\ Complete(k) => rows[k] = NoRecord
=============================================================================
