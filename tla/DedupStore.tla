----------------------------- MODULE DedupStore -----------------------------
(***************************************************************************)
(* The contract of the DedupStore trait                                    *)
(* (crates/contract/bondry-delivery-store/src/dedup.rs), which             *)
(* WebhookIngress relies on.  SqlCipherDedupStore is shown to implement    *)
(* it; DedupBridge checks that the calls behind the C ABI keep to it.      *)
(*                                                                         *)
(* Every operation is atomic.  A write may answer "unavailable" whether or *)
(* not it took effect.                                                     *)
(***************************************************************************)
EXTENDS DedupRecords

VARIABLES
    table,     \* the records
    answer     \* the operation last answered, and its result

vars == <<table, answer>>

Answers == {"none", "ok", "claimed", "duplicate_in_flight", "duplicate_completed",
            "duplicate_unknown", "capacity", "not_found", "invalid", "unavailable"}

Init ==
    /\ table = EmptyTable
    /\ answer = "none"

(* A write that applies is done, or reported unavailable; one that does not  *)
(* apply says why.  A time that cannot be stored is refused as "invalid".    *)
Write(applies, written, k) ==
    \/ applies /\ table' = written /\ answer' \in {"ok", "unavailable"}
    \/ ~applies /\ table' = table
       /\ answer' = IF table[k] = NoRecord THEN "not_found" ELSE "invalid"
    \/ table' = table /\ answer' \in {"invalid", "unavailable"}

(* Completed records that may expire are removed first, any of them. *)
Claim(k, retain) ==
    \/ \E expired \in SUBSET Expirable(table) :
          LET t == WithoutKeys(table, expired) IN
          \/ /\ t[k] = NoRecord
             /\ table' = WithClaim(t, k, retain)
             /\ answer' \in {"claimed", "unavailable"}
          \/ /\ t[k] # NoRecord
             /\ table' = t
             /\ answer' \in {DuplicateOf[t[k].state], "unavailable"}
          \/ /\ t[k] = NoRecord
             /\ table' = t
             /\ answer' \in {"capacity", "unavailable"}
    \/ table' = table /\ answer' \in {"invalid", "unavailable"}

Complete(k) == Write(Settles(table, k), WithState(table, k, "completed"), k)
MarkUnknown(k) == Write(Settles(table, k), WithState(table, k, "unknown"), k)
ReleaseClaim(k) == Write(Settles(table, k), WithoutKeys(table, {k}), k)

ResolveUnknown(k, retryAllowed) ==
    Write(Resolves(table, k),
          IF retryAllowed THEN WithoutKeys(table, {k})
                          ELSE WithState(table, k, "completed"), k)

RecoverInFlight ==
    \/ table' = RecoveredClaims(table) /\ answer' \in {"ok", "unavailable"}
    \/ table' = table /\ answer' \in {"invalid", "unavailable"}

ClearCompletedBefore ==
    \/ \E old \in SUBSET Completed(table) :
          table' = WithoutKeys(table, old) /\ answer' \in {"ok", "unavailable"}
    \/ table' = table /\ answer' \in {"invalid", "unavailable"}

Next ==
    \/ \E k \in Keys :
          \/ \E retain \in BOOLEAN : Claim(k, retain)
          \/ Complete(k) \/ MarkUnknown(k) \/ ReleaseClaim(k)
          \/ \E retryAllowed \in BOOLEAN : ResolveUnknown(k, retryAllowed)
    \/ RecoverInFlight
    \/ ClearCompletedBefore

Spec == Init /\ [][Next]_vars
=============================================================================
