---------------------------- MODULE DedupRecords ----------------------------
(***************************************************************************)
(* The contents of a replay-protection store and the ways the DedupStore   *)
(* trait may change it                                                     *)
(* (crates/contract/bondry-delivery-store/src/dedup.rs).  A key stands for *)
(* route, verifier namespace and identifier hash.                          *)
(***************************************************************************)
EXTENDS Naturals

CONSTANT Keys

(* DedupState, or no record.  retain is DedupClaimPolicy::RetainCompleted. *)
DedupStates == {"absent", "in_flight", "completed", "unknown"}
DedupRecord == [state : DedupStates, retain : BOOLEAN]

NoRecord == [state |-> "absent", retain |-> FALSE]
EmptyTable == [k \in Keys |-> NoRecord]

(* claim, and DedupClaim::Duplicate *)
DuplicateOf == [in_flight |-> "duplicate_in_flight",
                completed |-> "duplicate_completed",
                unknown |-> "duplicate_unknown"]
WithClaim(t, k, retain) ==
    [t EXCEPT ![k] = [state |-> "in_flight", retain |-> retain]]

(* Mutated Settles: the state column is not tested. *)
SettlesAny(t, k) == t[k].state # "absent"

(* complete, mark_unknown, release_claim apply to an in-flight record only. *)
Settles(t, k) == t[k].state = "in_flight"
WithState(t, k, state) == [t EXCEPT ![k].state = state]
WithoutKeys(t, ks) == [k \in Keys |-> IF k \in ks THEN NoRecord ELSE t[k]]

(* Mutated RecoveredClaims: claims of the last process are released. *)
ReleasedClaims(t) ==
    [k \in Keys |-> IF t[k].state = "in_flight" THEN NoRecord ELSE t[k]]

(* recover_in_flight *)
RecoveredClaims(t) ==
    [k \in Keys |-> IF t[k].state = "in_flight"
                    THEN [t[k] EXCEPT !.state = "unknown"] ELSE t[k]]

(* resolve_unknown applies to an unknown record only. *)
Resolves(t, k) == t[k].state = "unknown"

(* claim deletes expired records, clear_completed_before old ones. *)
Completed(t) == {k \in Keys : t[k].state = "completed"}
Expirable(t) == {k \in Completed(t) : ~t[k].retain}
=============================================================================
