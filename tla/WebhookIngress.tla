--------------------------- MODULE WebhookIngress ---------------------------
(***************************************************************************)
(* Webhook ingress: crates/proto/bondry-webhook-ingress/src/route.rs over  *)
(* a persistent DedupStore and the Dispatcher of                           *)
(* crates/contract/bondry-core/src/dispatch.rs.                            *)
(*                                                                         *)
(* Requests run concurrently and interleave at every store call, audit     *)
(* record and handler call.  Verification, rate limiting and payload       *)
(* mapping precede the first store call and have no effect of their own    *)
(* here: a request they reject never begins.                               *)
(***************************************************************************)
EXTENDS DedupRecords, FiniteSets

CONSTANTS
    Requests,         \* each is one HTTP delivery, a sender's retry another
    NoKey,            \* a verified request without a trusted identity
    Retained,         \* keys claimed with RetainCompleted
    StoreFaults,      \* ways in which a store call may fail: "refused", or
                      \* "ambiguous" (applied, but an error is reported)
    AuditFaults,      \* TRUE if the audit sink may fail
    OtherHandle,      \* TRUE if recovery may run while requests are served,
                      \* on another handle of the same store
    MaxStarts, MaxDecisions      \* bounds: starts, and operator decisions

ASSUME RequestsFinite == IsFiniteSet(Requests)
ASSUME KeysAssumption == NoKey \notin Keys /\ Retained \subseteq Keys
ASSUME FaultsAssumption ==
    /\ StoreFaults \subseteq {"refused", "ambiguous"}
    /\ AuditFaults \in BOOLEAN
    /\ OtherHandle \in BOOLEAN
ASSUME BoundsAssumption == {MaxStarts, MaxDecisions} \subseteq Nat

VARIABLES
    table,      \* the dedup store
    requests,   \* each request's progress
    up,         \* the process serves requests
    starts,
    decisions,  \* resolve_unknown and clear_completed_before calls
    runs,       \* handler invocations begun for each key
    returned,   \* handler invocations that returned
    allowed,    \* records of each key removed by a decision or by expiry
    decided     \* keys an operator has resolved

store == <<table, decisions, allowed, decided>>
work == <<runs, returned>>
vars == <<store, requests, up, starts, work>>

(* key: DedupKey of the request.  guard: DedupGuard::key.is_some().         *)
(* stage: where prepare, dispatch or complete is; the outcomes of dispatch  *)
(* are "rejected" (CapabilityNotFound, AccessDenied, InvalidInput),         *)
(* "audit" (Audit) and "ended" (Ok, Handler).  answer: what the sender got. *)
Stages == {"new", "claimed", "dispatching", "running", "rejected", "audit",
           "ended", "dropping", "done"}
Request == [stage : Stages, key : Keys \cup {NoKey}, guard : BOOLEAN,
            answer : {"none", "success", "retry", "error"}]
NewRequest == [stage |-> "new", key |-> NoKey, guard |-> FALSE,
               answer |-> "none"]

(* Types: a request is at one of the stages above, whatever fails, and a     *)
(* record in one of the states of DedupState (route.rs:195-240, 519-578).    *)
TypeOK ==
    /\ table \in [Keys -> DedupRecord]
    /\ requests \in [Requests -> Request]
    /\ up \in BOOLEAN
    /\ starts \in Nat
    /\ decisions \in Nat
    /\ runs \in [Keys -> Nat]
    /\ returned \in [Keys -> Nat]
    /\ allowed \in [Keys -> Nat]
    /\ decided \subseteq Keys

Init ==
    /\ table = EmptyTable
    /\ requests = [q \in Requests |-> NewRequest]
    /\ up = FALSE
    /\ starts = 0
    /\ decisions = 0
    /\ runs = [k \in Keys |-> 0]
    /\ returned = [k \in Keys |-> 0]
    /\ allowed = [k \in Keys |-> 0]
    /\ decided = {}

-----------------------------------------------------------------------------
(* The store *)

(* Records of ks are removed from t, and their keys may run again. *)
Removed(t, ks) ==
    /\ table' = WithoutKeys(t, ks)
    /\ allowed' = [k \in Keys |-> IF k \in ks THEN allowed[k] + 1
                                              ELSE allowed[k]]

(* A call that turns the table into t if it applies; ok says whether it     *)
(* reports success.                                                         *)
StoreCall(applies, t, ok) ==
    \/ applies /\ table' = t /\ ok
    \/ applies /\ "ambiguous" \in StoreFaults /\ table' = t /\ ~ok
    \/ (applies => "refused" \in StoreFaults) /\ table' = table /\ ~ok

Advance(q, stage) == requests' = [requests EXCEPT ![q].stage = stage]
Answer(q, answer) ==
    requests' = [requests EXCEPT ![q].stage = "done", ![q].guard = FALSE,
                                 ![q].answer = answer]

-----------------------------------------------------------------------------
(* prepare: claim *)

Claimed(q, k) ==
    requests' = [requests EXCEPT ![q].stage = "claimed", ![q].key = k,
                                 ![q].guard = TRUE]

Turned(q, k, answer) ==
    requests' = [requests EXCEPT ![q].stage = "done", ![q].key = k,
                                 ![q].answer = answer]

(* The claim removes expired records first; that much is kept whatever the  *)
(* answer.  An absent key is claimed, unless the store is full.  A delivery  *)
(* that is in flight is to be retried, one that is over is acknowledged.     *)
Claim(q, k) ==
    /\ up
    /\ requests[q].stage = "new"
    /\ \E expired \in SUBSET Expirable(table) :
          LET t == WithoutKeys(table, expired) IN
          /\ allowed' = [e \in Keys |-> IF e \in expired THEN allowed[e] + 1
                                                         ELSE allowed[e]]
          /\ \/ /\ t[k].state = "absent"
                /\ table' = WithClaim(t, k, k \in Retained)
                /\ \/ Claimed(q, k)
                   \/ "ambiguous" \in StoreFaults /\ Turned(q, k, "retry")
             \/ /\ \/ t[k].state \in {"absent", "in_flight"}
                   \/ "ambiguous" \in StoreFaults
                   \/ "refused" \in StoreFaults /\ expired = {}
                /\ table' = t
                /\ Turned(q, k, "retry")
             \/ /\ t[k].state \in {"completed", "unknown"}
                /\ table' = t
                /\ Turned(q, k, "success")
    /\ UNCHANGED <<decisions, decided, up, starts, work>>

(* Without an identity there is nothing to claim. *)
Unclaimed(q) ==
    /\ up
    /\ requests[q].stage = "new"
    /\ Advance(q, "claimed")
    /\ UNCHANGED <<store, up, starts, work>>

(* The invocation identifier is generated, or the claim is released. *)
Prepared(q) ==
    /\ requests[q].stage = "claimed"
    /\ Advance(q, "dispatching")
    /\ UNCHANGED <<store, up, starts, work>>

-----------------------------------------------------------------------------
(* DedupGuard: one store call, and mark_unknown on drop if it failed *)

(* The call succeeded and the guard is spent, or it is still armed. *)
Settle(q, applies, t, answer) ==
    \/ /\ requests[q].guard
       /\ \E ok \in BOOLEAN :
             /\ StoreCall(applies, t, ok)
             /\ IF ok THEN Answer(q, answer)
                      ELSE requests' = [requests EXCEPT
                              ![q].stage = "dropping", ![q].answer = "retry"]
    \/ /\ ~requests[q].guard
       /\ Answer(q, answer)
       /\ UNCHANGED table

(* DedupGuard::release *)
Release(q, answer) ==
    LET k == requests[q].key IN
    Settle(q, requests[q].guard /\ Settles(table, k), WithoutKeys(table, {k}),
           answer)

(* DedupGuard::complete *)
Complete(q, answer) ==
    LET k == requests[q].key IN
    Settle(q, requests[q].guard /\ Settles(table, k),
           WithState(table, k, "completed"), answer)

(* Mutated MarkUnknown: a failed audit record counts as completion. *)
MarkCompleted(q, answer) == Complete(q, answer)

(* DedupGuard::mark_unknown *)
MarkUnknown(q, answer) ==
    LET k == requests[q].key IN
    Settle(q, requests[q].guard /\ Settles(table, k),
           WithState(table, k, "unknown"), answer)

(* prepare, when no identifier can be generated. *)
Unprepared(q) ==
    /\ requests[q].stage = "claimed"
    /\ Release(q, "retry")
    /\ UNCHANGED <<decisions, allowed, decided, up, starts, work>>

(* WebhookDispatch::complete, after dispatch returned.  A rejected delivery  *)
(* is to be retried if the policy was unavailable.                           *)
Finish(q) ==
    /\ \/ requests[q].stage = "audit" /\ MarkUnknown(q, "retry")
       \/ /\ requests[q].stage = "rejected"
          /\ \E answer \in {"retry", "error"} : Release(q, answer)
       \/ /\ requests[q].stage = "ended"
          /\ \E answer \in {"success", "error"} : Complete(q, answer)
    /\ UNCHANGED <<decisions, allowed, decided, up, starts, work>>

(* Drop for DedupGuard: the result of mark_unknown is ignored. *)
Drop(q) ==
    LET k == requests[q].key IN
    /\ requests[q].stage = "dropping"
    /\ \/ requests[q].guard
          /\ \E ok \in BOOLEAN :
                StoreCall(Settles(table, k), WithState(table, k, "unknown"), ok)
       \/ ~requests[q].guard /\ UNCHANGED table
    /\ Answer(q, requests[q].answer)
    /\ UNCHANGED <<decisions, allowed, decided, up, starts, work>>

(* The future is dropped or a handler panics: the guard is dropped with it. *)
Cancel(q) ==
    /\ requests[q].stage \in {"dispatching", "running"}
    /\ Advance(q, "dropping")
    /\ UNCHANGED <<store, up, starts, work>>

-----------------------------------------------------------------------------
(* Dispatcher::dispatch *)

(* Not found, denied or invalid; each is audited first.  The audit record   *)
(* that fails may also be that of the start: the handler has not run then.   *)
Reject(q) ==
    /\ requests[q].stage = "dispatching"
    /\ \/ Advance(q, "rejected")
       \/ AuditFaults /\ Advance(q, "audit")
    /\ UNCHANGED <<store, up, starts, work>>

(* The start is audited before the handler is invoked. *)
Invoke(q) ==
    /\ requests[q].stage = "dispatching"
    /\ Advance(q, "running")
    /\ runs' = [k \in Keys |-> IF k = requests[q].key THEN runs[k] + 1
                                                      ELSE runs[k]]
    /\ UNCHANGED <<store, up, starts, returned>>

(* The handler returns, its result is audited. *)
Return(q) ==
    /\ requests[q].stage = "running"
    /\ \/ Advance(q, "ended")
       \/ AuditFaults /\ Advance(q, "audit")
    /\ returned' = [k \in Keys |-> IF k = requests[q].key
                                   THEN returned[k] + 1 ELSE returned[k]]
    /\ UNCHANGED <<store, up, starts, runs>>

-----------------------------------------------------------------------------
(* Administration, crash and restart *)

(* resolve_unknown *)
Resolve(k, retryAllowed) ==
    /\ up
    /\ decisions < MaxDecisions
    /\ Resolves(table, k)
    /\ IF retryAllowed THEN Removed(table, {k})
       ELSE table' = WithState(table, k, "completed") /\ UNCHANGED allowed
    /\ decisions' = decisions + 1
    /\ decided' = decided \cup {k}
    /\ UNCHANGED <<requests, up, starts, work>>

(* clear_completed_before: any of the completed records may be old enough. *)
ClearCompleted ==
    /\ up
    /\ decisions < MaxDecisions
    /\ \E ks \in SUBSET Completed(table) : ks # {} /\ Removed(table, ks)
    /\ decisions' = decisions + 1
    /\ UNCHANGED <<decided, requests, up, starts, work>>

(* bondry_store_dedup_v1 on another handle of the same database. *)
RecoverElsewhere ==
    /\ OtherHandle
    /\ up
    /\ table' = RecoveredClaims(table)
    /\ UNCHANGED <<decisions, allowed, decided, requests, up, starts, work>>

Crash ==
    /\ up
    /\ up' = FALSE
    /\ requests' = [q \in Requests |->
          IF requests[q].stage = "new" THEN requests[q]
          ELSE [requests[q] EXCEPT !.stage = "done", !.guard = FALSE]]
    /\ UNCHANGED <<store, starts, work>>

(* bondry_store_dedup_v1: recovery precedes the first request. *)
Start ==
    /\ ~up
    /\ starts < MaxStarts
    /\ up' = TRUE
    /\ starts' = starts + 1
    /\ table' = RecoveredClaims(table)
    /\ UNCHANGED <<decisions, allowed, decided, requests, work>>

Step(q) ==
    \/ \E k \in Keys : Claim(q, k)
    \/ Unclaimed(q)
    \/ Prepared(q)
    \/ Unprepared(q)
    \/ Reject(q)
    \/ Invoke(q)
    \/ Return(q)
    \/ Finish(q)
    \/ Drop(q)

Next ==
    \/ \E q \in Requests : Step(q) \/ Cancel(q)
    \/ \E k \in Keys, retryAllowed \in BOOLEAN : Resolve(k, retryAllowed)
    \/ ClearCompleted
    \/ RecoverElsewhere
    \/ Crash
    \/ Start

Spec == Init /\ [][Next]_vars

-----------------------------------------------------------------------------
(* Properties *)

(* The handler is begun for an identity at most once more than its record   *)
(* was removed on purpose: by resolve_unknown with RetryAllowed, by          *)
(* clear_completed_before, or by the expiry of a completed record.  No       *)
(* crash, failed store call, failed audit record, cancelled request or       *)
(* concurrent recovery runs a delivery twice (claim, DedupGuard).            *)
AtMostOnce == \A k \in Keys : runs[k] <= 1 + allowed[k]

(* A sender told "success" whose delivery never ran to its end has left a   *)
(* record that says so: it is Unknown, until an operator decides about it    *)
(* (prepare acknowledges duplicates of Completed and Unknown records).       *)
SuccessAccounted ==
    \A q \in Requests :
        LET k == requests[q].key IN
        requests[q].answer = "success" /\ k # NoKey /\ returned[k] = 0
            => table[k].state = "unknown" \/ k \in decided

(* An Unknown record, and a completed one that is retained, changes by an   *)
(* operator's decision only: not when a late guard completes, releases or is *)
(* dropped, not by recovery, and not by the expiry inside claim.             *)
DecidedByOperator ==
    [][\A k \in Keys :
          /\ \/ table[k].state = "unknown"
             \/ table[k].state = "completed" /\ table[k].retain
          /\ table'[k] # table[k]
          => decisions' = decisions + 1]_vars

(* A claim has one holder: two requests never hold guards for one identity, *)
(* and while a guard is held its record is in flight, so what the guard      *)
(* completes, releases or marks unknown is its own claim (DedupGuard keeps   *)
(* the key only, nothing tells one claim of a key from the next).  It holds  *)
(* when no recovery runs beside the requests and no failed call was applied. *)
ClaimsExclusive ==
    \A q \in Requests : requests[q].guard =>
        /\ table[requests[q].key].state = "in_flight"
        /\ \A p \in Requests :
              requests[p].guard /\ requests[p].key = requests[q].key => p = q

(* Every claim is settled: a record does not stay in flight while the       *)
(* process runs and the store works, whatever is cancelled or fails to be    *)
(* audited (prepare, WebhookDispatch::complete, Drop for DedupGuard).        *)
Unsettled(k) == up /\ table[k].state = "in_flight"
=============================================================================
