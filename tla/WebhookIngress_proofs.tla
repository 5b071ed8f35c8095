----------------------- MODULE WebhookIngress_proofs -----------------------
(***************************************************************************)
(* Proofs about WebhookIngress, for any finite set of requests, any set of *)
(* keys and any combination of faults.                                     *)
(***************************************************************************)
EXTENDS WebhookIngress, FiniteSetTheorems, TLAPS

Tables == [Keys -> DedupRecord]

-----------------------------------------------------------------------------
(* The operators on tables *)

(* claim writes one record. *)
LEMMA ClaimTable ==
    ASSUME NEW t \in Tables, NEW k \in Keys, NEW retain \in BOOLEAN
    PROVE  /\ WithClaim(t, k, retain) \in Tables
           /\ WithClaim(t, k, retain)[k].state = "in_flight"
           /\ \A e \in Keys \ {k} : WithClaim(t, k, retain)[e] = t[e]
  BY DEF WithClaim, Tables, DedupRecord, DedupStates

(* complete, mark_unknown and resolve_unknown change one state. *)
LEMMA StateTable ==
    ASSUME NEW t \in Tables, NEW k \in Keys, NEW state \in DedupStates
    PROVE  /\ WithState(t, k, state) \in Tables
           /\ WithState(t, k, state)[k].state = state
           /\ \A e \in Keys \ {k} : WithState(t, k, state)[e] = t[e]
  BY DEF WithState, Tables, DedupRecord

(* release_claim, expiry and clear_completed_before remove records. *)
LEMMA RemovedTable ==
    ASSUME NEW t \in Tables, NEW ks
    PROVE  /\ WithoutKeys(t, ks) \in Tables
           /\ \A e \in Keys :
                 WithoutKeys(t, ks)[e] = IF e \in ks THEN NoRecord ELSE t[e]
           /\ NoRecord.state = "absent"
  BY DEF WithoutKeys, Tables, NoRecord, DedupRecord, DedupStates

(* recover_in_flight turns claims into unknown records. *)
LEMMA RecoveredTable ==
    ASSUME NEW t \in Tables
    PROVE  /\ RecoveredClaims(t) \in Tables
           /\ \A e \in Keys :
                 /\ t[e].state # "in_flight" => RecoveredClaims(t)[e] = t[e]
                 /\ t[e].state = "in_flight" =>
                       RecoveredClaims(t)[e].state = "unknown"
  BY DEF RecoveredClaims, Tables, DedupRecord, DedupStates

-----------------------------------------------------------------------------
(* Types *)

(* A guard is held for a key, and a new request has neither. *)
Keyed ==
    \A q \in Requests :
        /\ requests[q].guard => requests[q].key \in Keys
        /\ requests[q].stage = "new" => requests[q] = NewRequest

(* A call on a guard either is applied or leaves the table, and the request *)
(* is answered or left to be dropped.                                        *)
LEMMA SettleEffect ==
    ASSUME NEW q \in Requests, NEW applies, NEW t, NEW answer,
           Settle(q, applies, t, answer)
    PROVE  /\ \/ table' = table
              \/ requests[q].guard /\ applies /\ table' = t
           /\ \/ Answer(q, answer)
              \/ requests' = [requests EXCEPT ![q].stage = "dropping",
                                              ![q].answer = "retry"]
  BY DEF Settle, StoreCall

(* What the three calls of DedupGuard, and its drop, do to the table. *)
GuardCall(q, state) ==
    \/ table' = table
    \/ /\ requests[q].guard
       /\ table[requests[q].key].state = "in_flight"
       /\ table' = IF state = "absent"
                   THEN WithoutKeys(table, {requests[q].key})
                   ELSE WithState(table, requests[q].key, state)

(* What Finish does. *)
LEMMA FinishEffect ==
    ASSUME NEW q \in Requests, Finish(q)
    PROVE  \E state \in {"absent", "completed", "unknown"},
              answer \in {"success", "retry", "error"} :
              /\ GuardCall(q, state)
              /\ \/ Answer(q, answer)
                 \/ requests' = [requests EXCEPT ![q].stage = "dropping",
                                                 ![q].answer = "retry"]
              /\ \/ /\ requests[q].stage = "audit"
                    /\ state = "unknown"
                    /\ answer # "success"
                 \/ /\ requests[q].stage = "rejected"
                    /\ state = "absent"
                    /\ answer # "success"
                 \/ requests[q].stage = "ended" /\ state = "completed"
  <1>1. CASE requests[q].stage = "audit" /\ MarkUnknown(q, "retry")
    BY Zenon, <1>1, SettleEffect DEF MarkUnknown, GuardCall, Settles
  <1>2. CASE /\ requests[q].stage = "rejected"
             /\ \E answer \in {"retry", "error"} : Release(q, answer)
    BY ZenonT(40), <1>2, SettleEffect DEF Release, GuardCall, Settles
  <1>3. CASE /\ requests[q].stage = "ended"
             /\ \E answer \in {"success", "error"} : Complete(q, answer)
    BY ZenonT(40), <1>3, SettleEffect DEF Complete, GuardCall, Settles
  <1> QED BY <1>1, <1>2, <1>3 DEF Finish

(* What Unprepared does. *)
LEMMA UnpreparedEffect ==
    ASSUME NEW q \in Requests, Unprepared(q)
    PROVE  /\ GuardCall(q, "absent")
           /\ \/ Answer(q, "retry")
              \/ requests' = [requests EXCEPT ![q].stage = "dropping",
                                              ![q].answer = "retry"]
  BY Zenon, SettleEffect DEF Unprepared, Release, GuardCall, Settles

(* What Drop does. *)
LEMMA DropEffect ==
    ASSUME NEW q \in Requests, Drop(q)
    PROVE  GuardCall(q, "unknown") /\ Answer(q, requests[q].answer)
  BY DEF Drop, GuardCall, StoreCall, Settles

(* A guard's call yields a table, and changes no key but its own. *)
LEMMA GuardCallTable ==
    ASSUME NEW q \in Requests, table \in Tables, Keyed,
           NEW state \in {"absent", "completed", "unknown"},
           GuardCall(q, state)
    PROVE  /\ table' \in Tables
           /\ \A k \in Keys :
                 \/ table'[k] = table[k]
                 \/ /\ k = requests[q].key
                    /\ requests[q].guard
                    /\ table[k].state = "in_flight"
                    /\ table'[k].state = state
  <1>1. CASE table' = table
    BY <1>1
  <1>2. CASE /\ requests[q].guard
             /\ table[requests[q].key].state = "in_flight"
             /\ state = "absent"
             /\ table' = WithoutKeys(table, {requests[q].key})
    BY <1>2, RemovedTable DEF Keyed
  <1>3. CASE /\ requests[q].guard
             /\ table[requests[q].key].state = "in_flight"
             /\ state # "absent"
             /\ table' = WithState(table, requests[q].key, state)
    <2>1. requests[q].key \in Keys /\ state \in DedupStates
      BY <1>3 DEF Keyed, DedupStates
    <2> QED BY <1>3, <2>1, StateTable
  <1> QED BY <1>1, <1>2, <1>3 DEF GuardCall

(* What Claim does, with the expired records named. *)
ClaimEffect(q, k, expired) ==
    LET t == WithoutKeys(table, expired) IN
    /\ allowed' = [e \in Keys |-> IF e \in expired THEN allowed[e] + 1
                                                   ELSE allowed[e]]
    /\ \/ /\ t[k].state = "absent"
          /\ table' = WithClaim(t, k, k \in Retained)
          /\ Claimed(q, k) \/ Turned(q, k, "retry")
       \/ table' = t /\ Turned(q, k, "retry")
       \/ /\ t[k].state \in {"completed", "unknown"}
          /\ table' = t
          /\ Turned(q, k, "success")

(* The claim of a key, by its parts. *)
LEMMA ClaimParts ==
    ASSUME NEW q \in Requests, NEW k \in Keys, Claim(q, k)
    PROVE  /\ up
           /\ requests[q].stage = "new"
           /\ \E expired \in SUBSET Expirable(table) : ClaimEffect(q, k, expired)
           /\ UNCHANGED <<decisions, decided, up, starts, work>>
  BY DEF Claim, ClaimEffect

(* Only completed records without retention expire. *)
LEMMA Expiring ==
    \A e \in Expirable(table) :
        e \in Keys /\ table[e].state = "completed" /\ ~table[e].retain
  BY DEF Expirable, Completed

(* The ways in which a request moves on. *)
Moved(q, r) ==
    /\ requests' \in [Requests -> Request]
    /\ requests'[q] = r
    /\ \A p \in Requests \ {q} : requests'[p] = requests[p]

(* prepare got the claim *)
LEMMA ClaimedEffect ==
    ASSUME requests \in [Requests -> Request], NEW q \in Requests,
           NEW k \in Keys, Claimed(q, k)
    PROVE  Moved(q, [stage |-> "claimed", key |-> k, guard |-> TRUE,
                     answer |-> requests[q].answer])
  BY ZenonT(40) DEF Claimed, Moved, Request, Stages

(* prepare returned *)
LEMMA TurnedEffect ==
    ASSUME requests \in [Requests -> Request], NEW q \in Requests,
           NEW k \in Keys, NEW answer \in {"success", "retry"},
           Turned(q, k, answer)
    PROVE  Moved(q, [stage |-> "done", key |-> k, guard |-> requests[q].guard,
                     answer |-> answer])
  BY Zenon DEF Turned, Moved, Request, Stages

(* complete returned, or the guard was dropped *)
LEMMA AnswerEffect ==
    ASSUME requests \in [Requests -> Request], NEW q \in Requests,
           NEW answer \in {"none", "success", "retry", "error"},
           Answer(q, answer)
    PROVE  Moved(q, [stage |-> "done", key |-> requests[q].key,
                     guard |-> FALSE, answer |-> answer])
  BY ZenonT(40) DEF Answer, Moved, Request, Stages

(* the guard is still armed *)
LEMMA DroppingEffect ==
    ASSUME requests \in [Requests -> Request], NEW q \in Requests,
           requests' = [requests EXCEPT ![q].stage = "dropping",
                                        ![q].answer = "retry"]
    PROVE  Moved(q, [stage |-> "dropping", key |-> requests[q].key,
                     guard |-> requests[q].guard, answer |-> "retry"])
  BY ZenonT(40) DEF Moved, Request, Stages

TypeInv == TypeOK /\ Keyed

(* Guards are held for keys if the one request that moved has it so. *)
LEMMA MovedKeyed ==
    ASSUME requests \in [Requests -> Request], Keyed, NEW q \in Requests,
           NEW r, Moved(q, r), r.guard => r.key \in Keys, r.stage # "new"
    PROVE  requests' \in [Requests -> Request] /\ Keyed'
  BY DEF Moved, Keyed

(* The requests after a call on a guard. *)
LEMMA SettledRequests ==
    ASSUME TypeInv, NEW q \in Requests,
           NEW answer \in {"none", "success", "retry", "error"},
           \/ Answer(q, answer)
           \/ requests' = [requests EXCEPT ![q].stage = "dropping",
                                           ![q].answer = "retry"]
    PROVE  requests' \in [Requests -> Request] /\ Keyed'
  <1> USE DEF TypeInv, TypeOK
  <1>1. CASE Answer(q, answer)
    BY Zenon, <1>1, AnswerEffect, MovedKeyed
  <1>2. CASE requests' = [requests EXCEPT ![q].stage = "dropping",
                                          ![q].answer = "retry"]
    <2>1. requests[q].guard => requests[q].key \in Keys
      BY DEF Keyed
    <2> QED BY Zenon, <1>2, <2>1, DroppingEffect, MovedKeyed
  <1> QED BY <1>1, <1>2

(* dispatch goes on *)
LEMMA AdvanceEffect ==
    ASSUME requests \in [Requests -> Request], NEW q \in Requests,
           NEW stage \in Stages, Advance(q, stage)
    PROVE  Moved(q, [stage |-> stage, key |-> requests[q].key,
                     guard |-> requests[q].guard,
                     answer |-> requests[q].answer])
  BY DEF Advance, Moved, Request

(* The requests after a step of dispatch. *)
LEMMA AdvancedRequests ==
    ASSUME TypeInv, NEW q \in Requests, NEW stage \in Stages \ {"new"},
           Advance(q, stage)
    PROVE  requests' \in [Requests -> Request] /\ Keyed'
  <1>1. requests[q].guard => requests[q].key \in Keys
    BY DEF TypeInv, Keyed
  <1> DEFINE r == [stage |-> stage, key |-> requests[q].key,
                   guard |-> requests[q].guard, answer |-> requests[q].answer]
  <1>2. Moved(q, r)
    BY AdvanceEffect DEF TypeInv, TypeOK
  <1>3. (r.guard => r.key \in Keys) /\ r.stage # "new"
    BY <1>1
  <1> HIDE DEF r
  <1> QED BY <1>2, <1>3, MovedKeyed DEF TypeInv, TypeOK

(* Types, and guards that are held for keys, at the start. *)
LEMMA TypeInit == Init => TypeInv
  <1> SUFFICES ASSUME Init PROVE TypeInv
    OBVIOUS
  <1>1. table \in [Keys -> DedupRecord]
    BY DEF Init, EmptyTable, NoRecord, DedupRecord, DedupStates
  <1>2. requests \in [Requests -> Request] /\ Keyed
    BY DEF Init, Keyed, NewRequest, Request, Stages
  <1>3. up \in BOOLEAN
    BY Zenon DEF Init
  <1>4. /\ starts \in Nat /\ decisions \in Nat /\ decided \subseteq Keys
        /\ runs \in [Keys -> Nat]
        /\ returned \in [Keys -> Nat]
        /\ allowed \in [Keys -> Nat]
    BY DEF Init
  <1> QED BY <1>1, <1>2, <1>3, <1>4 DEF TypeInv, TypeOK

(* Types, and guards that are held for keys, after every step. *)
LEMMA TypeStep == TypeInv /\ [Next]_vars => TypeInv'
  <1> SUFFICES ASSUME TypeInv, [Next]_vars PROVE TypeInv'
    OBVIOUS
  <1> USE DEF TypeInv, TypeOK, Keyed
  <1>t. table \in Tables
    BY DEF Tables
  <1>1. ASSUME NEW q \in Requests, NEW k \in Keys, Claim(q, k) PROVE TypeInv'
    <2>1. PICK expired \in SUBSET Expirable(table) : ClaimEffect(q, k, expired)
      BY <1>1, ClaimParts
    <2>2. table' \in Tables
      <3>1. WithoutKeys(table, expired) \in Tables
        BY <1>t, RemovedTable
      <3>2. WithClaim(WithoutKeys(table, expired), k, k \in Retained) \in Tables
        <4>1. (k \in Retained) \in BOOLEAN
          OBVIOUS
        <4> QED BY Zenon, <3>1, <4>1, ClaimTable
      <3> QED BY <2>1, <3>1, <3>2 DEF ClaimEffect
    <2>3. allowed' \in [Keys -> Nat]
      BY <2>1 DEF ClaimEffect
    <2>4. requests' \in [Requests -> Request] /\ Keyed'
      <3>1. CASE Claimed(q, k)
        BY ZenonT(40), <3>1, ClaimedEffect, MovedKeyed
      <3>2. CASE \E answer \in {"success", "retry"} : Turned(q, k, answer)
        <4>1. PICK answer \in {"success", "retry"} : Turned(q, k, answer)
          BY <3>2
        <4> DEFINE r == [stage |-> "done", key |-> k,
                         guard |-> requests[q].guard, answer |-> answer]
        <4>2. Moved(q, r)
          BY Zenon, <4>1, TurnedEffect
        <4>3. (r.guard => r.key \in Keys) /\ r.stage # "new"
          OBVIOUS
        <4> HIDE DEF r
        <4> QED BY <4>2, <4>3, MovedKeyed
      <3> QED BY <2>1, <3>1, <3>2 DEF ClaimEffect
    <2> QED BY <1>1, <2>2, <2>3, <2>4, ClaimParts DEF Tables, work
  <1>2. ASSUME NEW q \in Requests,
               \/ Unclaimed(q) \/ Prepared(q) \/ Reject(q) \/ Cancel(q)
        PROVE  TypeInv'
    <2>1. \E stage \in Stages \ {"new"} : Advance(q, stage)
      BY <1>2 DEF Unclaimed, Prepared, Reject, Cancel, Stages
    <2>2. requests' \in [Requests -> Request] /\ Keyed'
      BY <2>1, AdvancedRequests
    <2> QED BY <1>2, <2>2 DEF Unclaimed, Prepared, Reject, Cancel, store, work
  <1>3. ASSUME NEW q \in Requests, Invoke(q) \/ Return(q) PROVE TypeInv'
    <2>1. \E stage \in Stages \ {"new"} : Advance(q, stage)
      BY <1>3 DEF Invoke, Return, Stages
    <2>2. requests' \in [Requests -> Request] /\ Keyed'
      BY <2>1, AdvancedRequests
    <2> QED BY <1>3, <2>2 DEF Invoke, Return, store
  <1>4. ASSUME NEW q \in Requests, Unprepared(q) PROVE TypeInv'
    <2>1. table' \in Tables
      BY Zenon, <1>t, <1>4, UnpreparedEffect, GuardCallTable
    <2>2. requests' \in [Requests -> Request] /\ Keyed'
      BY Zenon, <1>4, UnpreparedEffect, SettledRequests
    <2> QED BY <1>4, <2>1, <2>2 DEF Unprepared, Tables, work
  <1>5. ASSUME NEW q \in Requests, Finish(q) PROVE TypeInv'
    <2>1. table' \in Tables
      BY Zenon, <1>t, <1>5, FinishEffect, GuardCallTable
    <2>2. requests' \in [Requests -> Request] /\ Keyed'
      BY ZenonT(40), <1>5, FinishEffect, SettledRequests
    <2> QED BY <1>5, <2>1, <2>2 DEF Finish, Tables, work
  <1>6. ASSUME NEW q \in Requests, Drop(q) PROVE TypeInv'
    <2>1. table' \in Tables
      BY <1>t, <1>6, DropEffect, GuardCallTable
    <2>2. requests' \in [Requests -> Request] /\ Keyed'
      <3>1. requests[q].answer \in {"none", "success", "retry", "error"}
        BY DEF Request
      <3> QED BY Zenon, <1>6, <3>1, DropEffect, SettledRequests
    <2> QED BY <1>6, <2>1, <2>2 DEF Drop, Tables, work
  <1>7. ASSUME NEW k \in Keys, NEW retryAllowed \in BOOLEAN,
               Resolve(k, retryAllowed)
        PROVE  TypeInv'
    <2>1. CASE retryAllowed
      <3>1. table' \in Tables /\ allowed' \in [Keys -> Nat]
        BY <1>t, <1>7, <2>1, RemovedTable DEF Resolve, Removed
      <3> QED BY <1>7, <3>1 DEF Resolve, Tables, work
    <2>2. CASE ~retryAllowed
      <3>1. table' = WithState(table, k, "completed") /\ UNCHANGED allowed
        BY <1>7, <2>2 DEF Resolve
      <3>2. table' \in Tables
        BY <1>t, <3>1, StateTable DEF DedupStates
      <3> QED BY <1>7, <3>1, <3>2 DEF Resolve, Tables, work
    <2> QED BY <2>1, <2>2
  <1>8. CASE ClearCompleted
    <2>1. table' \in Tables /\ allowed' \in [Keys -> Nat]
      BY <1>t, <1>8, RemovedTable DEF ClearCompleted, Removed
    <2> QED BY <1>8, <2>1 DEF ClearCompleted, Tables, work
  <1>9. CASE RecoverElsewhere \/ Start
    <2>1. table' \in Tables
      BY <1>t, <1>9, RecoveredTable DEF RecoverElsewhere, Start
    <2>2. up' \in BOOLEAN
      BY ZenonT(40), <1>9 DEF RecoverElsewhere, Start
    <2> QED BY <1>9, <2>1, <2>2 DEF RecoverElsewhere, Start, Tables, work
  <1>10. CASE Crash
    <2>1. up' \in BOOLEAN
      BY ZenonT(40), <1>10 DEF Crash
    <2>2. \A q \in Requests :
             /\ requests'[q] \in Request
             /\ requests'[q].guard \/ requests'[q].stage = "new" =>
                   requests'[q] = requests[q]
      BY ZenonT(40), <1>10 DEF Crash, Request, Stages
    <2>3. requests' \in [Requests -> Request] /\ Keyed'
      BY Zenon, <1>10, <2>2 DEF Crash
    <2> QED BY Zenon, <1>10, <2>1, <2>3 DEF Crash, store, work
  <1>11. CASE UNCHANGED vars
    BY <1>11 DEF vars, store, work
  <1> QED BY <1>1, <1>2, <1>3, <1>4, <1>5, <1>6, <1>7, <1>8, <1>9, <1>10,
             <1>11 DEF Next, Step

(* The table, the requests and the history keep their types. *)
THEOREM TypeCorrect == Spec => []TypeOK
  <1>1. Spec => []TypeInv
    BY TypeInit, TypeStep, PTL DEF Spec
  <1>2. TypeInv => TypeOK
    BY DEF TypeInv
  <1> QED BY <1>1, <1>2, PTL

-----------------------------------------------------------------------------
(* At most once *)

(* Request r has claimed k, has not run, and may yet run or give k back. *)
Counts(r, k) == r.key = k /\ r.stage \in {"claimed", "dispatching", "rejected"}

Unspent(k) == {q \in Requests : Counts(requests[q], k)}

Free(k) == IF table[k].state = "absent" THEN 1 ELSE 0

(* The runs that have been, and those that still may be without another    *)
(* record being removed.                                                    *)
Credit ==
    \A k \in Keys :
        runs[k] + Cardinality(Unspent(k)) + Free(k) <= 1 + allowed[k]

(* Counting is over finitely many requests. *)
LEMMA UnspentFinite ==
    ASSUME NEW k
    PROVE  IsFiniteSet(Unspent(k)) /\ Cardinality(Unspent(k)) \in Nat
  BY RequestsFinite, FS_Subset, FS_CardinalityType DEF Unspent

(* How the count changes when one request moves on. *)
LEMMA UnspentMoved ==
    ASSUME NEW q \in Requests, NEW r, Moved(q, r), NEW k \in Keys
    PROVE  Cardinality(Unspent(k)')
              = IF Counts(r, k)
                THEN IF Counts(requests[q], k) THEN Cardinality(Unspent(k))
                                               ELSE Cardinality(Unspent(k)) + 1
                ELSE IF Counts(requests[q], k) THEN Cardinality(Unspent(k)) - 1
                                               ELSE Cardinality(Unspent(k))
  <1>1. q \in Unspent(k) <=> Counts(requests[q], k)
    BY DEF Unspent
  <1>2. CASE Counts(r, k)
    <2>1. Unspent(k)' = Unspent(k) \cup {q}
      BY <1>2 DEF Unspent, Moved
    <2> QED BY <1>1, <1>2, <2>1, UnspentFinite, FS_AddElement
  <1>3. CASE ~Counts(r, k)
    <2>1. Unspent(k)' = Unspent(k) \ {q}
      BY <1>3 DEF Unspent, Moved
    <2> QED BY Zenon, <1>1, <1>3, <2>1, UnspentFinite, FS_RemoveElement
  <1> QED BY <1>2, <1>3

(* A request that goes on neither claiming nor running keeps the balance if *)
(* it takes no key into account that it did not, and only gives back a key   *)
(* it had not run.                                                           *)
LEMMA CreditMoved ==
    ASSUME TypeInv, Credit, NEW q \in Requests, NEW r, Moved(q, r),
           UNCHANGED <<runs, allowed>>,
           \A k \in Keys : Counts(r, k) => Counts(requests[q], k),
           \A k \in Keys :
              \/ Free(k)' = Free(k)
              \/ Counts(requests[q], k) /\ ~Counts(r, k)
    PROVE  Credit'
  <1> SUFFICES ASSUME NEW k \in Keys
               PROVE  runs[k] + Cardinality(Unspent(k)') + Free(k)'
                         <= 1 + allowed[k]
    BY DEF Credit
  <1>1. runs[k] \in Nat /\ allowed[k] \in Nat /\ Cardinality(Unspent(k)) \in Nat
    BY UnspentFinite DEF TypeInv, TypeOK
  <1>2. runs[k] + Cardinality(Unspent(k)) + Free(k) <= 1 + allowed[k]
    BY DEF Credit
  <1>3. Free(k) \in {0, 1} /\ Free(k)' \in {0, 1}
    BY DEF Free
  <1>4. \/ /\ Cardinality(Unspent(k)') <= Cardinality(Unspent(k))
           /\ Free(k)' = Free(k)
           /\ Cardinality(Unspent(k)') \in Int
        \/ Cardinality(Unspent(k)') = Cardinality(Unspent(k)) - 1
    BY <1>1, UnspentMoved
  <1> QED BY <1>1, <1>2, <1>3, <1>4

(* A guard's call frees no key but its own, and that only by releasing. *)
LEMMA GuardCallFree ==
    ASSUME TypeInv, NEW q \in Requests,
           NEW state \in {"absent", "completed", "unknown"},
           GuardCall(q, state)
    PROVE  \A k \in Keys : \/ Free(k)' = Free(k)
                           \/ k = requests[q].key /\ state = "absent"
  BY GuardCallTable DEF TypeInv, TypeOK, Tables, Free

(* The balance is kept when the requests that count become fewer or stay,   *)
(* and each key that becomes free has one more removal to its account.       *)
LEMMA CreditFreed ==
    ASSUME TypeInv, TypeInv', Credit, UNCHANGED runs,
           \A k \in Keys : Unspent(k)' \subseteq Unspent(k),
           \A k \in Keys : \/ Free(k)' <= Free(k) /\ allowed'[k] >= allowed[k]
                           \/ allowed'[k] = allowed[k] + 1
    PROVE  Credit'
  <1> SUFFICES ASSUME NEW k \in Keys
               PROVE  runs[k] + Cardinality(Unspent(k)') + Free(k)'
                         <= 1 + allowed'[k]
    BY DEF Credit
  <1>1. /\ runs[k] \in Nat /\ allowed[k] \in Nat /\ allowed'[k] \in Nat
        /\ Cardinality(Unspent(k)) \in Nat
    BY UnspentFinite DEF TypeInv, TypeOK
  <1>2. runs[k] + Cardinality(Unspent(k)) + Free(k) <= 1 + allowed[k]
    BY DEF Credit
  <1>3. Free(k) \in {0, 1} /\ Free(k)' \in {0, 1}
    BY DEF Free
  <1>4. /\ Cardinality(Unspent(k)') <= Cardinality(Unspent(k))
        /\ Cardinality(Unspent(k)') \in Nat
    BY UnspentFinite, FS_Subset, FS_CardinalityType
  <1> QED BY <1>1, <1>2, <1>3, <1>4

(* Claiming turns a free key into a request that counts. *)
LEMMA CreditClaim ==
    ASSUME TypeInv, TypeInv', Credit, NEW q \in Requests, NEW k \in Keys,
           Claim(q, k)
    PROVE  Credit'
  <1>1. PICK expired \in SUBSET Expirable(table) : ClaimEffect(q, k, expired)
    BY ClaimParts
  <1> DEFINE t == WithoutKeys(table, expired)
  <1>2. /\ t \in Tables
        /\ \A e \in Keys : t[e].state = "absent" =>
              table[e].state = "absent" \/ e \in expired
        /\ \A e \in Keys : e \in expired => t[e].state = "absent"
    BY RemovedTable DEF TypeInv, TypeOK, Tables
  <1> DEFINE claimed == WithClaim(t, k, k \in Retained)
  <1>c. claimed[k].state = "in_flight" /\ \A e \in Keys \ {k} : claimed[e] = t[e]
    <2> HIDE DEF t
    <2> QED BY <1>2 DEF WithClaim, Tables
  <1> HIDE DEF t, claimed
  <1>3. requests[q].stage = "new" /\ UNCHANGED runs
    BY ClaimParts DEF work
  <1>4. \A e \in Keys : allowed'[e] = IF e \in expired THEN allowed[e] + 1
                                                       ELSE allowed[e]
    BY <1>1 DEF ClaimEffect
  <1>5. \A e \in Keys : ~Counts(requests[q], e)
    BY <1>3 DEF Counts
  <1>6. CASE /\ t[k].state = "absent"
             /\ table' = claimed
             /\ Claimed(q, k)
    <2> SUFFICES ASSUME NEW e \in Keys
                 PROVE  runs[e] + Cardinality(Unspent(e)') + Free(e)'
                           <= 1 + allowed'[e]
      BY <1>3 DEF Credit
    <2>1. /\ runs[e] \in Nat /\ allowed[e] \in Nat
          /\ Cardinality(Unspent(e)) \in Nat
          /\ runs[e] + Cardinality(Unspent(e)) + Free(e) <= 1 + allowed[e]
      BY UnspentFinite DEF TypeInv, TypeOK, Credit
    <2> DEFINE r == [stage |-> "claimed", key |-> k, guard |-> TRUE,
                     answer |-> requests[q].answer]
    <2>2. Moved(q, r)
      BY <1>6, ClaimedEffect DEF TypeInv, TypeOK
    <2>3. Counts(r, e) <=> e = k
      BY DEF Counts
    <2>4. Cardinality(Unspent(e)') = IF e = k THEN Cardinality(Unspent(e)) + 1
                                              ELSE Cardinality(Unspent(e))
      <3> HIDE DEF r
      <3> QED BY <1>5, <2>2, <2>3, UnspentMoved
    <2>6. table'[e].state = IF e = k THEN "in_flight" ELSE t[e].state
      BY SMTT(30), <1>c, <1>6
    <2>7. CASE e = k
      BY <1>2, <1>4, <1>6, <2>1, <2>4, <2>6, <2>7 DEF Free
    <2>8. CASE e # k
      BY <1>2, <1>4, <2>1, <2>4, <2>6, <2>8 DEF Free
    <2> QED BY <2>7, <2>8
  <1>7. CASE /\ \/ table' = claimed
                \/ table' = t
             /\ \E answer \in {"retry", "success"} : Turned(q, k, answer)
    <2>1. \A e \in Keys : Unspent(e)' \subseteq Unspent(e)
      BY <1>7, TurnedEffect DEF TypeInv, TypeOK, Moved, Unspent, Counts
    <2>3. \A e \in Keys : table'[e].state = "absent" => t[e].state = "absent"
      BY <1>c, <1>7
    <2>4. \A e \in Keys : \/ Free(e)' <= Free(e) /\ allowed'[e] >= allowed[e]
                          \/ allowed'[e] = allowed[e] + 1
      BY <1>2, <1>4, <2>3 DEF Free, TypeInv, TypeOK
    <2> QED BY <1>3, <2>1, <2>4, CreditFreed
  <1> QED BY <1>1, <1>6, <1>7 DEF ClaimEffect, t, claimed

(* Running spends what the request counted for. *)
LEMMA CreditInvoke ==
    ASSUME TypeInv, Credit, NEW q \in Requests, Invoke(q)
    PROVE  Credit'
  <1> SUFFICES ASSUME NEW k \in Keys
               PROVE  runs'[k] + Cardinality(Unspent(k)') + Free(k)'
                         <= 1 + allowed'[k]
    BY DEF Credit
  <1>1. /\ runs[k] \in Nat /\ allowed[k] \in Nat
        /\ Cardinality(Unspent(k)) \in Nat
        /\ runs[k] + Cardinality(Unspent(k)) + Free(k) <= 1 + allowed[k]
    BY UnspentFinite DEF TypeInv, TypeOK, Credit
  <1>2. Free(k)' = Free(k) /\ Free(k) \in {0, 1} /\ allowed' = allowed
    BY DEF Invoke, store, Free
  <1>3. runs'[k] = IF k = requests[q].key THEN runs[k] + 1 ELSE runs[k]
    BY SMTT(30) DEF Invoke
  <1> DEFINE r == [stage |-> "running", key |-> requests[q].key,
                   guard |-> requests[q].guard, answer |-> requests[q].answer]
  <1>4. Moved(q, r)
    BY Zenon, AdvanceEffect DEF Invoke, TypeInv, TypeOK, Stages
  <1>5. ~Counts(r, k) /\ (Counts(requests[q], k) <=> k = requests[q].key)
    BY DEF Counts, Invoke
  <1> HIDE DEF r
  <1>6. Cardinality(Unspent(k)') = IF k = requests[q].key
                                   THEN Cardinality(Unspent(k)) - 1
                                   ELSE Cardinality(Unspent(k))
    BY <1>4, <1>5, UnspentMoved
  <1> QED BY <1>1, <1>2, <1>3, <1>6

(* The balance at the start: nothing has run and every key is free. *)
LEMMA CreditInit == Init => Credit
  <1> SUFFICES ASSUME Init, NEW k \in Keys
               PROVE  runs[k] + Cardinality(Unspent(k)) + Free(k)
                         <= 1 + allowed[k]
    BY Zenon DEF Credit
  <1>1. Unspent(k) = {}
    BY DEF Unspent, Counts, Init, NewRequest
  <1>2. runs[k] = 0 /\ allowed[k] = 0
    BY DEF Init
  <1>3. Free(k) \in {0, 1}
    BY DEF Free
  <1> QED BY <1>1, <1>2, <1>3, FS_EmptySet

(* Every step keeps the balance. *)
LEMMA CreditStep ==
    ASSUME TypeInv, TypeInv', Credit, [Next]_vars
    PROVE  Credit'
  <1>t. requests \in [Requests -> Request]
    BY DEF TypeInv, TypeOK
  <1>1. ASSUME NEW q \in Requests, NEW k \in Keys, Claim(q, k) PROVE Credit'
    BY <1>1, CreditClaim
  <1>2. ASSUME NEW q \in Requests, Invoke(q) PROVE Credit'
    BY <1>2, CreditInvoke
  <1>3. ASSUME NEW q \in Requests,
               \/ Unclaimed(q) \/ Prepared(q) \/ Reject(q) \/ Cancel(q)
               \/ Return(q)
        PROVE  Credit'
    <2>1. PICK stage \in Stages :
             /\ Advance(q, stage)
             /\ stage \in {"claimed", "dispatching", "rejected"} =>
                   \/ requests[q].stage \in {"claimed", "dispatching"}
                   \/ requests[q].stage = "new"
      BY <1>3 DEF Unclaimed, Prepared, Reject, Cancel, Return, Stages
    <2> DEFINE r == [stage |-> stage, key |-> requests[q].key,
                     guard |-> requests[q].guard,
                     answer |-> requests[q].answer]
    <2>2. Moved(q, r)
      BY <1>t, <2>1, AdvanceEffect
    <2>3. requests[q].stage = "new" => requests[q].key \notin Keys
      BY KeysAssumption DEF TypeInv, Keyed, NewRequest
    <2>4. \A k \in Keys : Counts(r, k) => Counts(requests[q], k)
      BY <2>1, <2>3 DEF Counts
    <2>5. UNCHANGED <<runs, allowed, table>>
      BY <1>3 DEF Unclaimed, Prepared, Reject, Cancel, Return, store, work
    <2>0. table' = table
      BY <2>5
    <2>6. \A k \in Keys :
             \/ Free(k)' = Free(k)
             \/ Counts(requests[q], k) /\ ~Counts(r, k)
      BY <2>0 DEF Free
    <2>7. UNCHANGED <<runs, allowed>>
      BY SMTT(30), <2>5
    <2> HIDE DEF r
    <2> QED BY <2>2, <2>4, <2>6, <2>7, CreditMoved
  <1>4. ASSUME NEW q \in Requests, NEW r, Moved(q, r),
               r.stage \in {"done", "dropping"},
               UNCHANGED <<runs, allowed>>,
               NEW state \in {"absent", "completed", "unknown"},
               GuardCall(q, state),
               state = "absent" => requests[q].stage \in {"claimed", "rejected"}
        PROVE  Credit'
    <2>1. \A k \in Keys : ~Counts(r, k)
      BY <1>4 DEF Counts
    <2>2. \A k \in Keys : Free(k)' = Free(k) \/ Counts(requests[q], k)
      BY <1>4, GuardCallFree DEF Counts
    <2> QED BY <1>4, <2>1, <2>2, CreditMoved
  <1>5. ASSUME NEW q \in Requests,
               NEW answer \in {"none", "success", "retry", "error"},
               \/ Answer(q, answer)
               \/ requests' = [requests EXCEPT ![q].stage = "dropping",
                                               ![q].answer = "retry"]
        PROVE  \E r : Moved(q, r) /\ r.stage \in {"done", "dropping"}
    <2>1. CASE Answer(q, answer)
      <3> DEFINE r == [stage |-> "done", key |-> requests[q].key,
                       guard |-> FALSE, answer |-> answer]
      <3>1. Moved(q, r)
        BY Zenon, <1>t, <2>1, AnswerEffect
      <3> QED BY <3>1
    <2>2. CASE requests' = [requests EXCEPT ![q].stage = "dropping",
                                            ![q].answer = "retry"]
      <3> DEFINE r == [stage |-> "dropping", key |-> requests[q].key,
                       guard |-> requests[q].guard, answer |-> "retry"]
      <3>1. Moved(q, r)
        BY Zenon, <1>t, <2>2, DroppingEffect
      <3> QED BY <3>1
    <2> QED BY <1>5, <2>1, <2>2
  <1>6. ASSUME NEW q \in Requests, Unprepared(q) PROVE Credit'
    <2>1. requests[q].stage = "claimed" /\ UNCHANGED <<runs, allowed>>
      BY <1>6 DEF Unprepared, work
    <2> QED BY Zenon, <1>4, <1>5, <1>6, <2>1, UnpreparedEffect
  <1>7. ASSUME NEW q \in Requests, Finish(q) PROVE Credit'
    <2>1. UNCHANGED <<runs, allowed>>
      BY <1>7 DEF Finish, work
    <2>2. PICK state \in {"absent", "completed", "unknown"},
               answer \in {"success", "retry", "error"} :
             /\ GuardCall(q, state)
             /\ \/ Answer(q, answer)
                \/ requests' = [requests EXCEPT ![q].stage = "dropping",
                                                ![q].answer = "retry"]
             /\ state = "absent" => requests[q].stage = "rejected"
      BY Zenon, <1>7, FinishEffect
    <2> QED BY <1>4, <1>5, <2>1, <2>2
  <1>8. ASSUME NEW q \in Requests, Drop(q) PROVE Credit'
    <2>1. UNCHANGED <<runs, allowed>>
      BY <1>8 DEF Drop, work
    <2>2. requests[q].answer \in {"none", "success", "retry", "error"}
      BY <1>t DEF Request
    <2> QED BY Zenon, <1>4, <1>5, <1>8, <2>1, <2>2, DropEffect
  <1>9. ASSUME UNCHANGED <<runs, requests>>, NEW ks \in SUBSET Keys,
               Removed(table, ks)
        PROVE  Credit'
    <2>1. \A k \in Keys : \/ Free(k)' <= Free(k) /\ allowed'[k] >= allowed[k]
                          \/ allowed'[k] = allowed[k] + 1
      BY <1>9, RemovedTable DEF Removed, Free, TypeInv, TypeOK, Tables
    <2>2. \A k \in Keys : Unspent(k)' \subseteq Unspent(k)
      BY SMTT(30), <1>9 DEF Unspent, Counts
    <2> QED BY <1>9, <2>1, <2>2, CreditFreed
  <1>10. ASSUME UNCHANGED <<runs, allowed>>,
                \A k \in Keys : Unspent(k)' \subseteq Unspent(k),
                \A k \in Keys : table'[k].state = "absent" =>
                                   table[k].state = "absent"
         PROVE  Credit'
    <2>1. \A k \in Keys : Free(k)' <= Free(k) /\ allowed'[k] >= allowed[k]
      BY <1>10 DEF Free, TypeInv, TypeOK
    <2> QED BY <1>10, <2>1, CreditFreed
  <1>11. ASSUME NEW k \in Keys, NEW retryAllowed \in BOOLEAN,
                Resolve(k, retryAllowed)
         PROVE  Credit'
    <2>1. CASE retryAllowed
      <3>1. Removed(table, {k}) /\ UNCHANGED <<runs, requests>>
        BY <1>11, <2>1 DEF Resolve, work
      <3> QED BY <1>9, <3>1
    <2>2. CASE ~retryAllowed
      <3>1. /\ table' = WithState(table, k, "completed")
            /\ UNCHANGED <<allowed, runs, requests>>
        BY <1>11, <2>2 DEF Resolve, work
      <3>2. \A e \in Keys : table'[e].state = "absent" =>
                               table[e].state = "absent"
        <4>1. table \in Tables /\ "completed" \in DedupStates
          BY DEF TypeInv, TypeOK, Tables, DedupStates
        <4>2. table'[k].state = "completed"
              /\ \A e \in Keys \ {k} : table'[e] = table[e]
          BY SMTT(30), <3>1, <4>1, StateTable
        <4> QED BY <4>2
      <3>3. \A e \in Keys : Unspent(e)' \subseteq Unspent(e)
        BY <3>1 DEF Unspent, Counts
      <3> QED BY <1>10, <3>1, <3>2, <3>3
    <2> QED BY <2>1, <2>2
  <1>12. CASE ClearCompleted
    BY <1>9, <1>12 DEF ClearCompleted, Completed, work
  <1>13. CASE RecoverElsewhere \/ Start
    <2>1. table' = RecoveredClaims(table) /\ UNCHANGED <<allowed, runs, requests>>
      BY <1>13 DEF RecoverElsewhere, Start, work
    <2>2. \A e \in Keys : table'[e].state = "absent" => table[e].state = "absent"
      BY <2>1, RecoveredTable DEF TypeInv, TypeOK, Tables
    <2>3. \A e \in Keys : Unspent(e)' \subseteq Unspent(e)
      BY <2>1 DEF Unspent, Counts
    <2> QED BY <1>10, <2>1, <2>2, <2>3
  <1>14. CASE Crash
    <2>1. UNCHANGED <<allowed, runs, table>>
      BY ZenonT(40), <1>14 DEF Crash, store, work
    <2>2. \A q \in Requests : \/ requests'[q] = requests[q]
                              \/ requests'[q].stage = "done"
      BY Zenon, <1>14, <1>t DEF Crash, Request
    <2>3. \A e \in Keys : Unspent(e)' \subseteq Unspent(e)
      BY <2>2 DEF Unspent, Counts
    <2> QED BY SMTT(30), <1>10, <2>1, <2>3
  <1>15. CASE UNCHANGED vars
    BY <1>15 DEF vars, store, work, Credit, Unspent, Counts, Free
  <1> QED BY SMTT(30), <1>1, <1>2, <1>3, <1>6, <1>7, <1>8, <1>11, <1>12, <1>13, <1>14,
             <1>15 DEF Next, Step

(* However many requests carry an identity, and whatever fails or restarts, *)
(* its handler begins at most once more often than its record was removed on *)
(* purpose (claim, DedupGuard, recover_in_flight).                           *)
THEOREM RunsAtMostOnce == Spec => []AtMostOnce
  <1>1. Init => TypeInv /\ Credit
    BY TypeInit, CreditInit
  <1>2. TypeInv /\ Credit /\ [Next]_vars => (TypeInv /\ Credit)'
    BY TypeStep, CreditStep
  <1>3. TypeInv /\ Credit => AtMostOnce
    <2> SUFFICES ASSUME TypeInv, Credit, NEW k \in Keys
                 PROVE  runs[k] <= 1 + allowed[k]
      BY Zenon DEF AtMostOnce
    <2>1. runs[k] \in Nat /\ allowed[k] \in Nat /\ Cardinality(Unspent(k)) \in Nat
      BY UnspentFinite DEF TypeInv, TypeOK
    <2>2. Free(k) \in {0, 1}
      BY DEF Free
    <2> QED BY <2>1, <2>2 DEF Credit
  <1> QED BY <1>1, <1>2, <1>3, PTL DEF Spec

-----------------------------------------------------------------------------
(* Decided by an operator *)

(* The records that only an operator may change. *)
Decidable(record) ==
    \/ record.state = "unknown"
    \/ record.state = "completed" /\ record.retain

(* A claim, its expiry included, leaves them alone. *)
LEMMA ClaimLeaves ==
    ASSUME TypeInv, NEW q \in Requests, NEW k \in Keys, Claim(q, k)
    PROVE  \A e \in Keys : Decidable(table[e]) => table'[e] = table[e]
  <1>1. PICK expired \in SUBSET Expirable(table) : ClaimEffect(q, k, expired)
    BY ClaimParts
  <1> DEFINE t == WithoutKeys(table, expired)
  <1>2. t \in Tables
    BY RemovedTable DEF TypeInv, TypeOK, Tables
  <1>3. ASSUME NEW e \in Keys, Decidable(table[e]) PROVE t[e] = table[e]
    <2>1. e \notin expired
      BY SMTT(30), <1>3, Expiring DEF Decidable
    <2> QED BY <2>1, RemovedTable DEF TypeInv, TypeOK, Tables
  <1> HIDE DEF t
  <1>4. \/ t[k].state = "absent" /\ table' = WithClaim(t, k, k \in Retained)
        \/ table' = t
    BY SMTT(30), <1>1 DEF ClaimEffect, t
  <1>5. ASSUME NEW e \in Keys, Decidable(table[e]) PROVE table'[e] = table[e]
    <2>1. t[e] = table[e]
      BY <1>3, <1>5
    <2>2. CASE table' = t
      BY SMTT(30), <2>1, <2>2
    <2>3. CASE t[k].state = "absent" /\ table' = WithClaim(t, k, k \in Retained)
      <3>1. e # k
        BY <1>5, <2>1, <2>3 DEF Decidable
      <3>2. WithClaim(t, k, k \in Retained)[e] = t[e]
        BY SMTT(30), <1>2, <3>1 DEF WithClaim, Tables
      <3> QED BY <2>1, <2>3, <3>2
    <2> QED BY SMTT(30), <1>4, <2>2, <2>3
  <1> QED BY <1>5

(* The calls of a guard and recovery touch claims in flight only. *)
LEMMA OthersLeave ==
    ASSUME TypeInv, NEW q \in Requests,
           \/ Unclaimed(q) \/ Prepared(q) \/ Unprepared(q) \/ Reject(q)
           \/ Invoke(q) \/ Return(q) \/ Finish(q) \/ Drop(q) \/ Cancel(q)
           \/ RecoverElsewhere \/ Crash \/ Start
    PROVE  \A e \in Keys : \/ table'[e] = table[e]
                           \/ table[e].state = "in_flight"
  <1>t. table \in Tables
    BY SMTT(30) DEF TypeInv, TypeOK, Tables
  <1>1. CASE \/ Unclaimed(q) \/ Prepared(q) \/ Reject(q)
             \/ Invoke(q) \/ Return(q) \/ Cancel(q) \/ Crash
    <2>1. table' = table
      BY ZenonT(40), <1>1
      DEF Unclaimed, Prepared, Reject, Invoke, Return, Cancel, Crash, store
    <2> QED BY <2>1
  <1>2. CASE Unprepared(q)
    BY Zenon, <1>2, <1>t, UnpreparedEffect, GuardCallTable DEF TypeInv
  <1>3. CASE Drop(q)
    BY <1>3, <1>t, DropEffect, GuardCallTable DEF TypeInv
  <1>4. CASE Finish(q)
    <2>1. \E state \in {"absent", "completed", "unknown"} : GuardCall(q, state)
      BY Zenon, <1>4, FinishEffect
    <2> QED BY <1>t, <2>1, GuardCallTable DEF TypeInv
  <1>5. CASE RecoverElsewhere \/ Start
    BY <1>5, <1>t, RecoveredTable DEF RecoverElsewhere, Start
  <1> QED BY <1>1, <1>2, <1>3, <1>4, <1>5

(* Unknown records, and completed ones that are retained, change by an       *)
(* operator's decision only (resolve_unknown, clear_completed_before).       *)
THEOREM OperatorsDecide == Spec => DecidedByOperator
  <1> DEFINE P == \A k \in Keys : /\ \/ table[k].state = "unknown"
                                     \/ table[k].state = "completed" /\ table[k].retain
                                  /\ table'[k] # table[k]
                                  => decisions' = decisions + 1
  <1>1. TypeInv /\ [Next]_vars => [P]_vars
    <2> SUFFICES ASSUME TypeInv, Next PROVE P
      BY SMTT(30)
    <2>1. CASE \E q \in Requests, k \in Keys : Claim(q, k)
      <3>1. \A k \in Keys : Decidable(table[k]) => table'[k] = table[k]
        BY SMTT(30), <2>1, ClaimLeaves
      <3> QED BY <3>1 DEF Decidable
    <2>2. CASE \E q \in Requests :
                  \/ Unclaimed(q) \/ Prepared(q) \/ Unprepared(q) \/ Reject(q)
                  \/ Invoke(q) \/ Return(q) \/ Finish(q) \/ Drop(q) \/ Cancel(q)
      BY <2>2, OthersLeave
    <2>3. CASE RecoverElsewhere \/ Crash \/ Start
      <3>1. CASE Crash
        BY Zenon, <3>1 DEF Crash, store
      <3>2. CASE RecoverElsewhere \/ Start
        BY SMTT(30), <3>2, RecoveredTable DEF RecoverElsewhere, Start, TypeInv, TypeOK, Tables
      <3> QED BY <2>3, <3>1, <3>2
    <2>4. CASE \/ \E k \in Keys, retryAllowed \in BOOLEAN : Resolve(k, retryAllowed)
               \/ ClearCompleted
      BY Zenon, <2>4 DEF Resolve, ClearCompleted
    <2> QED BY Zenon, <2>1, <2>2, <2>3, <2>4 DEF Next, Step
  <1>2. Spec => []TypeInv
    BY TypeInit, TypeStep, PTL DEF Spec
  <1>3. [][P]_vars => DecidedByOperator
    BY PTL DEF DecidedByOperator
  <1> QED BY <1>1, <1>2, <1>3, PTL DEF Spec

-----------------------------------------------------------------------------
(* Success is accounted for *)

(* Why a sender may be told success: the handler returned for the key, or an *)
(* operator decided about it, or its record says that nobody knows.          *)
Accounted ==
    /\ \A k \in Keys :
          table[k].state = "completed" => returned[k] > 0 \/ k \in decided
    /\ \A q \in Requests :
          requests[q].stage = "ended" /\ requests[q].key \in Keys =>
              returned[requests[q].key] > 0
    /\ \A q \in Requests :
          requests[q].answer = "success" /\ requests[q].key \in Keys =>
              \/ returned[requests[q].key] > 0
              \/ table[requests[q].key].state = "unknown"
              \/ requests[q].key \in decided

(* What a step may do to a key. *)
KeyKept(k) ==
    /\ returned'[k] >= returned[k]
    /\ k \in decided => k \in decided'
    /\ table[k].state = "unknown" =>
          table'[k].state = "unknown" \/ k \in decided'
    /\ table'[k].state = "completed" =>
          \/ table[k].state = "completed"
          \/ returned'[k] > 0
          \/ k \in decided'

(* What a step may do to a request. *)
RequestKept(q) ==
    \/ /\ requests'[q].key = requests[q].key
       /\ requests'[q].answer = requests[q].answer
       /\ requests'[q].stage = "ended" => requests[q].stage = "ended"
    \/ /\ requests'[q].stage # "ended"
       /\ requests'[q].answer # "success"
    \/ requests'[q].key \in Keys => returned'[requests'[q].key] > 0
    \/ /\ requests'[q].stage # "ended"
       /\ requests'[q].key \in Keys =>
             \/ table'[requests'[q].key].state = "unknown"
             \/ requests'[q].key \in decided'

(* Such a step keeps the account. *)
LEMMA AccountedKept ==
    ASSUME returned \in [Keys -> Nat], returned' \in [Keys -> Nat], Accounted,
           \A k \in Keys : KeyKept(k), \A q \in Requests : RequestKept(q)
    PROVE  Accounted'
  <1>1. ASSUME NEW k \in Keys, table'[k].state = "completed"
        PROVE  returned'[k] > 0 \/ k \in decided'
    <2>1. KeyKept(k) /\ returned[k] \in Nat /\ returned'[k] \in Nat
      BY SMTT(30)
    <2>2. table[k].state = "completed" => returned[k] > 0 \/ k \in decided
      BY SMTT(30) DEF Accounted
    <2> QED BY <1>1, <2>1, <2>2 DEF KeyKept
  <1>2. ASSUME NEW q \in Requests, requests'[q].stage = "ended",
               requests'[q].key \in Keys
        PROVE  returned'[requests'[q].key] > 0
    <2> DEFINE k == requests'[q].key
    <2>1. KeyKept(k) /\ returned[k] \in Nat /\ returned'[k] \in Nat
      BY <1>2
    <2>2. \/ requests[q].key = k /\ requests[q].stage = "ended"
          \/ returned'[k] > 0
      BY <1>2 DEF RequestKept
    <2>3. requests[q].key = k /\ requests[q].stage = "ended" => returned[k] > 0
      BY SMTT(30), <1>2 DEF Accounted
    <2> QED BY <2>1, <2>2, <2>3 DEF KeyKept
  <1>3. ASSUME NEW q \in Requests, requests'[q].answer = "success",
               requests'[q].key \in Keys
        PROVE  \/ returned'[requests'[q].key] > 0
               \/ table'[requests'[q].key].state = "unknown"
               \/ requests'[q].key \in decided'
    <2> DEFINE k == requests'[q].key
    <2>1. KeyKept(k) /\ returned[k] \in Nat /\ returned'[k] \in Nat
      BY <1>3
    <2>2. \/ requests[q].key = k /\ requests[q].answer = "success"
          \/ returned'[k] > 0
          \/ table'[k].state = "unknown"
          \/ k \in decided'
      BY <1>3 DEF RequestKept
    <2>3. requests[q].key = k /\ requests[q].answer = "success" =>
             returned[k] > 0 \/ table[k].state = "unknown" \/ k \in decided
      BY SMTT(30), <1>3 DEF Accounted
    <2> QED BY <2>1, <2>2, <2>3 DEF KeyKept
  <1> QED BY <1>1, <1>2, <1>3 DEF Accounted

(* The requests a step of q does not move are kept. *)
LEMMA MovedKept ==
    ASSUME NEW q \in Requests, NEW r, Moved(q, r), RequestKept(q)
    PROVE  \A p \in Requests : RequestKept(p)
  BY DEF Moved, RequestKept

(* The calls of a guard keep the account: only complete, of a delivery that  *)
(* ended, completes a record, and only complete answers success.             *)
LEMMA SettledKept ==
    ASSUME TypeInv, Accounted, NEW q \in Requests,
           NEW state \in {"absent", "completed", "unknown"},
           NEW answer \in {"none", "success", "retry", "error"},
           GuardCall(q, state),
           \/ Answer(q, answer)
           \/ requests' = [requests EXCEPT ![q].stage = "dropping",
                                           ![q].answer = "retry"],
           \/ requests[q].stage = "ended"
           \/ /\ state # "completed"
              /\ answer = "success" => requests[q].answer = "success",
           UNCHANGED <<decided, returned>>
    PROVE  Accounted'
  <1>t. table \in Tables /\ returned \in [Keys -> Nat]
    BY DEF TypeInv, TypeOK, Tables
  <1>1. \A k \in Keys : \/ table'[k] = table[k]
                        \/ /\ k = requests[q].key
                           /\ table[k].state = "in_flight"
                           /\ table'[k].state = state
    BY <1>t, GuardCallTable DEF TypeInv
  <1>2. ASSUME NEW k \in Keys PROVE KeyKept(k)
    <2>1. requests[q].stage = "ended" /\ k = requests[q].key => returned[k] > 0
      BY DEF Accounted
    <2>2. returned'[k] >= returned[k] /\ returned'[k] = returned[k]
      BY <1>t
    <2> QED BY <1>1, <2>1, <2>2 DEF KeyKept
  <1>3. \A p \in Requests : RequestKept(p)
    <2>r. requests \in [Requests -> Request]
      BY DEF TypeInv, TypeOK
    <2>1. CASE Answer(q, answer)
      <3> DEFINE r == [stage |-> "done", key |-> requests[q].key,
                       guard |-> FALSE, answer |-> answer]
      <3>1. Moved(q, r)
        BY Zenon, <2>r, <2>1, AnswerEffect
      <3>2. /\ requests'[q].key = requests[q].key
            /\ requests'[q].answer = answer
            /\ requests'[q].stage = "done"
        BY <3>1 DEF Moved
      <3>3. requests[q].stage = "ended" /\ requests[q].key \in Keys =>
               returned[requests[q].key] > 0
        BY DEF Accounted
      <3>4. RequestKept(q)
        BY <3>2, <3>3 DEF RequestKept
      <3> HIDE DEF r
      <3> QED BY <3>1, <3>4, MovedKept
    <2>2. CASE requests' = [requests EXCEPT ![q].stage = "dropping",
                                            ![q].answer = "retry"]
      <3> DEFINE r == [stage |-> "dropping", key |-> requests[q].key,
                       guard |-> requests[q].guard, answer |-> "retry"]
      <3>1. Moved(q, r)
        BY Zenon, <2>r, <2>2, DroppingEffect
      <3>2. requests'[q].answer = "retry" /\ requests'[q].stage = "dropping"
        BY <3>1 DEF Moved
      <3>3. RequestKept(q)
        BY <3>2 DEF RequestKept
      <3> HIDE DEF r
      <3> QED BY <3>1, <3>3, MovedKept
    <2> QED BY <2>1, <2>2
  <1> QED BY <1>t, <1>2, <1>3, AccountedKept

(* A claim keeps the account: a duplicate is told success of a record that   *)
(* is completed or unknown.                                                  *)
LEMMA ClaimKept ==
    ASSUME TypeInv, Accounted, NEW q \in Requests, NEW k \in Keys, Claim(q, k)
    PROVE  Accounted'
  <1>t. /\ table \in Tables
        /\ returned \in [Keys -> Nat]
        /\ requests \in [Requests -> Request]
    BY DEF TypeInv, TypeOK, Tables
  <1>u. UNCHANGED <<decided, returned>>
    BY ClaimParts DEF work
  <1>0. PICK expired \in SUBSET Expirable(table) : ClaimEffect(q, k, expired)
    BY ClaimParts
  <1> DEFINE t == WithoutKeys(table, expired)
  <1>1. t \in Tables /\ \A e \in Keys : t[e] = table[e] \/ t[e].state = "absent"
    BY SMTT(30), <1>t, RemovedTable
  <1>2. \A e \in Keys : table[e].state = "unknown" => table'[e] = table[e]
    BY SMTT(30), ClaimLeaves DEF Decidable
  <1>3. \A e \in Keys : table'[e].state = "completed" => t[e].state = "completed"
    <2>1. CASE table' = t
      BY SMTT(30), <2>1
    <2>2. CASE table' = WithClaim(t, k, k \in Retained)
      <3>1. (k \in Retained) \in BOOLEAN
        OBVIOUS
      <3> HIDE DEF t
      <3>2. /\ WithClaim(t, k, k \in Retained)[k].state = "in_flight"
            /\ \A e \in Keys \ {k} : WithClaim(t, k, k \in Retained)[e] = t[e]
        <4>1. t \in Tables
          BY <1>1
        <4> QED BY ZenonT(40), <3>1, <4>1, ClaimTable
      <3> QED BY <2>2, <3>2
    <2> QED BY <1>0, <2>1, <2>2 DEF ClaimEffect
  <1>4. ASSUME NEW e \in Keys PROVE KeyKept(e)
    <2>1. returned'[e] = returned[e] /\ returned'[e] >= returned[e]
      BY <1>t, <1>u
    <2>2. table'[e].state = "completed" => table[e].state = "completed"
      BY SMTT(30), <1>1, <1>3
    <2> HIDE DEF t
    <2> QED BY <1>u, <1>2, <2>1, <2>2 DEF KeyKept
  <1>5. \A p \in Requests : RequestKept(p)
    <2>1. CASE Claimed(q, k)
      <3> DEFINE r == [stage |-> "claimed", key |-> k, guard |-> TRUE,
                       answer |-> requests[q].answer]
      <3>1. Moved(q, r)
        BY Zenon, <1>t, <2>1, ClaimedEffect
      <3>2. requests[q].answer = "none"
        BY SMTT(30), ClaimParts DEF TypeInv, Keyed, NewRequest
      <3>3. requests'[q].answer = "none" /\ requests'[q].stage = "claimed"
        BY <3>1, <3>2 DEF Moved
      <3>4. RequestKept(q)
        BY <3>3 DEF RequestKept
      <3> HIDE DEF r
      <3> QED BY <3>1, <3>4, MovedKept
    <2>2. ASSUME NEW answer \in {"success", "retry"}, Turned(q, k, answer),
                 answer = "success" =>
                    t[k].state \in {"completed", "unknown"} /\ table' = t
          PROVE  \A p \in Requests : RequestKept(p)
      <3> DEFINE r == [stage |-> "done", key |-> k,
                       guard |-> requests[q].guard, answer |-> answer]
      <3>1. Moved(q, r)
        BY Zenon, <1>t, <2>2, TurnedEffect
      <3>2. /\ requests'[q].key = k
            /\ requests'[q].answer = answer
            /\ requests'[q].stage = "done"
        BY <3>1 DEF Moved
      <3>3. answer = "success" => \/ table'[k].state = "unknown"
                                  \/ table[k].state = "completed"
        BY SMTT(30), <1>1, <2>2
      <3>4. table[k].state = "completed" => returned'[k] > 0 \/ k \in decided'
        BY <1>u DEF Accounted
      <3> HIDE DEF r, t
      <3>5. RequestKept(q)
        BY SMTT(30), <3>2, <3>3, <3>4 DEF RequestKept
      <3> QED BY <3>1, <3>5, MovedKept
    <2>3. CASE Turned(q, k, "retry")
      BY SMTT(30), <2>2, <2>3
    <2>4. CASE /\ Turned(q, k, "success")
               /\ t[k].state \in {"completed", "unknown"}
               /\ table' = t
      BY <2>2, <2>4
    <2> QED BY <1>0, <2>1, <2>3, <2>4 DEF ClaimEffect
  <1> HIDE DEF t
  <1> QED BY <1>t, <1>u, <1>4, <1>5, AccountedKept

(* The account is kept by every step. *)
LEMMA AccountedStep ==
    ASSUME TypeInv, Accounted, [Next]_vars
    PROVE  Accounted'
  <1>t. /\ table \in Tables
        /\ returned \in [Keys -> Nat]
        /\ requests \in [Requests -> Request]
    BY DEF TypeInv, TypeOK, Tables
  <1>r. returned' \in [Keys -> Nat]
    BY TypeStep DEF TypeInv, TypeOK
  <1>n. \A k \in Keys : returned[k] >= returned[k]
    BY <1>t
  <1>1. ASSUME NEW q \in Requests, NEW k \in Keys, Claim(q, k) PROVE Accounted'
    BY <1>1, ClaimKept
  <1>2. ASSUME NEW q \in Requests,
               \/ Unclaimed(q) \/ Prepared(q) \/ Reject(q) \/ Invoke(q)
               \/ Cancel(q)
        PROVE  Accounted'
    <2>1. /\ \E stage \in Stages \ {"ended"} : Advance(q, stage)
          /\ UNCHANGED <<table, decided, returned>>
      BY <1>2
      DEF Unclaimed, Prepared, Reject, Invoke, Cancel, Stages, store, work
    <2>2. PICK stage \in Stages \ {"ended"} : Advance(q, stage)
      BY <2>1
    <2> DEFINE r == [stage |-> stage, key |-> requests[q].key,
                     guard |-> requests[q].guard, answer |-> requests[q].answer]
    <2>3. Moved(q, r)
      BY SMTT(30), <1>t, <2>2, AdvanceEffect
    <2>4. RequestKept(q)
      BY <2>3 DEF Moved, RequestKept
    <2> HIDE DEF r
    <2>5. \A p \in Requests : RequestKept(p)
      BY <2>3, <2>4, MovedKept
    <2>6. \A k \in Keys : KeyKept(k)
      BY <1>n, <2>1 DEF KeyKept
    <2> QED BY SMTT(30), <1>t, <1>r, <2>5, <2>6, AccountedKept
  <1>3. ASSUME NEW q \in Requests, Return(q) PROVE Accounted'
    <2>1. PICK stage \in {"ended", "audit"} : Advance(q, stage)
      BY <1>3 DEF Return
    <2>2. /\ \A k \in Keys : returned'[k] = IF k = requests[q].key
                                            THEN returned[k] + 1 ELSE returned[k]
          /\ UNCHANGED <<table, decided>>
      BY SMTT(30), <1>3 DEF Return, store
    <2> DEFINE r == [stage |-> stage, key |-> requests[q].key,
                     guard |-> requests[q].guard, answer |-> requests[q].answer]
    <2>3. Moved(q, r)
      BY Zenon, <1>t, <2>1, AdvanceEffect DEF Stages
    <2>4. requests[q].key \in Keys => returned'[requests[q].key] > 0
      BY <1>t, <2>2
    <2>5. RequestKept(q)
      BY <2>3, <2>4 DEF Moved, RequestKept
    <2> HIDE DEF r
    <2>6. \A p \in Requests : RequestKept(p)
      BY <2>3, <2>5, MovedKept
    <2>7. \A k \in Keys : returned'[k] >= returned[k]
      BY <1>t, <2>2
    <2>8. \A k \in Keys : KeyKept(k)
      BY <2>2, <2>7 DEF KeyKept
    <2> QED BY <1>t, <1>r, <2>6, <2>8, AccountedKept
  <1>4. ASSUME NEW q \in Requests, Unprepared(q) PROVE Accounted'
    <2>1. UNCHANGED <<decided, returned>>
      BY <1>4 DEF Unprepared, work
    <2> QED BY Zenon, <1>4, <2>1, UnpreparedEffect, SettledKept
  <1>5. ASSUME NEW q \in Requests, Finish(q) PROVE Accounted'
    <2>1. UNCHANGED <<decided, returned>>
      BY <1>5 DEF Finish, work
    <2> QED BY ZenonT(40), <1>5, <2>1, FinishEffect, SettledKept
  <1>6. ASSUME NEW q \in Requests, Drop(q) PROVE Accounted'
    <2>1. UNCHANGED <<decided, returned>>
      BY <1>6 DEF Drop, work
    <2>2. requests[q].answer \in {"none", "success", "retry", "error"}
      BY <1>t DEF Request
    <2> QED BY Zenon, <1>6, <2>1, <2>2, DropEffect, SettledKept
  <1>7. ASSUME NEW d \in Keys, NEW retryAllowed \in BOOLEAN,
               Resolve(d, retryAllowed)
        PROVE  Accounted'
    <2>1. \A k \in Keys : table'[k] = table[k] \/ k \in decided'
      <3>1. CASE retryAllowed
        BY <1>t, <1>7, <3>1, RemovedTable DEF Resolve, Removed
      <3>2. CASE ~retryAllowed
        <4>1. table' = WithState(table, d, "completed") /\ d \in decided'
          BY <1>7, <3>2 DEF Resolve
        <4>2. \A e \in Keys \ {d} : WithState(table, d, "completed")[e] = table[e]
          BY <1>t, StateTable DEF DedupStates
        <4> QED BY <4>1, <4>2
      <3> QED BY SMTT(30), <3>1, <3>2
    <2>2. /\ decided \subseteq decided'
          /\ UNCHANGED <<requests, returned>>
      BY <1>7 DEF Resolve, work
    <2>3. \A k \in Keys : KeyKept(k)
      BY <1>n, <2>1, <2>2 DEF KeyKept
    <2>4. \A p \in Requests : RequestKept(p)
      BY <2>2 DEF RequestKept
    <2> QED BY <1>t, <1>r, <2>3, <2>4, AccountedKept
  <1>8. CASE ClearCompleted
    <2>1. \A k \in Keys :
             \/ table'[k] = table[k]
             \/ table[k].state = "completed" /\ table'[k].state = "absent"
      BY <1>t, <1>8, RemovedTable DEF ClearCompleted, Removed, Completed
    <2>2. UNCHANGED <<decided, requests, returned>>
      BY <1>8 DEF ClearCompleted, work
    <2>3. \A k \in Keys : KeyKept(k)
      BY <1>n, <2>1, <2>2 DEF KeyKept
    <2>4. \A p \in Requests : RequestKept(p)
      BY SMTT(30), <2>2 DEF RequestKept
    <2> QED BY SMTT(30), <1>t, <1>r, <2>3, <2>4, AccountedKept
  <1>9. CASE RecoverElsewhere \/ Start
    <2>1. \A k \in Keys : table'[k] = table[k] \/ table'[k].state = "unknown"
      BY <1>t, <1>9, RecoveredTable DEF RecoverElsewhere, Start
    <2>2. UNCHANGED <<decided, requests, returned>>
      BY <1>9 DEF RecoverElsewhere, Start, work
    <2>3. \A k \in Keys : KeyKept(k)
      BY <1>n, <2>1, <2>2 DEF KeyKept
    <2>4. \A p \in Requests : RequestKept(p)
      BY <2>2 DEF RequestKept
    <2> QED BY <1>t, <1>r, <2>3, <2>4, AccountedKept
  <1>10. CASE Crash
    <2>1. UNCHANGED <<table, decided, returned>>
      BY Zenon, <1>10 DEF Crash, store, work
    <2>2. \A p \in Requests :
             /\ requests'[p].key = requests[p].key
             /\ requests'[p].answer = requests[p].answer
             /\ requests'[p].stage # requests[p].stage =>
                   requests'[p].stage = "done"
      <3> SUFFICES ASSUME NEW p \in Requests
                   PROVE  /\ requests'[p].key = requests[p].key
                          /\ requests'[p].answer = requests[p].answer
                          /\ requests'[p].stage # requests[p].stage =>
                                requests'[p].stage = "done"
        OBVIOUS
      <3>1. requests[p] \in Request
        BY <1>t
      <3>2. \/ requests'[p] = requests[p]
            \/ requests'[p] = [requests[p] EXCEPT !.stage = "done",
                                                  !.guard = FALSE]
        BY ZenonT(40), <1>10 DEF Crash
      <3> QED BY Zenon, <3>1, <3>2 DEF Request
    <2>3. \A k \in Keys : KeyKept(k)
      BY <1>n, <2>1 DEF KeyKept
    <2>4. \A p \in Requests : RequestKept(p)
      BY <2>2 DEF RequestKept
    <2> QED BY <1>t, <1>r, <2>3, <2>4, AccountedKept
  <1>11. CASE UNCHANGED vars
    <2>1. UNCHANGED <<table, decided, returned, requests>>
      BY <1>11 DEF vars, store, work
    <2> QED BY <2>1 DEF Accounted
  <1> QED BY SMTT(30), <1>1, <1>2, <1>3, <1>4, <1>5, <1>6, <1>7, <1>8, <1>9, <1>10,
             <1>11 DEF Next, Step

(* A sender told success of a delivery that never ran to its end has left a  *)
(* record that says so, until an operator decides about it (prepare          *)
(* acknowledges duplicates of Completed and Unknown records).                *)
THEOREM SuccessIsAccounted == Spec => []SuccessAccounted
  <1>1. Init => TypeInv /\ Accounted
    <2>1. Init => Accounted
      BY DEF Init, Accounted, EmptyTable, NoRecord, NewRequest
    <2> QED BY SMTT(30), <2>1, TypeInit
  <1>2. TypeInv /\ Accounted /\ [Next]_vars => (TypeInv /\ Accounted)'
    BY SMTT(30), TypeStep, AccountedStep
  <1>3. TypeInv /\ Accounted => SuccessAccounted
    <2> SUFFICES ASSUME TypeInv, Accounted, NEW q \in Requests,
                        requests[q].answer = "success",
                        requests[q].key # NoKey,
                        returned[requests[q].key] = 0
                 PROVE  \/ table[requests[q].key].state = "unknown"
                        \/ requests[q].key \in decided
      BY DEF SuccessAccounted
    <2>1. requests[q].key \in Keys
      BY DEF TypeInv, TypeOK, Request
    <2> QED BY <2>1 DEF Accounted
  <1> QED BY <1>1, <1>2, <1>3, PTL DEF Spec

-----------------------------------------------------------------------------
(* Exclusive claims *)

(* Guards are held by a running process only. *)
ExclusiveInv == ClaimsExclusive /\ \A q \in Requests : requests[q].guard => up

(* The store answers truthfully and nobody recovers claims beside it. *)
Truthful == "ambiguous" \notin StoreFaults /\ ~OtherHandle

(* A step that takes no guard and leaves the records of those still held. *)
LEMMA GuardsKept ==
    ASSUME ExclusiveInv,
           \A p \in Requests : requests'[p].guard =>
              /\ requests[p].guard
              /\ requests'[p].key = requests[p].key
              /\ table'[requests[p].key].state = table[requests[p].key].state
              /\ up'
    PROVE  ExclusiveInv'
  BY ZenonT(60) DEF ExclusiveInv, ClaimsExclusive

(* The guard of a request that was answered is spent, and no step that does *)
(* not claim gives a guard or another key.                                   *)
LEMMA SpentGuard ==
    ASSUME TypeInv, NEW q \in Requests,
           NEW answer \in {"none", "success", "retry", "error"}
    PROVE  /\ Answer(q, answer) =>
                 /\ ~requests'[q].guard
                 /\ \A p \in Requests \ {q} : requests'[p] = requests[p]
           /\ \/ Answer(q, answer)
              \/ requests' = [requests EXCEPT ![q].stage = "dropping",
                                              ![q].answer = "retry"]
              => \A p \in Requests : requests'[p].guard =>
                    requests[p].guard /\ requests'[p].key = requests[p].key
  <1>1. requests \in [Requests -> Request]
    BY Zenon DEF TypeInv, TypeOK
  <1>2. ASSUME Answer(q, answer)
        PROVE  /\ ~requests'[q].guard
               /\ \A p \in Requests \ {q} : requests'[p] = requests[p]
    <2>1. Moved(q, [stage |-> "done", key |-> requests[q].key,
                    guard |-> FALSE, answer |-> answer])
      BY Zenon, <1>1, <1>2, AnswerEffect
    <2> QED BY <2>1 DEF Moved
  <1>3. ASSUME requests' = [requests EXCEPT ![q].stage = "dropping",
                                            ![q].answer = "retry"]
        PROVE  /\ requests'[q].guard = requests[q].guard
               /\ requests'[q].key = requests[q].key
               /\ \A p \in Requests \ {q} : requests'[p] = requests[p]
    <2>1. Moved(q, [stage |-> "dropping", key |-> requests[q].key,
                    guard |-> requests[q].guard, answer |-> "retry"])
      BY Zenon, <1>1, <1>3, DroppingEffect
    <2> QED BY <2>1 DEF Moved
  <1>4. Answer(q, answer) => requests'[q].key = requests[q].key
    <2> HAVE Answer(q, answer)
    <2>1. Moved(q, [stage |-> "done", key |-> requests[q].key,
                    guard |-> FALSE, answer |-> answer])
      BY Zenon, <1>1, AnswerEffect
    <2> QED BY <2>1 DEF Moved
  <1> QED BY Zenon, <1>2, <1>3, <1>4

(* A call of a guard that reports failure left the table as it was. *)
LEMMA SettledTruly ==
    ASSUME Truthful, NEW q \in Requests, NEW applies, NEW t, NEW answer,
           Settle(q, applies, t, answer)
    PROVE  table' = table \/ Answer(q, answer)
  BY Zenon DEF Settle, StoreCall, Truthful

(* complete, release and mark_unknown: only the guard's own claim is        *)
(* settled, and the guard is spent with it.                                  *)
LEMMA GuardCallExclusive ==
    ASSUME TypeInv, ExclusiveInv, NEW q \in Requests, UNCHANGED up,
           NEW state \in {"absent", "completed", "unknown"}, GuardCall(q, state),
           NEW answer \in {"none", "success", "retry", "error"},
           \/ Answer(q, answer)
           \/ requests' = [requests EXCEPT ![q].stage = "dropping",
                                           ![q].answer = "retry"],
           table' = table \/ \E a \in {"none", "success", "retry", "error"} : Answer(q, a)
    PROVE  ExclusiveInv'
  <1>1. \A p \in Requests : requests'[p].guard =>
           requests[p].guard /\ requests'[p].key = requests[p].key
    BY Zenon, SpentGuard
  <1>2. \A p \in Requests : requests[p].guard => requests[p].key \in Keys /\ up
    BY Zenon DEF TypeInv, Keyed, ExclusiveInv
  <1>3. CASE table' = table
    BY Zenon, <1>1, <1>2, <1>3, GuardsKept
  <1>4. CASE \E a \in {"none", "success", "retry", "error"} : Answer(q, a)
    <2>1. ~requests'[q].guard
      BY Zenon, <1>4, SpentGuard
    <2>2. table \in Tables /\ Keyed
      BY Zenon DEF TypeInv, TypeOK, Tables
    <2>3. \A k \in Keys : table'[k] = table[k] \/ (k = requests[q].key /\ requests[q].guard)
      BY Zenon, <2>2, GuardCallTable
    <2>4. ASSUME NEW p \in Requests, requests'[p].guard
          PROVE  table'[requests[p].key] = table[requests[p].key]
      <3>1. requests[p].guard /\ requests[p].key \in Keys /\ p # q
        BY Zenon, <1>1, <1>2, <2>1, <2>4
      <3>2. requests[q].guard => requests[p].key # requests[q].key
        BY Zenon, <3>1 DEF ExclusiveInv, ClaimsExclusive
      <3> QED BY Zenon, <2>3, <3>1, <3>2
    <2> QED BY Zenon, <1>1, <1>2, <2>4, GuardsKept
  <1> QED BY Zenon, <1>3, <1>4

(* claim takes a key that nobody holds. *)
LEMMA ClaimExclusive ==
    ASSUME TypeInv, ExclusiveInv, NEW q \in Requests, NEW k \in Keys, Claim(q, k)
    PROVE  ExclusiveInv'
  <1>1. /\ requests \in [Requests -> Request] /\ table \in Tables
        /\ up /\ up' = up /\ requests[q].stage = "new" /\ ~requests[q].guard
    <2>1. up /\ up' = up /\ requests[q].stage = "new"
      BY Zenon, ClaimParts
    <2>2. requests[q] = NewRequest
      BY Zenon, <2>1 DEF TypeInv, Keyed
    <2>3. ~requests[q].guard
      BY <2>2 DEF NewRequest
    <2> QED BY Zenon, <2>1, <2>3 DEF TypeInv, TypeOK, Tables
  <1>2. PICK expired \in SUBSET Expirable(table) : ClaimEffect(q, k, expired)
    BY Zenon, ClaimParts
  <1>3. PICK t \in Tables :
           /\ t = WithoutKeys(table, expired)
           /\ \A e \in Keys : t[e] = IF e \in expired THEN NoRecord ELSE table[e]
    <2> DEFINE u == WithoutKeys(table, expired)
    <2>1. u \in Tables /\ \A e \in Keys : u[e] = IF e \in expired THEN NoRecord ELSE table[e]
      BY ZenonT(60), <1>1, RemovedTable
    <2> QED BY Zenon, <2>1
  <1>4. \A p \in Requests : requests[p].guard =>
           /\ requests[p].key \in Keys
           /\ table[requests[p].key].state = "in_flight"
           /\ t[requests[p].key] = table[requests[p].key]
    <2>1. \A p \in Requests : requests[p].guard =>
             requests[p].key \in Keys /\ table[requests[p].key].state = "in_flight"
      BY Zenon DEF TypeInv, Keyed, ExclusiveInv, ClaimsExclusive
    <2>2. \A e \in Keys : table[e].state = "in_flight" => e \notin expired
      <3>1. \A e \in expired : table[e].state = "completed"
        BY Zenon, <1>2, Expiring
      <3>2. "completed" # "in_flight"
        OBVIOUS
      <3> QED BY Zenon, <3>1, <3>2
    <2> QED BY Zenon, <1>3, <2>1, <2>2
  <1>5. CASE t[k].state = "absent" /\ table' = WithClaim(t, k, k \in Retained)
    <2>1. /\ table'[k].state = "in_flight"
          /\ \A e \in Keys \ {k} : table'[e] = t[e]
      <3>1. (k \in Retained) \in BOOLEAN
        OBVIOUS
      <3> QED BY Zenon, <1>5, <3>1, ClaimTable
    <2>2. \A p \in Requests : requests[p].guard => requests[p].key # k
      <3>1. "absent" # "in_flight"
        OBVIOUS
      <3> QED BY Zenon, <1>4, <1>5, <3>1
    <2>3. \A p \in Requests : requests[p].guard =>
             table'[requests[p].key].state = "in_flight"
      <3> SUFFICES ASSUME NEW p \in Requests, requests[p].guard
                   PROVE  table'[requests[p].key].state = "in_flight"
        BY SMTT(30)
      <3>1. /\ requests[p].key \in Keys \ {k}
            /\ t[requests[p].key].state = "in_flight"
        BY <1>4, <2>2
      <3> QED BY Zenon, <2>1, <3>1
    <2>4. CASE Claimed(q, k)
      <3>1. /\ requests'[q].key = k
            /\ \A p \in Requests \ {q} : requests'[p] = requests[p]
        <4>1. Moved(q, [stage |-> "claimed", key |-> k, guard |-> TRUE,
                        answer |-> requests[q].answer])
          BY Zenon, <1>1, <2>4, ClaimedEffect
        <4> QED BY <4>1 DEF Moved
      <3>2. ASSUME NEW p \in Requests, requests'[p].guard
            PROVE  /\ table'[requests'[p].key].state = "in_flight"
                   /\ p # q => requests[p].guard /\ requests'[p] = requests[p]
        BY Zenon, <2>1, <2>3, <3>1, <3>2
      <3>3. ASSUME NEW p \in Requests, NEW o \in Requests, requests'[p].guard,
                   requests'[o].guard, requests'[o].key = requests'[p].key
            PROVE  o = p
        <4>1. p # q /\ o # q => o = p
          BY Zenon, <3>2, <3>3 DEF ExclusiveInv, ClaimsExclusive
        <4>2. p = q => o = q
          BY Zenon, <2>2, <3>1, <3>2, <3>3
        <4>3. o = q => p = q
          BY Zenon, <2>2, <3>1, <3>2, <3>3
        <4> QED BY Zenon, <4>1, <4>2, <4>3
      <3> QED BY Zenon, <1>1, <3>2, <3>3 DEF ExclusiveInv, ClaimsExclusive
    <2>5. CASE Turned(q, k, "retry")
      <3>1. /\ requests'[q].guard = requests[q].guard
            /\ \A p \in Requests \ {q} : requests'[p] = requests[p]
        <4>1. Moved(q, [stage |-> "done", key |-> k, guard |-> requests[q].guard,
                        answer |-> "retry"])
          BY Zenon, <1>1, <2>5, TurnedEffect
        <4> QED BY <4>1 DEF Moved
      <3> QED BY Zenon, <1>1, <1>4, <2>3, <3>1, GuardsKept
    <2> QED BY Zenon, <1>1, <1>2, <1>3, <1>5, <2>4, <2>5 DEF ClaimEffect
  <1>6. CASE /\ table' = t
             /\ \E answer \in {"success", "retry"} : Turned(q, k, answer)
    <2>1. /\ requests'[q].guard = requests[q].guard
          /\ \A p \in Requests \ {q} : requests'[p] = requests[p]
      <3>1. PICK answer \in {"success", "retry"} : Turned(q, k, answer)
        BY Zenon, <1>6
      <3>2. Moved(q, [stage |-> "done", key |-> k, guard |-> requests[q].guard,
                      answer |-> answer])
        BY Zenon, <1>1, <3>1, TurnedEffect
      <3> QED BY <3>2 DEF Moved
    <2> QED BY Zenon, <1>1, <1>4, <1>6, <2>1, GuardsKept
  <1> QED BY Zenon, <1>2, <1>3, <1>5, <1>6 DEF ClaimEffect

(* Steps of dispatch leave the store and every guard. *)
LEMMA AdvanceExclusive ==
    ASSUME TypeInv, ExclusiveInv, NEW q \in Requests, NEW stage \in Stages,
           Advance(q, stage), UNCHANGED <<table, up>>
    PROVE  ExclusiveInv'
  <1>1. Moved(q, [stage |-> stage, key |-> requests[q].key,
                  guard |-> requests[q].guard, answer |-> requests[q].answer])
    BY Zenon, AdvanceEffect DEF TypeInv, TypeOK
  <1>2. /\ requests'[q].guard = requests[q].guard
        /\ requests'[q].key = requests[q].key
        /\ \A p \in Requests \ {q} : requests'[p] = requests[p]
    BY <1>1 DEF Moved
  <1>3. \A p \in Requests : requests[p].guard => up
    BY Zenon DEF ExclusiveInv
  <1>4. table' = table /\ (up => up')
    OBVIOUS
  <1> QED BY Zenon, <1>2, <1>3, <1>4, GuardsKept

(* Steps that leave the requests, and the records in flight. *)
LEMMA AdministrationExclusive ==
    ASSUME TypeInv, ExclusiveInv, UNCHANGED <<requests, up>>,
           \A k \in Keys : table[k].state = "in_flight" => table'[k] = table[k]
    PROVE  ExclusiveInv'
  <1>1. \A p \in Requests : requests[p].guard =>
           /\ up
           /\ table'[requests[p].key] = table[requests[p].key]
    BY Zenon DEF TypeInv, Keyed, ExclusiveInv, ClaimsExclusive
  <1>2. requests' = requests /\ (up => up')
    OBVIOUS
  <1> QED BY Zenon, <1>1, <1>2, GuardsKept

(* Every step keeps claims exclusive. *)
LEMMA ExclusiveStep ==
    ASSUME Truthful, TypeInv, ExclusiveInv, [Next]_vars
    PROVE  ExclusiveInv'
  <1> USE DEF store, work
  <1> DEFINE Answers == {"none", "success", "retry", "error"}
  <1>1. ASSUME NEW q \in Requests, NEW k \in Keys, Claim(q, k)
        PROVE  ExclusiveInv'
    BY Zenon, <1>1, ClaimExclusive
  <1>2. ASSUME NEW q \in Requests,
               Unclaimed(q) \/ Prepared(q) \/ Reject(q) \/ Invoke(q) \/ Return(q) \/ Cancel(q)
        PROVE  ExclusiveInv'
    <2>1. UNCHANGED <<table, up>>
      BY Zenon, <1>2 DEF Unclaimed, Prepared, Reject, Invoke, Return, Cancel
    <2>2. \E stage \in {"claimed", "dispatching", "running", "rejected", "audit",
                        "ended", "dropping"} : Advance(q, stage)
      BY Zenon, <1>2 DEF Unclaimed, Prepared, Reject, Invoke, Return, Cancel
    <2>3. \E stage \in Stages : Advance(q, stage)
      BY Zenon, <2>2 DEF Stages
    <2> QED BY Zenon, <2>1, <2>3, AdvanceExclusive
  <1>3. ASSUME NEW q \in Requests, Unprepared(q)
        PROVE  ExclusiveInv'
    <2>1. /\ GuardCall(q, "absent")
          /\ \/ Answer(q, "retry")
             \/ requests' = [requests EXCEPT ![q].stage = "dropping",
                                             ![q].answer = "retry"]
      BY Zenon, <1>3, UnpreparedEffect
    <2>2. table' = table \/ Answer(q, "retry")
      BY Zenon, <1>3, SettledTruly DEF Unprepared, Release
    <2>3. UNCHANGED up
      BY Zenon, <1>3 DEF Unprepared
    <2> QED BY Zenon, <2>1, <2>2, <2>3, GuardCallExclusive
  <1>4. ASSUME NEW q \in Requests, Finish(q)
        PROVE  ExclusiveInv'
    <2>1. PICK state \in {"absent", "completed", "unknown"},
               answer \in {"success", "retry", "error"} :
             /\ GuardCall(q, state)
             /\ \/ Answer(q, answer)
                \/ requests' = [requests EXCEPT ![q].stage = "dropping",
                                                ![q].answer = "retry"]
      BY Zenon, <1>4, FinishEffect
    <2>2. table' = table \/ \E a \in {"success", "retry", "error"} : Answer(q, a)
      <3>1. CASE MarkUnknown(q, "retry")
        BY Zenon, <3>1, SettledTruly DEF MarkUnknown
      <3>2. CASE \E a \in {"retry", "error"} : Release(q, a)
        BY Zenon, <3>2, SettledTruly DEF Release
      <3>3. CASE \E a \in {"success", "error"} : Complete(q, a)
        BY Zenon, <3>3, SettledTruly DEF Complete
      <3> QED BY Zenon, <1>4, <3>1, <3>2, <3>3 DEF Finish
    <2>3. UNCHANGED up
      BY Zenon, <1>4 DEF Finish
    <2>4. answer \in Answers /\ (table' = table \/ \E a \in Answers : Answer(q, a))
      BY Zenon, <2>2
    <2> QED BY Zenon, <2>1, <2>3, <2>4, GuardCallExclusive
  <1>5. ASSUME NEW q \in Requests, Drop(q)
        PROVE  ExclusiveInv'
    <2>1. GuardCall(q, "unknown") /\ Answer(q, requests[q].answer)
      BY Zenon, <1>5, DropEffect
    <2>2. requests[q].answer \in Answers
      BY DEF TypeInv, TypeOK, Request
    <2>3. UNCHANGED up
      BY Zenon, <1>5 DEF Drop
    <2> QED BY Zenon, <2>1, <2>2, <2>3, GuardCallExclusive
  <1>6. ASSUME NEW k \in Keys, NEW retryAllowed \in BOOLEAN, Resolve(k, retryAllowed)
        PROVE  ExclusiveInv'
    <2>1. table[k].state # "in_flight"
      BY <1>6 DEF Resolve, Resolves
    <2>2. table \in Tables /\ "completed" \in DedupStates
      BY DEF TypeInv, TypeOK, Tables, DedupStates
    <2>3. \/ table' = WithoutKeys(table, {k})
          \/ table' = WithState(table, k, "completed")
      BY Zenon, <1>6 DEF Resolve, Removed
    <2>4. \A e \in Keys \ {k} : table'[e] = table[e]
      <3>1. CASE table' = WithoutKeys(table, {k})
        <4>1. \A e \in Keys \ {k} : e \in Keys /\ e \notin {k}
          OBVIOUS
        <4>2. \A e \in Keys : table'[e] = IF e \in {k} THEN NoRecord ELSE table[e]
          <5>1. \A e \in Keys :
                   WithoutKeys(table, {k})[e] = IF e \in {k} THEN NoRecord ELSE table[e]
            BY Zenon, <2>2, RemovedTable
          <5> QED BY Zenon, <3>1, <5>1
        <4> QED BY Zenon, <4>1, <4>2
      <3>2. CASE table' = WithState(table, k, "completed")
        BY Zenon, <2>2, <3>2, StateTable
      <3> QED BY Zenon, <2>3, <3>1, <3>2
    <2>5. UNCHANGED <<requests, up>>
      BY Zenon, <1>6 DEF Resolve
    <2> QED BY Zenon, <2>1, <2>4, <2>5, AdministrationExclusive
  <1>7. CASE ClearCompleted
    <2>1. PICK ks \in SUBSET Completed(table) : table' = WithoutKeys(table, ks)
      BY Zenon, <1>7 DEF ClearCompleted, Removed
    <2>2. table \in Tables
      BY DEF TypeInv, TypeOK, Tables
    <2>3. \A e \in Keys : table[e].state = "in_flight" => e \notin ks
      BY <2>1 DEF Completed
    <2>4. \A e \in Keys : table[e].state = "in_flight" => table'[e] = table[e]
      <3>1. \A e \in Keys : table'[e] = IF e \in ks THEN NoRecord ELSE table[e]
        <4>1. \A e \in Keys :
                 WithoutKeys(table, ks)[e] = IF e \in ks THEN NoRecord ELSE table[e]
          BY Zenon, <2>2, RemovedTable
        <4> QED BY Zenon, <2>1, <4>1
      <3> QED BY Zenon, <2>3, <3>1
    <2>5. UNCHANGED <<requests, up>>
      BY Zenon, <1>7 DEF ClearCompleted
    <2> QED BY Zenon, <2>4, <2>5, AdministrationExclusive
  <1>8. CASE RecoverElsewhere
    BY Zenon, <1>8 DEF RecoverElsewhere, Truthful
  <1>9. CASE Crash
    <2>1. \A p \in Requests : ~requests'[p].guard
      <3> SUFFICES ASSUME NEW p \in Requests PROVE ~requests'[p].guard
        OBVIOUS
      <3>1. CASE requests[p].stage = "new"
        <4>1. requests[p] = NewRequest /\ requests'[p] = requests[p]
          BY Zenon, <1>9, <3>1 DEF Crash, TypeInv, Keyed
        <4> QED BY <4>1 DEF NewRequest
      <3>2. CASE requests[p].stage # "new"
        <4>1. /\ requests'[p] = [requests[p] EXCEPT !.stage = "done", !.guard = FALSE]
              /\ requests[p] \in Request
          BY Zenon, <1>9, <3>2 DEF Crash, TypeInv, TypeOK
        <4> QED BY <4>1 DEF Request
      <3> QED BY Zenon, <3>1, <3>2
    <2> QED BY Zenon, <2>1 DEF ExclusiveInv, ClaimsExclusive
  <1>10. CASE Start
    <2>1. ~up /\ requests' = requests
      BY Zenon, <1>10 DEF Start
    <2>2. \A p \in Requests : ~requests'[p].guard
      BY Zenon, <2>1 DEF ExclusiveInv
    <2> QED BY Zenon, <2>2 DEF ExclusiveInv, ClaimsExclusive
  <1>11. CASE UNCHANGED vars
    <2>1. requests' = requests /\ table' = table /\ up' = up
      BY Zenon, <1>11 DEF vars
    <2> QED BY Zenon, <2>1 DEF ExclusiveInv, ClaimsExclusive
  <1> QED
    BY Zenon, <1>1, <1>2, <1>3, <1>4, <1>5, <1>6, <1>7, <1>8, <1>9, <1>10, <1>11
    DEF Next, Step

(* A claim has one holder, whose record is in flight for as long as the     *)
(* guard is held, if the store answers truthfully and recovery runs at       *)
(* start only (route.rs:195-240, DedupGuard at route.rs:519-578).            *)
THEOREM ClaimsAreExclusive ==
    ASSUME "ambiguous" \notin StoreFaults, ~OtherHandle
    PROVE  Spec => []ClaimsExclusive
  <1>1. Truthful
    BY Zenon DEF Truthful
  <1>2. Init => ExclusiveInv
    <2> SUFFICES ASSUME Init PROVE ExclusiveInv
      OBVIOUS
    <2>1. \A q \in Requests : ~requests[q].guard
      BY DEF Init, NewRequest
    <2> QED BY Zenon, <2>1 DEF ExclusiveInv, ClaimsExclusive
  <1>3. TypeInv /\ ExclusiveInv /\ [Next]_vars => ExclusiveInv'
    BY Zenon, <1>1, ExclusiveStep
  <1>4. ExclusiveInv => ClaimsExclusive
    BY Zenon DEF ExclusiveInv
  <1> QED BY <1>2, <1>3, <1>4, TypeInit, TypeStep, PTL DEF Spec
=============================================================================
