----------------------- MODULE SqlCipherDeliveryLog ------------------------
(***************************************************************************)
(* crates/store/bondry-store-sqlcipher/src/delivery.rs with the usage      *)
(* counters of usage.rs: the delivery_log table and its row of             *)
(* storage_usage, which triggers keep up to date inside each transaction.  *)
(*                                                                         *)
(* Each operation is one IMMEDIATE transaction or one statement.  It is    *)
(* applied and answered, rolled back, or - when the commit itself reports  *)
(* an error - applied and answered "unavailable".  The caller's clock is   *)
(* the wall clock and may go back, so each call carries any time.          *)
(***************************************************************************)
EXTENDS DeliveryRecords, FiniteSetTheorems

CONSTANTS
    MaxRecords, MaxBytes,   \* PersistentDeliveryLogLimits
    Charge,                 \* PERSISTENT_DELIVERY_RECORD_CHARGE_BYTES
    Retention,
    MaxTime,                \* bound: latest time
    MaxAttempts             \* bound: attempts a caller records

Times == 0 .. MaxTime

VARIABLES
    rows,       \* state and attempts columns, see DeliveryRecords
    updated_at, \* updated_at_ms column, 0 without a row
    usage,      \* storage_usage: records and charged_bytes
    answer

vars == <<rows, updated_at, usage, answer>>

Present(table) == {d \in Deliveries : table[d] # Absent}

(* The table, its times and the counters of storage_usage keep their types: *)
(* no delete takes a counter below zero (usage.rs:22-40, 63-85).            *)
TypeOK ==
    /\ rows \in [Deliveries -> Records]
    /\ updated_at \in [Deliveries -> Times]
    /\ usage \in [records : Nat, bytes : Nat]
    /\ answer \in {"none", "ok", "conflict", "capacity", "invalid", "not_found",
                   "unavailable"}

Init ==
    /\ rows = EmptyLog
    /\ updated_at = [d \in Deliveries |-> 0]
    /\ usage = [records |-> 0, bytes |-> 0]
    /\ answer = "none"

(* The insert and delete triggers, for n rows. *)
UsagePlus(u, n) == [records |-> u.records + n, bytes |-> u.bytes + n * Charge]

(* Mutated UsageMinus: no delete trigger. *)
UsageKept(u, n) == u

UsageMinus(u, n) == [records |-> u.records - n, bytes |-> u.bytes - n * Charge]

(* A failed statement or begin rolls back. *)
RolledBack ==
    /\ answer' = "unavailable"
    /\ UNCHANGED <<rows, updated_at, usage>>

(* Mutated Expired: unfinished rows are purged as well. *)
ExpiredUnfinished(now) ==
    {d \in Present(rows) : updated_at[d] + Retention < now}

(* DELETE of terminal rows older than the retention. *)
Expired(now) ==
    {d \in TerminalIn(rows) : updated_at[d] + Retention < now}

OverLimit(u) ==
    \/ u.records >= MaxRecords
    \/ u.bytes + Charge > MaxBytes

InsertIntent(d, now) ==
    LET expired == Expired(now)
        kept == Without(rows, expired)
        left == UsageMinus(usage, Cardinality(expired))
        times == [e \in Deliveries |-> IF e \in expired THEN 0 ELSE updated_at[e]]
    IN
    \/ /\ kept[d] # Absent
       /\ rows' = kept
       /\ updated_at' = times
       /\ usage' = left
       /\ answer' \in {"conflict", "unavailable"}
    \/ /\ kept[d] = Absent
       /\ OverLimit(left)
       /\ rows' = kept
       /\ updated_at' = times
       /\ usage' = left
       /\ answer' \in {"capacity", "unavailable"}
    \/ /\ kept[d] = Absent
       /\ ~OverLimit(left)
       /\ rows' = WithIntent(kept, d)
       /\ updated_at' = [times EXCEPT ![d] = now]
       /\ usage' = UsagePlus(left, 1)
       /\ answer' \in {"ok", "unavailable"}
    \/ RolledBack

(* transition: the UPDATE's WHERE clause decides; when it matches no row a   *)
(* second query tells a missing row from one in another state.               *)
Transition(d, matches, written, now) ==
    \/ /\ matches
       /\ rows' = written
       /\ updated_at' = [updated_at EXCEPT ![d] = now]
       /\ answer' \in {"ok", "unavailable"}
       /\ UNCHANGED usage
    \/ /\ ~matches
       /\ answer' = IF rows[d] = Absent THEN "not_found" ELSE "invalid"
       /\ UNCHANGED <<rows, updated_at, usage>>
    \/ RolledBack

RecordAttempt(d, count, now) ==
    Transition(d, AcceptsAttempt(rows, d, count), WithAttempt(rows, d, count), now)

RecordOutcome(d, outcome, now) ==
    Transition(d, rows[d].state = "pending", WithOutcome(rows, d, outcome), now)

RecoverUnfinished(now) ==
    \/ /\ rows' = Recovered(rows)
       /\ updated_at' = [d \in Deliveries |-> IF rows[d].state = "pending"
                                              THEN now ELSE updated_at[d]]
       /\ answer' \in {"ok", "unavailable"}
       /\ UNCHANGED usage
    \/ RolledBack

Next ==
    \E now \in Times :
       \/ \E d \in Deliveries :
             \/ InsertIntent(d, now)
             \/ \E count \in 1 .. MaxAttempts : RecordAttempt(d, count, now)
             \/ \E outcome \in Outcomes \ {"unknown_after_crash"} :
                   RecordOutcome(d, outcome, now)
       \/ RecoverUnfinished(now)

Spec == Init /\ [][Next]_vars

-----------------------------------------------------------------------------
(* The counters that admission trusts instead of counting rows are exact    *)
(* after every transaction, failed ones included, pass usage::read's own    *)
(* test, and keep the table within its limits (usage.rs:5-20, 63-85,        *)
(* delivery.rs:75-87).                                                      *)
UsageExact ==
    /\ usage.records = Cardinality(Present(rows))
    /\ usage.bytes = usage.records * Charge
    /\ usage.records <= MaxRecords
    /\ usage.bytes <= MaxBytes

Contract == INSTANCE DeliveryLog WITH log <- rows

(* Every step is one of the contract, or changes nothing it speaks of. *)
KeepsContract == Contract!Next \/ UNCHANGED Contract!vars

(* The persistent log keeps the contract the engine was verified against:   *)
(* whatever the clock does, nothing but terminal rows is purged.            *)
ImplementsDeliveryLog == Contract!Spec

-----------------------------------------------------------------------------
(* Proofs, for every set of identifiers, every limit, charge and retention,  *)
(* and every behaviour of the clock within 0 .. MaxTime.                     *)

Parameters ==
    /\ MaxRecords \in Nat /\ MaxBytes \in Nat
    /\ Charge \in Nat /\ Retention \in Nat /\ MaxTime \in Nat

(* The inductive invariant: exact counters over finitely many rows. *)
IInv ==
    /\ TypeOK
    /\ IsFiniteSet(Present(rows))
    /\ UsageExact

(* The triggers keep the charge of a table proportional to its rows         *)
(* (usage.rs:63-85).                                                        *)
LEMMA ChargeDistributes ==
    ASSUME NEW m \in Nat, NEW n \in Nat, NEW c \in Nat
    PROVE  /\ (m + n) * c = m * c + n * c
           /\ (m - n) * c = m * c - n * c
           /\ m * c \in Nat
  OBVIOUS

(* Purging expired rows takes exactly their count and charge off the        *)
(* counters, neither of which falls below zero (delivery.rs:55-66).         *)
LEMMA PurgeKeepsUsage ==
    ASSUME Parameters, IInv, NEW now \in Times
    PROVE  LET expired == Expired(now)
               kept == Without(rows, expired)
               left == UsageMinus(usage, Cardinality(expired))
           IN  /\ kept \in Logs
               /\ \A e \in Deliveries :
                     kept[e] = IF e \in expired THEN Absent ELSE rows[e]
               /\ IsFiniteSet(Present(kept))
               /\ left \in [records : Nat, bytes : Nat]
               /\ left.records = Cardinality(Present(kept))
               /\ left.bytes = left.records * Charge
               /\ left.records <= MaxRecords
               /\ left.bytes <= MaxBytes
  <1> DEFINE expired == Expired(now)
             kept == Without(rows, expired)
             n == Cardinality(expired)
             all == Cardinality(Present(rows))
             left == UsageMinus(usage, n)
  <1>1. rows \in Logs
    BY DEF IInv, TypeOK, Logs
  <1>2. /\ kept \in Logs
        /\ \A e \in Deliveries : kept[e] = IF e \in expired THEN Absent ELSE rows[e]
    BY <1>1, WithoutType
  <1>3. expired \subseteq Present(rows)
    BY DEF Expired, TerminalIn, IsTerminal, Present, Absent, Outcomes
  <1>4. Present(kept) = Present(rows) \ expired
    BY <1>2 DEF Present
  <1>5. IsFiniteSet(expired) /\ IsFiniteSet(Present(kept)) /\ IsFiniteSet(Present(rows))
    BY <1>3, <1>4, FS_Subset DEF IInv
  <1> HIDE DEF kept, expired
  <1>6. /\ Present(kept) \cup expired = Present(rows)
        /\ Present(kept) \cap expired = {}
    BY <1>3, <1>4
  <1>7. /\ all = Cardinality(Present(kept)) + n
        /\ all \in Nat /\ n \in Nat /\ Cardinality(Present(kept)) \in Nat
    <2>1. Cardinality({}) = 0
      BY FS_EmptySet
    <2>2. /\ all \in Nat /\ n \in Nat /\ Cardinality(Present(kept)) \in Nat
      BY <1>5, FS_CardinalityType
    <2>3. all = Cardinality(Present(kept)) + n - Cardinality({})
      BY <1>5, <1>6, FS_Union
    <2> QED BY <2>1, <2>2, <2>3
  <1>8. /\ usage.records = all
        /\ usage.bytes = all * Charge
        /\ all <= MaxRecords
        /\ all * Charge <= MaxBytes
    BY DEF IInv, UsageExact
  <1> HIDE DEF n, all
  <1>9. /\ left.records = all - n
        /\ left.bytes = all * Charge - n * Charge
        /\ left = [records |-> all - n, bytes |-> all * Charge - n * Charge]
    BY <1>8 DEF UsageMinus
  <1> HIDE DEF left
  <1>10. /\ (all - n) * Charge = all * Charge - n * Charge
         /\ all * Charge \in Nat /\ n * Charge \in Nat
    BY <1>7, ChargeDistributes DEF Parameters
  <1>11. (all - n) * Charge \in Nat
    <2>1. all - n \in Nat
      BY <1>7
    <2> QED BY <2>1, ChargeDistributes DEF Parameters
  <1>12. /\ left.records = Cardinality(Present(kept))
         /\ left.bytes = left.records * Charge
         /\ left \in [records : Nat, bytes : Nat]
    BY <1>7, <1>9, <1>10, <1>11
  <1>13. left.records <= MaxRecords
    BY <1>7, <1>8, <1>9 DEF Parameters
  <1>14. left.bytes <= MaxBytes
    <2> DEFINE x == all * Charge  y == n * Charge
    <2>1. x \in Nat /\ y \in Nat /\ x <= MaxBytes /\ left.bytes = x - y
      BY <1>8, <1>9, <1>10
    <2> HIDE DEF x, y
    <2> QED BY <2>1 DEF Parameters
  <1> QED BY <1>2, <1>5, <1>12, <1>13, <1>14 DEF kept, expired, left, n

(* insert_intent: whichever way the transaction ends, the counters stay     *)
(* exact and the limits hold (delivery.rs:46-112).                          *)
LEMMA InsertStep ==
    ASSUME Parameters, IInv, NEW now \in Times, NEW d \in Deliveries,
           InsertIntent(d, now)
    PROVE  IInv'
  <1> DEFINE expired == Expired(now)
             kept == Without(rows, expired)
             left == UsageMinus(usage, Cardinality(expired))
             times == [e \in Deliveries |-> IF e \in expired THEN 0 ELSE updated_at[e]]
  <1>1. /\ kept \in Logs
        /\ \A e \in Deliveries : kept[e] = IF e \in expired THEN Absent ELSE rows[e]
        /\ IsFiniteSet(Present(kept))
        /\ left \in [records : Nat, bytes : Nat]
        /\ left.records = Cardinality(Present(kept))
        /\ left.bytes = left.records * Charge
        /\ left.records <= MaxRecords
        /\ left.bytes <= MaxBytes
    BY PurgeKeepsUsage
  <1>2. times \in [Deliveries -> Times]
    BY DEF IInv, TypeOK, Times, Parameters
  <1>3. \/ /\ rows' = kept /\ updated_at' = times /\ usage' = left
           /\ answer' \in {"conflict", "capacity", "unavailable"}
        \/ /\ kept[d] = Absent /\ ~OverLimit(left)
           /\ rows' = WithIntent(kept, d)
           /\ updated_at' = [times EXCEPT ![d] = now]
           /\ usage' = UsagePlus(left, 1)
           /\ answer' \in {"ok", "unavailable"}
        \/ RolledBack
    BY DEF InsertIntent
  <1> HIDE DEF kept, left, times, expired
  <1>4. CASE /\ rows' = kept /\ updated_at' = times /\ usage' = left
             /\ answer' \in {"conflict", "capacity", "unavailable"}
    <2>1. TypeOK'
      BY <1>1, <1>2, <1>4 DEF TypeOK, Logs
    <2> QED BY <1>1, <1>4, <2>1 DEF IInv, UsageExact
  <1>5. CASE /\ kept[d] = Absent /\ ~OverLimit(left)
             /\ rows' = WithIntent(kept, d)
             /\ updated_at' = [times EXCEPT ![d] = now]
             /\ usage' = UsagePlus(left, 1)
             /\ answer' \in {"ok", "unavailable"}
    <2>1. /\ rows' \in Logs
          /\ rows'[d] = [state |-> "pending", attempts |-> 0]
          /\ \A e \in Deliveries \ {d} : rows'[e] = kept[e]
      BY <1>1, <1>5, IntentType
    <2>2. Present(rows') = Present(kept) \cup {d} /\ d \notin Present(kept)
      BY <1>5, <2>1 DEF Present, Absent
    <2>3. /\ IsFiniteSet(Present(rows'))
          /\ Cardinality(Present(rows')) = Cardinality(Present(kept)) + 1
      BY <1>1, <2>2, FS_AddElement
    <2>4. /\ left.records \in Nat /\ left.bytes \in Nat
          /\ ~(left.records >= MaxRecords)
          /\ ~(left.bytes + Charge > MaxBytes)
          /\ usage' = [records |-> left.records + 1, bytes |-> left.bytes + 1 * Charge]
      BY <1>1, <1>5 DEF OverLimit, UsagePlus
    <2>5. /\ usage' \in [records : Nat, bytes : Nat]
          /\ usage'.records = left.records + 1
          /\ usage'.bytes = left.bytes + Charge
          /\ usage'.records <= MaxRecords
          /\ usage'.bytes <= MaxBytes
      BY <2>4 DEF Parameters
    <2>6. usage'.bytes = usage'.records * Charge
      <3>1. (left.records + 1) * Charge = left.records * Charge + 1 * Charge
        BY <2>4, ChargeDistributes DEF Parameters
      <3> QED BY <1>1, <2>5, <3>1 DEF Parameters
    <2>7. TypeOK'
      BY Zenon, <1>2, <1>5, <2>1, <2>5 DEF TypeOK, Logs
    <2> QED BY <1>1, <2>3, <2>5, <2>6, <2>7 DEF IInv, UsageExact
  <1>6. CASE RolledBack
    BY <1>6 DEF RolledBack, IInv, TypeOK, UsageExact
  <1> QED BY <1>3, <1>4, <1>5, <1>6

(* A step that rewrites rows without adding or removing one keeps the       *)
(* counters exact: it fires no trigger of the usage row (usage.rs:63-85).   *)
LEMMA SameRows ==
    ASSUME IInv, rows' \in Logs, updated_at' \in [Deliveries -> Times],
           UNCHANGED usage, answer' \in {"ok", "invalid", "not_found", "unavailable"},
           \A e \in Deliveries : rows'[e] = Absent <=> rows[e] = Absent
    PROVE  IInv'
  <1>1. Present(rows') = Present(rows)
    BY DEF Present
  <1>2. TypeOK'
    BY DEF IInv, TypeOK, Logs
  <1> QED BY <1>1, <1>2 DEF IInv, UsageExact

(* The three updates: record_attempt, record_outcome, recover_unfinished    *)
(* (delivery.rs:114-224).                                                   *)
LEMMA UpdateStep ==
    ASSUME Parameters, IInv, NEW now \in Times,
           \/ \E d \in Deliveries :
                 \/ \E count \in 1 .. MaxAttempts : RecordAttempt(d, count, now)
                 \/ \E outcome \in Outcomes : RecordOutcome(d, outcome, now)
           \/ RecoverUnfinished(now)
    PROVE  IInv'
  <1>1. rows \in Logs /\ updated_at \in [Deliveries -> Times]
    BY DEF IInv, TypeOK, Logs
  <1>2. CASE RolledBack
    BY <1>2 DEF RolledBack, IInv, TypeOK, UsageExact
  <1>3. ASSUME NEW d \in Deliveries, NEW count \in 1 .. MaxAttempts,
               RecordAttempt(d, count, now)
        PROVE  IInv'
    <2>1. CASE ~AcceptsAttempt(rows, d, count)
      BY <1>1, <1>2, <1>3, <2>1, SameRows DEF RecordAttempt, Transition
    <2>2. CASE AcceptsAttempt(rows, d, count) /\ ~RolledBack
      <3>1. count \in Nat /\ rows[d].state = "pending"
        BY <2>2 DEF AcceptsAttempt
      <3>2. /\ rows' \in Logs
            /\ rows'[d] = [state |-> rows[d].state, attempts |-> count]
            /\ \A e \in Deliveries \ {d} : rows'[e] = rows[e]
        BY <1>1, <1>3, <2>2, <3>1, AttemptType DEF RecordAttempt, Transition
      <3>3. rows[d] # Absent /\ rows'[d] # Absent
        BY <3>1, <3>2 DEF Absent
      <3>4. \A e \in Deliveries : rows'[e] = Absent <=> rows[e] = Absent
        BY <3>2, <3>3
      <3>5. /\ updated_at' \in [Deliveries -> Times]
            /\ UNCHANGED usage /\ answer' \in {"ok", "unavailable"}
        BY <1>1, <1>3, <2>2 DEF RecordAttempt, Transition
      <3> QED BY <3>2, <3>4, <3>5, SameRows
    <2> QED BY <1>2, <2>1, <2>2
  <1>4. ASSUME NEW d \in Deliveries, NEW outcome \in Outcomes,
               RecordOutcome(d, outcome, now)
        PROVE  IInv'
    <2>1. CASE rows[d].state # "pending"
      BY <1>1, <1>2, <1>4, <2>1, SameRows DEF RecordOutcome, Transition
    <2>2. CASE rows[d].state = "pending" /\ ~RolledBack
      <3>1. /\ rows' \in Logs
            /\ rows'[d] = [state |-> outcome, attempts |-> rows[d].attempts]
            /\ \A e \in Deliveries \ {d} : rows'[e] = rows[e]
        BY <1>1, <1>4, <2>2, OutcomeType DEF RecordOutcome, Transition
      <3>2. rows[d] # Absent /\ rows'[d] # Absent
        BY <2>2, <3>1 DEF Absent, Outcomes
      <3>3. \A e \in Deliveries : rows'[e] = Absent <=> rows[e] = Absent
        BY <3>1, <3>2
      <3>4. /\ updated_at' \in [Deliveries -> Times]
            /\ UNCHANGED usage /\ answer' \in {"ok", "unavailable"}
        BY <1>1, <1>4, <2>2 DEF RecordOutcome, Transition
      <3> QED BY <3>1, <3>3, <3>4, SameRows
    <2> QED BY <1>2, <2>1, <2>2
  <1>5. CASE RecoverUnfinished(now) /\ ~RolledBack
    <2>1. /\ rows' \in Logs
          /\ \A d \in Deliveries :
                /\ rows[d].state # "pending" => rows'[d] = rows[d]
                /\ rows[d].state = "pending" =>
                      rows'[d] = [state |-> "unknown_after_crash",
                                  attempts |-> rows[d].attempts]
      BY <1>1, <1>5, RecoveredType DEF RecoverUnfinished
    <2>2. ASSUME NEW d \in Deliveries PROVE rows'[d] = Absent <=> rows[d] = Absent
      <3>1. CASE rows[d].state # "pending"
        BY Zenon, <2>1, <3>1
      <3>2. CASE rows[d].state = "pending"
        <4>1. rows[d] # Absent
          BY <3>2 DEF Absent
        <4>2. rows'[d] = [state |-> "unknown_after_crash", attempts |-> rows[d].attempts]
          BY <2>1, <3>2
        <4> QED BY <4>1, <4>2 DEF Absent
      <3> QED BY <3>1, <3>2
    <2>3. /\ updated_at' \in [Deliveries -> Times]
          /\ UNCHANGED usage /\ answer' \in {"ok", "unavailable"}
      BY <1>1, <1>5 DEF RecoverUnfinished
    <2> QED BY <2>1, <2>2, <2>3, SameRows
  <1> QED BY <1>2, <1>3, <1>4, <1>5

(* The invariant holds from an empty table on. *)
LEMMA Invariant == ASSUME Parameters PROVE Spec => []IInv
  <1>1. ASSUME Init PROVE IInv
    <2>1. Present(rows) = {}
      BY <1>1 DEF Init, EmptyLog, Present
    <2>2. rows \in Logs
      BY <1>1, EmptyLogType DEF Init
    <2>3. TypeOK
      BY <1>1, <2>2 DEF Init, TypeOK, Logs, Times, Parameters
    <2>4. /\ usage.records = 0 /\ usage.bytes = 0 * Charge
          /\ 0 <= MaxRecords /\ 0 * Charge <= MaxBytes
      BY <1>1 DEF Init, Parameters
    <2>5. IsFiniteSet(Present(rows)) /\ Cardinality(Present(rows)) = 0
      BY <2>1, FS_EmptySet
    <2> QED BY <2>3, <2>4, <2>5 DEF IInv, UsageExact
  <1>2. ASSUME IInv, [Next]_vars PROVE IInv'
    <2>1. CASE UNCHANGED vars
      BY <1>2, <2>1 DEF vars, IInv, TypeOK, UsageExact
    <2>2. CASE Next
      BY <1>2, <2>2, InsertStep, UpdateStep DEF Next
    <2> QED BY <1>2, <2>1, <2>2
  <1> QED BY <1>1, <1>2, PTL DEF Spec

(* The table, its times and the counters keep their types for every limit   *)
(* and retention: no counter underflows (usage.rs:63-85).                   *)
THEOREM TypeCorrect == ASSUME Parameters PROVE Spec => []TypeOK
  <1>1. IInv => TypeOK
    BY DEF IInv
  <1> QED BY <1>1, Invariant, PTL

(* The counters that admission trusts are exact after every transaction,    *)
(* failed ones included, and the table stays within its limits              *)
(* (usage.rs:5-20, 63-85, delivery.rs:75-87).                               *)
THEOREM CountersExact == ASSUME Parameters PROVE Spec => []UsageExact
  <1>1. IInv => UsageExact
    BY DEF IInv
  <1> QED BY <1>1, Invariant, PTL

(* The persistent log implements the contract of the DeliveryLog trait      *)
(* whatever the clock does and whichever calls fail, before or after they   *)
(* took effect (delivery.rs:46-224).                                        *)
THEOREM Refinement == ASSUME Parameters PROVE Spec => ImplementsDeliveryLog
  <1> USE DEF Contract!Absent, Contract!Outcomes, Contract!IsTerminal,
              Contract!TerminalIn, Contract!Without, Contract!WithIntent,
              Contract!WithAttempt, Contract!WithOutcome, Contract!AcceptsAttempt,
              Contract!Recovered
  <1>1. Init => Contract!Init
    BY DEF Init, Contract!Init, EmptyLog, Contract!EmptyLog, Absent
  <1>2. ASSUME IInv, NEW now \in Times, NEW d \in Deliveries, InsertIntent(d, now)
        PROVE  Contract!InsertIntent(d)
    <2> DEFINE expired == Expired(now)
               kept == Without(rows, expired)
    <2>1. expired \in SUBSET TerminalIn(rows)
      BY DEF Expired
    <2>2. Without(rows, {}) = rows
      BY <1>2 DEF Without, IInv, TypeOK
    <2>3. \/ kept[d] # Absent /\ rows' = kept /\ answer' \in {"conflict", "unavailable"}
          \/ rows' = kept /\ answer' \in {"capacity", "unavailable"}
          \/ /\ kept[d] = Absent /\ rows' = WithIntent(kept, d)
             /\ answer' \in {"ok", "unavailable"}
          \/ rows' = Without(rows, {}) /\ answer' = "unavailable"
      BY <1>2, <2>2 DEF InsertIntent, RolledBack
    <2>4. CASE rows' = Without(rows, {}) /\ answer' = "unavailable"
      <3>1. {} \in SUBSET Contract!TerminalIn(rows)
        OBVIOUS
      <3> QED BY Zenon, <2>4, <3>1 DEF Contract!InsertIntent, Without, Absent
    <2> HIDE DEF expired
    <2> QED BY <2>1, <2>3, <2>4 DEF Contract!InsertIntent, Without, WithIntent,
              Absent, TerminalIn, IsTerminal, Outcomes
  <1>3. ASSUME NEW now \in Times, NEW d \in Deliveries, NEW count \in 1 .. MaxAttempts,
               RecordAttempt(d, count, now)
        PROVE  Contract!RecordAttempt(d, count)
    BY <1>3 DEF RecordAttempt, Transition, RolledBack, Contract!RecordAttempt,
                Contract!Write, AcceptsAttempt, WithAttempt, Absent
  <1>4. ASSUME NEW now \in Times, NEW d \in Deliveries,
               NEW outcome \in Outcomes \ {"unknown_after_crash"},
               RecordOutcome(d, outcome, now)
        PROVE  Contract!RecordOutcome(d, outcome)
    BY <1>4 DEF RecordOutcome, Transition, RolledBack, Contract!RecordOutcome,
                Contract!Write, WithOutcome, Absent
  <1>5. ASSUME NEW now \in Times, RecoverUnfinished(now)
        PROVE  Contract!RecoverUnfinished
    BY <1>5 DEF RecoverUnfinished, RolledBack, Contract!RecoverUnfinished, Recovered
  <1>6. IInv /\ [Next]_vars => [Contract!Next]_(Contract!vars)
    <2>1. ASSUME IInv, Next PROVE Contract!Next
      BY <1>2, <1>3, <1>4, <1>5, <2>1 DEF Next, Contract!Next, Outcomes
    <2>2. ASSUME UNCHANGED vars PROVE UNCHANGED Contract!vars
      BY <2>2 DEF vars, Contract!vars
    <2> QED BY <2>1, <2>2
  <1> QED BY <1>1, <1>6, Invariant, PTL DEF Spec, ImplementsDeliveryLog, Contract!Spec

(* A step of the contract moves every record forward. *)
LEMMA ContractForward ==
    ASSUME rows \in Logs, Contract!Next
    PROVE  \A e \in Deliveries : MovesForward(rows[e], rows'[e])
  <1> USE DEF Contract!Absent, Contract!Outcomes, Contract!IsTerminal,
              Contract!TerminalIn, Contract!Without, Contract!WithIntent, Contract!Recovered,
              Contract!WithAttempt, Contract!WithOutcome, Contract!AcceptsAttempt
  <1>1. ASSUME rows' = rows PROVE \A e \in Deliveries : MovesForward(rows[e], rows'[e])
    BY Zenon, <1>1 DEF MovesForward
  <1>2. ASSUME NEW d \in Deliveries, Contract!InsertIntent(d)
        PROVE  \A e \in Deliveries : MovesForward(rows[e], rows'[e])
    <2>1. PICK forgotten \in SUBSET TerminalIn(rows) :
             \/ rows' = Without(rows, forgotten)
             \/ /\ Without(rows, forgotten)[d] = Absent
                /\ rows' = WithIntent(Without(rows, forgotten), d)
      BY Zenon, <1>2 DEF Contract!InsertIntent, Absent, Without, WithIntent, TerminalIn,
         IsTerminal, Outcomes
    <2>2. 0 \in Nat /\ "failed" \in Outcomes
      BY DEF Outcomes
    <2> QED BY Zenon, <2>1, <2>2, WritesForward
  <1>3. ASSUME NEW d \in Deliveries, NEW count \in 1 .. MaxAttempts,
               Contract!RecordAttempt(d, count)
        PROVE  \A e \in Deliveries : MovesForward(rows[e], rows'[e])
    <2>1. \/ rows' = rows
          \/ AcceptsAttempt(rows, d, count) /\ rows' = WithAttempt(rows, d, count)
      BY Zenon, <1>3 DEF Contract!RecordAttempt, Contract!Write, AcceptsAttempt, WithAttempt
    <2>2. count \in Nat /\ "failed" \in Outcomes /\ {} \in SUBSET TerminalIn(rows)
      BY DEF Outcomes
    <2> QED BY Zenon, <1>1, <2>1, <2>2, WritesForward
  <1>4. ASSUME NEW d \in Deliveries, NEW outcome \in Outcomes,
               Contract!RecordOutcome(d, outcome)
        PROVE  \A e \in Deliveries : MovesForward(rows[e], rows'[e])
    <2>1. \/ rows' = rows
          \/ rows[d].state = "pending" /\ rows' = WithOutcome(rows, d, outcome)
      BY Zenon, <1>4 DEF Contract!RecordOutcome, Contract!Write, WithOutcome
    <2>2. 0 \in Nat /\ {} \in SUBSET TerminalIn(rows)
      OBVIOUS
    <2> QED BY Zenon, <1>1, <2>1, <2>2, WritesForward
  <1>5. ASSUME Contract!RecoverUnfinished, NEW d \in Deliveries
        PROVE  MovesForward(rows[d], rows'[d])
    <2>1. rows' = rows \/ rows' = Recovered(rows)
      BY Zenon, <1>5 DEF Contract!RecoverUnfinished, Recovered
    <2>2. 0 \in Nat /\ "failed" \in Outcomes /\ {} \in SUBSET TerminalIn(rows)
      BY DEF Outcomes
    <2> QED BY Zenon, <1>1, <2>1, <2>2, WritesForward
  <1> QED BY Zenon, <1>2, <1>3, <1>4, <1>5 DEF Contract!Next, Outcomes

(* What the contract promises therefore holds of this log: a record only    *)
(* moves forward (delivery.rs:46-224).                                     *)
THEOREM RecordsMoveForward == ASSUME Parameters PROVE Spec => Contract!Forward
  <1>1. IInv /\ [Contract!Next]_(Contract!vars) =>
           [\A d \in Deliveries : Contract!MovesForward(rows[d], rows'[d])]_(Contract!vars)
    <2>1. IInv => rows \in Logs
      BY Zenon DEF IInv, TypeOK, Logs
    <2> QED BY Zenon, <2>1, ContractForward DEF MovesForward, Contract!MovesForward, Absent,
            Contract!Absent, IsTerminal, Contract!IsTerminal, Outcomes, Contract!Outcomes
  <1> QED BY <1>1, Invariant, Refinement, PTL
          DEF ImplementsDeliveryLog, Contract!Spec, Contract!Forward
=============================================================================
