------------------------ MODULE SqlCipherDedupStore ------------------------
(***************************************************************************)
(* crates/store/bondry-store-sqlcipher/src/dedup.rs with the counters of   *)
(* usage.rs and the table of database.rs: the webhook_dedup table, its row *)
(* of storage_usage, and a scan of the unknown records that releases the   *)
(* connection between two rows.                                            *)
(*                                                                         *)
(* Each operation is one IMMEDIATE transaction or one statement: applied   *)
(* and answered, rolled back, or applied and answered "unavailable" when   *)
(* the commit itself reports an error.  Times are the caller's wall clock. *)
(***************************************************************************)
EXTENDS DedupRecords, FiniteSets, FiniteSetsExt

CONSTANTS
    MaxRecords, MaxBytes,   \* DedupStoreLimits
    Charge,                 \* encoded_charge of each key
    Retention,
    MaxTime,                \* i64::MAX
    MaxClaims               \* bound: rows ever inserted

(* A u64 may exceed i64::MAX; one such value stands for all. *)
Times == 0 .. MaxTime + 1
Null == MaxTime + 2

VARIABLES
    rows,       \* state and automatic_expiry columns, see DedupRecords
    updated_at,
    expires_at, \* Null without an expiry
    sequence,   \* the AUTOINCREMENT column, 0 without a row
    inserted,   \* sqlite_sequence: the largest value ever used
    usage,      \* storage_usage: records and charged_bytes
    answer,
    scan,       \* visit_unknown: its ceiling, cursor and rows visited
    steady,     \* keys whose record has been unknown since the scan began
    fresh       \* keys claimed since the scan began

columns == <<rows, updated_at, expires_at, sequence, inserted, usage>>
scanning == <<scan, steady, fresh>>
vars == <<columns, answer, scanning>>

Present(table) == {k \in Keys : table[k] # NoRecord}
Unknown(table) == {k \in Keys : table[k].state = "unknown"}
IdleScan == [active |-> FALSE, ceiling |-> 0, cursor |-> 0, visited |-> {}]

(* The table, the counters and the scan keep their types: no delete takes a *)
(* counter below zero (usage.rs:63-85).                                     *)
TypeOK ==
    /\ rows \in [Keys -> DedupRecord]
    /\ updated_at \in [Keys -> 0 .. MaxTime]
    /\ expires_at \in [Keys -> 0 .. MaxTime \cup {Null}]
    /\ sequence \in [Keys -> 0 .. MaxClaims]
    /\ inserted \in 0 .. MaxClaims
    /\ usage \in [records : Nat, bytes : Nat]
    /\ scan \in [active : BOOLEAN, ceiling : 0 .. MaxClaims, cursor : Nat,
                 visited : SUBSET Keys]
    /\ steady \subseteq Keys
    /\ fresh \subseteq Keys

Init ==
    /\ rows = EmptyTable
    /\ updated_at = [k \in Keys |-> 0]
    /\ expires_at = [k \in Keys |-> Null]
    /\ sequence = [k \in Keys |-> 0]
    /\ inserted = 0
    /\ usage = [records |-> 0, bytes |-> 0]
    /\ answer = "none"
    /\ scan = IdleScan
    /\ steady = {}
    /\ fresh = {}

(* What the scan's history keeps of a change of the table. *)
Observed == steady' = steady \cap Unknown(rows') /\ UNCHANGED scan

Total(ks) == MapThenSumSet(LAMBDA k : Charge[k], ks)

(* Rows are deleted, and the trigger counts them. *)
Deleted(ks) ==
    /\ rows' = WithoutKeys(rows, ks)
    /\ updated_at' = [k \in Keys |-> IF k \in ks THEN 0 ELSE updated_at[k]]
    /\ expires_at' = [k \in Keys |-> IF k \in ks THEN Null ELSE expires_at[k]]
    /\ sequence' = [k \in Keys |-> IF k \in ks THEN 0 ELSE sequence[k]]
    /\ usage' = [records |-> usage.records - Cardinality(ks),
                 bytes |-> usage.bytes - Total(ks)]
    /\ UNCHANGED inserted

(* One row gets a state, a time and perhaps an expiry. *)
Updated(k, state, now, expires) ==
    /\ rows' = WithState(rows, k, state)
    /\ updated_at' = [updated_at EXCEPT ![k] = now]
    /\ expires_at' = [expires_at EXCEPT ![k] = expires]
    /\ UNCHANGED <<sequence, inserted, usage>>

RolledBack == answer' = "unavailable" /\ UNCHANGED <<columns, scanning>>

(* encoded_time fails *)
TimeRefused(now) ==
    /\ now > MaxTime
    /\ answer' = "invalid"
    /\ UNCHANGED <<columns, scanning>>

-----------------------------------------------------------------------------
(* Operations *)

(* Mutated Expired: also rows that are still needed. *)
ExpiredByAge(now) ==
    {k \in Keys : rows[k].state # "absent" /\ updated_at[k] + Retention <= now}

(* DELETE of completed rows whose expiry has come *)
Expired(now) ==
    {k \in Completed(rows) : expires_at[k] # Null /\ expires_at[k] <= now}

OverLimit(k, gone) ==
    \/ usage.records - Cardinality(gone) >= MaxRecords
    \/ usage.bytes - Total(gone) + Charge[k] > MaxBytes

(* AUTOINCREMENT *)
NextSequence(gone) == inserted + 1

Claim(k, retain, now) ==
    LET gone == Expired(now) IN
    \/ TimeRefused(now)
    \/ RolledBack
    \/ /\ now <= MaxTime
       /\ rows[k] # NoRecord /\ k \notin gone
       /\ Deleted(gone)
       /\ answer' \in {DuplicateOf[rows[k].state], "unavailable"}
       /\ Observed /\ UNCHANGED fresh
    \/ /\ now <= MaxTime
       /\ rows[k] = NoRecord \/ k \in gone
       /\ OverLimit(k, gone)
       /\ Deleted(gone)
       /\ answer' \in {"capacity", "unavailable"}
       /\ Observed /\ UNCHANGED fresh
    \/ /\ now <= MaxTime
       /\ rows[k] = NoRecord \/ k \in gone
       /\ ~OverLimit(k, gone)
       /\ NextSequence(gone) <= MaxClaims
       /\ rows' = WithClaim(WithoutKeys(rows, gone), k, retain)
       /\ updated_at' = [e \in Keys |-> IF e = k THEN now
                                        ELSE IF e \in gone THEN 0 ELSE updated_at[e]]
       /\ expires_at' = [e \in Keys |-> IF e \in gone \cup {k} THEN Null
                                        ELSE expires_at[e]]
       /\ sequence' = [e \in Keys |-> IF e = k THEN NextSequence(gone)
                                      ELSE IF e \in gone THEN 0 ELSE sequence[e]]
       /\ inserted' = IF inserted < sequence'[k] THEN sequence'[k] ELSE inserted
       /\ usage' = [records |-> usage.records - Cardinality(gone) + 1,
                    bytes |-> usage.bytes - Total(gone) + Charge[k]]
       /\ answer' \in {"claimed", "unavailable"}
       /\ Observed
       /\ fresh' = IF scan.active THEN fresh \cup {k} ELSE fresh

(* transition: the statement's WHERE clause decides; when it changes no row, *)
(* a second query tells a missing row from one in another state.             *)
Transition(k, now, matches, change) ==
    \/ TimeRefused(now)
    \/ RolledBack
    \/ /\ now <= MaxTime
       /\ matches
       /\ change
       /\ answer' \in {"ok", "unavailable"}
       /\ Observed /\ UNCHANGED fresh
    \/ /\ now <= MaxTime
       /\ ~matches
       /\ answer' = IF rows[k] = NoRecord THEN "not_found" ELSE "invalid"
       /\ UNCHANGED <<columns, scanning>>

(* expiration, and CASE automatic_expiry; the addition saturates. *)
Expiration(k, now) ==
    IF rows[k].retain THEN Null ELSE Min({now + Retention, MaxTime})

Complete(k, now) ==
    Transition(k, now, Settles(rows, k), Updated(k, "completed", now, Expiration(k, now)))

MarkUnknown(k, now) ==
    Transition(k, now, Settles(rows, k), Updated(k, "unknown", now, Null))

(* release_claim takes no time. *)
ReleaseClaim(k) == Transition(k, 0, Settles(rows, k), Deleted({k}))

ResolveUnknown(k, retryAllowed, now) ==
    Transition(k, now, Resolves(rows, k),
               IF retryAllowed THEN Deleted({k})
               ELSE Updated(k, "completed", now, Expiration(k, now)))

RecoverInFlight(now) ==
    LET claims == {k \in Keys : Settles(rows, k)} IN
    \/ TimeRefused(now)
    \/ RolledBack
    \/ /\ now <= MaxTime
       /\ rows' = RecoveredClaims(rows)
       /\ updated_at' = [k \in Keys |-> IF k \in claims THEN now ELSE updated_at[k]]
       /\ expires_at' = [k \in Keys |-> IF k \in claims THEN Null ELSE expires_at[k]]
       /\ answer' \in {"ok", "unavailable"}
       /\ Observed
       /\ UNCHANGED <<sequence, inserted, usage, fresh>>

ClearCompletedBefore(cutoff) ==
    \/ TimeRefused(cutoff)
    \/ RolledBack
    \/ /\ cutoff <= MaxTime
       /\ Deleted({k \in Completed(rows) : updated_at[k] < cutoff})
       /\ answer' \in {"ok", "unavailable"}
       /\ Observed /\ UNCHANGED fresh

-----------------------------------------------------------------------------
(* visit_unknown *)

(* unknown_scan_ceiling *)
ScanBegins ==
    /\ ~scan.active
    /\ scan' = [active |-> TRUE, cursor |-> 0, visited |-> {},
                ceiling |-> Max({0} \cup {sequence[k] : k \in Keys})]
    /\ steady' = Unknown(rows)
    /\ fresh' = {}
    /\ UNCHANGED <<columns, answer>>

(* Mutated Ahead: the key of the last row is not the cursor, its sequence is. *)
AheadBySequence ==
    {k \in Unknown(rows) : sequence[k] > scan.cursor /\ sequence[k] <= scan.ceiling}

(* next_unknown: the rows after the cursor, in key order *)
Ahead ==
    {k \in Unknown(rows) : k > scan.cursor /\ sequence[k] <= scan.ceiling}

(* The visitor sees the next row and goes on. *)
ScanNext ==
    /\ scan.active
    /\ Ahead # {}
    /\ scan' = [scan EXCEPT !.cursor = Min(Ahead), !.visited = @ \cup {Min(Ahead)}]
    /\ UNCHANGED <<columns, answer, steady, fresh>>

(* No row is left; or the visitor has had enough, or a query fails, which    *)
(* leaves nothing to say about the rows ahead.                               *)
ScanEnds ==
    /\ scan.active
    /\ scan' = IdleScan
    /\ steady' = {}
    /\ fresh' = {}
    /\ UNCHANGED <<columns, answer>>

Next ==
    \/ \E now \in Times :
          \/ \E k \in Keys :
                \/ \E retain \in BOOLEAN : Claim(k, retain, now)
                \/ Complete(k, now) \/ MarkUnknown(k, now)
                \/ \E retryAllowed \in BOOLEAN : ResolveUnknown(k, retryAllowed, now)
          \/ RecoverInFlight(now)
          \/ ClearCompletedBefore(now)
    \/ \E k \in Keys : ReleaseClaim(k)
    \/ ScanBegins \/ ScanNext \/ ScanEnds

Spec == Init /\ [][Next]_vars

-----------------------------------------------------------------------------
(* Properties *)

(* The counters that admission trusts are exact after every transaction,    *)
(* pass usage::read's own tests, and keep the table within its limits       *)
(* (usage.rs:5-20, 63-85, dedup.rs:162-175).                                *)
UsageExact ==
    /\ usage.records = Cardinality(Present(rows))
    /\ usage.bytes = Total(Present(rows))
    /\ usage.records <= MaxRecords
    /\ usage.bytes <= MaxBytes

(* A row expires if and only if it is completed and its claim allowed that, *)
(* whichever of the five ways made it completed, unknown or in flight, and  *)
(* never before the retention has passed (the CHECK of database.rs:270-275; *)
(* a violation would make every later write of the row fail).               *)
ExpiryMatchesState ==
    \A k \in Keys :
        /\ (expires_at[k] # Null)
              <=> (rows[k].state = "completed" /\ ~rows[k].retain)
        /\ expires_at[k] # Null =>
              expires_at[k] = MaxTime \/ expires_at[k] >= updated_at[k] + Retention

(* A scan that reaches its end has visited every record that was unknown    *)
(* all along, whatever was claimed, completed or resolved between two rows  *)
(* (dedup.rs:345-362).                                                      *)
ScanComplete ==
    scan.active /\ Ahead = {} => steady \subseteq scan.visited

(* A scan visits each key once and none that was claimed after it began, so *)
(* it ends however fast records become unknown (dedup.rs:75-84).            *)
ScanBounded ==
    ScanNext => /\ scan'.visited # scan.visited
                /\ scan'.visited \cap fresh \subseteq scan.visited

Contract == INSTANCE DedupStore WITH table <- rows

(* Every step is one of the contract, or changes nothing it speaks of. *)
KeepsContract == Contract!Next \/ UNCHANGED Contract!vars

=============================================================================
