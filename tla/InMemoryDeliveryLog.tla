------------------------ MODULE InMemoryDeliveryLog ------------------------
(***************************************************************************)
(* crates/engine/bondry-egress-runtime/src/memory_log.rs: a process-local  *)
(* log of at most Limit records that reclaims the records that became      *)
(* terminal first.  Every operation runs under one mutex.                  *)
(***************************************************************************)
EXTENDS DeliveryRecords, FiniteSetTheorems, Sequences

CONSTANTS Limit, MaxAttempts

VARIABLES
    records,          \* MemoryLogState::records
    terminal_order,   \* MemoryLogState::terminal_order
    answer

vars == <<records, terminal_order, answer>>

Present(recs) == {d \in Deliveries : recs[d] # Absent}

(* Types; only a poisoned mutex makes this log Unavailable                  *)
(* (memory_log.rs:83-167).                                                  *)
TypeOK ==
    /\ records \in [Deliveries -> Records]
    /\ terminal_order \in Seq(Deliveries)
    /\ answer \in {"none", "ok", "conflict", "capacity", "invalid", "not_found"}

Init ==
    /\ records = EmptyLog
    /\ terminal_order = <<>>
    /\ answer = "none"

(* What is left after k passes of the loop that makes room. *)
AfterPops(k) ==
    Without(records, {terminal_order[i] : i \in 1 .. k} \cap TerminalIn(records))

Full(recs) == Cardinality(Present(recs)) >= Limit

InsertIntent(d) ==
    \/ /\ records[d] # Absent
       /\ answer' = "conflict"
       /\ UNCHANGED <<records, terminal_order>>
    \/ /\ records[d] = Absent
       /\ \E k \in 0 .. Len(terminal_order) :
             /\ \A i \in 0 .. k - 1 : Full(AfterPops(i))
             /\ terminal_order' = SubSeq(terminal_order, k + 1,
                                         Len(terminal_order))
             /\ \/ /\ ~Full(AfterPops(k))
                   /\ records' = WithIntent(AfterPops(k), d)
                   /\ answer' = "ok"
                \/ /\ Full(AfterPops(k))
                   /\ k = Len(terminal_order)
                   /\ records' = AfterPops(k)
                   /\ answer' = "capacity"

(* NotFound or InvalidTransition. *)
Refuses(d) == answer' = IF records[d] = Absent THEN "not_found" ELSE "invalid"

RecordAttempt(d, count) ==
    /\ IF AcceptsAttempt(records, d, count)
       THEN records' = WithAttempt(records, d, count) /\ answer' = "ok"
       ELSE UNCHANGED records /\ Refuses(d)
    /\ UNCHANGED terminal_order

RecordOutcome(d, outcome) ==
    IF AcceptsOutcome(records, d, outcome)
    THEN /\ records' = WithOutcome(records, d, outcome)
         /\ terminal_order' = Append(terminal_order, d)
         /\ answer' = "ok"
    ELSE /\ Refuses(d)
         /\ UNCHANGED <<records, terminal_order>>

Next ==
    \E d \in Deliveries :
       \/ InsertIntent(d)
       \/ \E count \in 1 .. MaxAttempts : RecordAttempt(d, count)
       \/ \E outcome \in Outcomes \ {"unknown_after_crash"} :
             RecordOutcome(d, outcome)

Spec == Init /\ [][Next]_vars

-----------------------------------------------------------------------------
(* The reclamation order lists exactly the terminal records, each once, so  *)
(* a re-used identifier never appears twice and making room never takes     *)
(* more than one pass; and the log never exceeds its capacity               *)
(* (memory_log.rs:83-109, 139-167).                                         *)
ReclamationOrder ==
    /\ {terminal_order[i] : i \in DOMAIN terminal_order} = TerminalIn(records)
    /\ Len(terminal_order) = Cardinality(TerminalIn(records))
    /\ Cardinality(Present(records)) <= Limit

(* Only the record that became terminal first is ever reclaimed             *)
(* (memory_log.rs:91-102).                                                  *)
OldestFirst ==
    \A d \in Present(records) : records'[d] = Absent => d = Head(terminal_order)

Contract == INSTANCE DeliveryLog WITH log <- records

(* Every step is one of the contract, or changes nothing it speaks of. *)
KeepsContract == Contract!Next \/ UNCHANGED Contract!vars

(* The in-memory log keeps the contract the engine was verified against. *)
ImplementsDeliveryLog == Contract!Spec

-----------------------------------------------------------------------------
(* Proofs, for every set of identifiers and every capacity. *)

(* The inductive invariant: the order lists each terminal record once, and  *)
(* the records are finitely many and within the capacity.                   *)
IInv ==
    /\ TypeOK
    /\ \A d \in Deliveries : records[d].state = "absent" => records[d] = Absent
    /\ \A i, j \in DOMAIN terminal_order :
          terminal_order[i] = terminal_order[j] => i = j
    /\ {terminal_order[i] : i \in DOMAIN terminal_order} = TerminalIn(records)
    /\ IsFiniteSet(Present(records))
    /\ Cardinality(Present(records)) <= Limit

(* The loop that makes room (memory_log.rs:91-102) takes out the first k    *)
(* records of the order, and nothing else.                                  *)
LEMMA PopsRemoveFront ==
    ASSUME IInv, NEW k \in 0 .. Len(terminal_order)
    PROVE  LET popped == {terminal_order[i] : i \in 1 .. k} IN
           /\ AfterPops(k) \in Logs
           /\ \A d \in Deliveries :
                 AfterPops(k)[d] = IF d \in popped THEN Absent ELSE records[d]
           /\ popped \subseteq TerminalIn(records)
           /\ Present(AfterPops(k)) = Present(records) \ popped
           /\ TerminalIn(AfterPops(k)) = TerminalIn(records) \ popped
  <1> DEFINE popped == {terminal_order[i] : i \in 1 .. k}
  <1>1. /\ records \in Logs
        /\ terminal_order \in Seq(Deliveries)
    BY DEF IInv, TypeOK, Logs
  <1>2. popped \subseteq TerminalIn(records)
    BY <1>1 DEF IInv
  <1>3. /\ AfterPops(k) \in Logs
        /\ \A d \in Deliveries :
              AfterPops(k)[d] = IF d \in popped THEN Absent ELSE records[d]
    BY <1>1, <1>2, WithoutType DEF AfterPops
  <1>4. Present(AfterPops(k)) = Present(records) \ popped
    BY <1>3 DEF Present
  <1>5. ~IsTerminal(Absent)
    BY DEF IsTerminal, Absent, Outcomes
  <1>6. TerminalIn(AfterPops(k)) = TerminalIn(records) \ popped
    BY <1>3, <1>5 DEF TerminalIn
  <1> QED BY <1>2, <1>3, <1>4, <1>6

(* One pass always makes room: the loop never runs twice                    *)
(* (memory_log.rs:91-102).                                                  *)
LEMMA OnePass ==
    ASSUME Limit \in Nat, IInv, NEW k \in 0 .. Len(terminal_order),
           \A i \in 0 .. k - 1 : Full(AfterPops(i))
    PROVE  k <= 1
  <1>1. terminal_order \in Seq(Deliveries)
    BY DEF IInv, TypeOK
  <1> SUFFICES ASSUME k >= 2 PROVE FALSE
    BY <1>1
  <1>2. Full(AfterPops(1)) /\ 1 \in 0 .. Len(terminal_order)
    BY <1>1
  <1> DEFINE head == terminal_order[1]
  <1>3. {terminal_order[i] : i \in 1 .. 1} = {head}
    OBVIOUS
  <1>4. head \in TerminalIn(records) /\ Present(AfterPops(1)) = Present(records) \ {head}
    BY <1>2, <1>3, PopsRemoveFront
  <1>5. head \in Present(records)
    BY <1>4 DEF TerminalIn, Present, IsTerminal, Absent, Outcomes
  <1>6. /\ Cardinality(Present(records) \ {head}) = Cardinality(Present(records)) - 1
        /\ Cardinality(Present(records)) \in Nat
    BY Zenon, <1>5, FS_RemoveElement, FS_CardinalityType DEF IInv
  <1>7. Cardinality(Present(records)) <= Limit
    BY DEF IInv
  <1>8. Cardinality(Present(records) \ {head}) >= Limit
    BY Zenon, <1>2, <1>4 DEF Full
  <1> QED BY <1>6, <1>7, <1>8

(* insert_intent keeps the invariant (memory_log.rs:83-109). *)
LEMMA InsertStep ==
    ASSUME Limit \in Nat, IInv, NEW d \in Deliveries, InsertIntent(d)
    PROVE  IInv'
  <1>1. CASE records[d] # Absent
    BY <1>1 DEF InsertIntent, IInv, TypeOK
  <1>2. CASE records[d] = Absent
    <2>1. PICK k \in 0 .. Len(terminal_order) :
             /\ \A i \in 0 .. k - 1 : Full(AfterPops(i))
             /\ terminal_order' = SubSeq(terminal_order, k + 1, Len(terminal_order))
             /\ \/ /\ ~Full(AfterPops(k))
                   /\ records' = WithIntent(AfterPops(k), d)
                   /\ answer' = "ok"
                \/ /\ records' = AfterPops(k)
                   /\ answer' = "capacity"
      BY <1>2 DEF InsertIntent
    <2> DEFINE popped == {terminal_order[i] : i \in 1 .. k}
               left == AfterPops(k)
    <2>2. /\ left \in Logs
          /\ \A e \in Deliveries :
                left[e] = IF e \in popped THEN Absent ELSE records[e]
          /\ Present(left) = Present(records) \ popped
          /\ TerminalIn(left) = TerminalIn(records) \ popped
      BY PopsRemoveFront
    <2>3. /\ IsFiniteSet(Present(left))
          /\ Cardinality(Present(left)) <= Cardinality(Present(records))
          /\ Cardinality(Present(left)) \in Nat
          /\ Cardinality(Present(records)) \in Nat
      BY <2>2, FS_Subset, FS_CardinalityType DEF IInv
    <2>4. terminal_order \in Seq(Deliveries)
      BY DEF IInv, TypeOK
    <2>5. /\ terminal_order' \in Seq(Deliveries)
          /\ Len(terminal_order') = Len(terminal_order) - k
          /\ \A i \in 1 .. Len(terminal_order) - k :
                terminal_order'[i] = terminal_order[i + k]
      BY <2>1, <2>4
    <2>6. \A i, j \in DOMAIN terminal_order' :
             terminal_order'[i] = terminal_order'[j] => i = j
      <3> SUFFICES ASSUME NEW i \in 1 .. Len(terminal_order) - k,
                          NEW j \in 1 .. Len(terminal_order) - k,
                          terminal_order[i + k] = terminal_order[j + k]
                   PROVE  i = j
        BY <2>4, <2>5
      <3>1. /\ i + k \in DOMAIN terminal_order
            /\ j + k \in DOMAIN terminal_order
        BY <2>4
      <3>2. i + k = j + k
        BY <3>1 DEF IInv
      <3> QED BY <2>4, <3>2
    <2>7. {terminal_order'[i] : i \in DOMAIN terminal_order'} = TerminalIn(left)
      <3>1. {terminal_order'[i] : i \in DOMAIN terminal_order'}
               = {terminal_order[i] : i \in k + 1 .. Len(terminal_order)}
        <4>1. ASSUME NEW i \in DOMAIN terminal_order'
              PROVE  \E j \in k + 1 .. Len(terminal_order) :
                        terminal_order'[i] = terminal_order[j]
          <5>1. /\ i \in 1 .. Len(terminal_order) - k
                /\ i + k \in k + 1 .. Len(terminal_order)
            BY <2>4, <2>5
          <5> QED BY <2>5, <5>1
        <4>2. ASSUME NEW j \in k + 1 .. Len(terminal_order)
              PROVE  \E i \in DOMAIN terminal_order' :
                        terminal_order'[i] = terminal_order[j]
          <5>1. /\ j - k \in DOMAIN terminal_order'
                /\ j - k \in 1 .. Len(terminal_order) - k
                /\ (j - k) + k = j
            BY <2>4, <2>5
          <5> QED BY <2>5, <5>1
        <4> QED BY <4>1, <4>2
      <3>2. \A i \in k + 1 .. Len(terminal_order) : terminal_order[i] \notin popped
        BY <2>4 DEF IInv
      <3>3. {terminal_order[i] : i \in k + 1 .. Len(terminal_order)}
               = {terminal_order[i] : i \in DOMAIN terminal_order} \ popped
        BY <2>4, <3>2
      <3> QED BY Zenon, <2>2, <3>1, <3>3 DEF IInv
    <2>8. \A e \in Deliveries : left[e].state = "absent" => left[e] = Absent
      BY <2>2 DEF IInv
    <2> HIDE DEF left, popped
    <2>9. CASE records' = left /\ answer' = "capacity"
      <3>1. Cardinality(Present(left)) <= Limit
        BY <2>3 DEF IInv
      <3>2. TypeOK'
        BY <2>2, <2>5, <2>9 DEF TypeOK, Logs
      <3> QED BY <2>3, <2>6, <2>7, <2>8, <2>9, <3>1, <3>2 DEF IInv, Present, TerminalIn
    <2>10. CASE ~Full(left) /\ records' = WithIntent(left, d) /\ answer' = "ok"
      <3>1. /\ records' \in Logs
            /\ records'[d] = [state |-> "pending", attempts |-> 0]
            /\ \A e \in Deliveries \ {d} : records'[e] = left[e]
        BY <2>2, <2>10, IntentType
      <3>2. left[d] = Absent
        BY <1>2, <2>2
      <3>3. Present(records') = Present(left) \cup {d}
        BY <3>1 DEF Present, Absent
      <3>4. /\ IsFiniteSet(Present(records'))
            /\ Cardinality(Present(records')) = Cardinality(Present(left)) + 1
        <4>1. d \notin Present(left)
          BY <3>2 DEF Present
        <4> QED BY <2>3, <3>3, <4>1, FS_AddElement
      <3>5. Cardinality(Present(records')) <= Limit
        BY <2>3, <2>10, <3>4 DEF Full
      <3>6. TerminalIn(records') = TerminalIn(left)
        BY <3>1, <3>2 DEF TerminalIn, IsTerminal, Outcomes, Absent
      <3>7. \A e \in Deliveries : records'[e].state = "absent" => records'[e] = Absent
        BY <2>8, <3>1
      <3> QED BY Zenon, <2>5, <2>6, <2>7, <2>10, <3>1, <3>4, <3>5, <3>6, <3>7
              DEF IInv, TypeOK, Logs, Present, TerminalIn
    <2> QED BY <2>1, <2>9, <2>10 DEF left
  <1> QED BY <1>1, <1>2

(* record_attempt keeps the invariant (memory_log.rs:111-137). *)
LEMMA AttemptStep ==
    ASSUME IInv, NEW d \in Deliveries, NEW count \in 1 .. MaxAttempts,
           RecordAttempt(d, count)
    PROVE  IInv'
  <1>1. CASE records' = records /\ answer' \in {"invalid", "not_found"}
    BY <1>1 DEF RecordAttempt, Refuses, AcceptsAttempt, IInv, TypeOK
  <1>2. CASE /\ AcceptsAttempt(records, d, count)
             /\ records' = WithAttempt(records, d, count)
             /\ answer' = "ok"
    <2>1. records \in Logs /\ count \in Nat
      BY DEF IInv, TypeOK, Logs
    <2>2. /\ records' \in Logs
          /\ records'[d] = [state |-> "pending", attempts |-> count]
          /\ \A e \in Deliveries \ {d} : records'[e] = records[e]
      BY <1>2, <2>1, AttemptType DEF AcceptsAttempt
    <2>3. records[d].state = "pending" /\ records[d] # Absent
      BY <1>2 DEF AcceptsAttempt, Absent
    <2>4. Present(records') = Present(records)
      BY <2>2, <2>3 DEF Present, Absent
    <2>5. TerminalIn(records') = TerminalIn(records)
      BY <2>2, <2>3 DEF TerminalIn, IsTerminal, Outcomes
    <2>6. \A e \in Deliveries : records'[e].state = "absent" => records'[e] = Absent
      BY <2>2 DEF IInv
    <2>7. TypeOK' /\ UNCHANGED terminal_order
      BY <1>2, <2>2 DEF IInv, TypeOK, Logs, RecordAttempt
    <2> QED BY <2>4, <2>5, <2>6, <2>7 DEF IInv
  <1> QED BY <1>1, <1>2 DEF RecordAttempt, Refuses

(* record_outcome appends the record to the order (memory_log.rs:139-167). *)
LEMMA OutcomeStep ==
    ASSUME IInv, NEW d \in Deliveries, NEW outcome \in Outcomes,
           RecordOutcome(d, outcome)
    PROVE  IInv'
  <1>1. CASE ~AcceptsOutcome(records, d, outcome)
    BY <1>1 DEF RecordOutcome, Refuses, IInv, TypeOK
  <1>2. CASE AcceptsOutcome(records, d, outcome)
    <2>1. /\ records \in Logs
          /\ terminal_order \in Seq(Deliveries)
          /\ records' = WithOutcome(records, d, outcome)
          /\ terminal_order' = Append(terminal_order, d)
          /\ answer' = "ok"
      BY <1>2 DEF IInv, TypeOK, Logs, RecordOutcome
    <2>2. /\ records' \in Logs
          /\ records'[d] = [state |-> outcome, attempts |-> records[d].attempts]
          /\ \A e \in Deliveries \ {d} : records'[e] = records[e]
      BY <2>1, OutcomeType
    <2>3. /\ records[d].state = "pending"
          /\ records[d] # Absent
          /\ records'[d] # Absent
          /\ d \notin TerminalIn(records)
      BY <1>2, <2>2 DEF AcceptsOutcome, Absent, TerminalIn, IsTerminal, Outcomes
    <2>4. Present(records') = Present(records)
      BY <2>2, <2>3 DEF Present
    <2>5. TerminalIn(records') = TerminalIn(records) \cup {d}
      BY <2>2 DEF TerminalIn, IsTerminal
    <2>6. \A e \in Deliveries : records'[e].state = "absent" => records'[e] = Absent
      BY <2>2 DEF IInv, Outcomes
    <2>7. /\ terminal_order' \in Seq(Deliveries)
          /\ Len(terminal_order') = Len(terminal_order) + 1
          /\ \A i \in 1 .. Len(terminal_order) : terminal_order'[i] = terminal_order[i]
          /\ terminal_order'[Len(terminal_order) + 1] = d
          /\ DOMAIN terminal_order = 1 .. Len(terminal_order)
          /\ DOMAIN terminal_order' = 1 .. Len(terminal_order) + 1
      BY <2>1
    <2>8. \A i \in DOMAIN terminal_order : terminal_order[i] # d
      BY <2>3 DEF IInv
    <2>9. \A i, j \in DOMAIN terminal_order' :
             terminal_order'[i] = terminal_order'[j] => i = j
      BY <2>1, <2>7, <2>8 DEF IInv
    <2>10. {terminal_order'[i] : i \in DOMAIN terminal_order'} = TerminalIn(records')
      <3>1. {terminal_order'[i] : i \in DOMAIN terminal_order'}
               = {terminal_order[i] : i \in DOMAIN terminal_order} \cup {d}
        BY <2>1, <2>7
      <3> QED BY <2>5, <3>1 DEF IInv
    <2>11. TypeOK'
      BY <2>1, <2>2, <2>7 DEF TypeOK, Logs
    <2> QED BY Zenon, <2>4, <2>6, <2>9, <2>10, <2>11 DEF IInv, Present, TerminalIn
  <1> QED BY <1>1, <1>2

(* Every step keeps the invariant. *)
LEMMA NextInv ==
    ASSUME Limit \in Nat, IInv, [Next]_vars
    PROVE  IInv'
  <1>1. CASE UNCHANGED vars
    BY <1>1 DEF vars, IInv, TypeOK, Present, TerminalIn
  <1>2. CASE Next
    BY <1>2, InsertStep, AttemptStep, OutcomeStep DEF Next
  <1> QED BY <1>1, <1>2

(* The invariant holds from a new log on. *)
LEMMA Invariant == ASSUME Limit \in Nat PROVE Spec => []IInv
  <1>1. ASSUME Init PROVE IInv
    <2>1. Present(records) = {} /\ TerminalIn(records) = {}
      BY <1>1 DEF Init, EmptyLog, Present, TerminalIn, IsTerminal, Absent, Outcomes
    <2>2. records \in Logs /\ terminal_order \in Seq(Deliveries)
      BY <1>1, EmptyLogType DEF Init
    <2>3. TypeOK /\ \A d \in Deliveries : records[d] = Absent
      BY <1>1, <2>2 DEF Init, TypeOK, Logs, EmptyLog
    <2>4. DOMAIN terminal_order = {}
      BY <1>1 DEF Init
    <2>5. {terminal_order[i] : i \in DOMAIN terminal_order} = {}
      BY <2>4
    <2>6. IsFiniteSet(Present(records)) /\ Cardinality(Present(records)) = 0
      BY <2>1, FS_EmptySet
    <2> QED BY <2>1, <2>3, <2>4, <2>5, <2>6 DEF IInv
  <1>2. IInv /\ [Next]_vars => IInv'
    BY NextInv
  <1> QED BY <1>1, <1>2, PTL DEF Spec

(* Records, order and answers keep their types (memory_log.rs:83-167). *)
THEOREM TypeCorrect == ASSUME Limit \in Nat PROVE Spec => []TypeOK
  <1>1. IInv => TypeOK
    BY DEF IInv
  <1> QED BY <1>1, Invariant, PTL

(* For every capacity, the reclamation order lists exactly the terminal     *)
(* records, each once, and the log stays within its capacity                *)
(* (memory_log.rs:83-109, 139-167).                                         *)
THEOREM OrderIsExact == ASSUME Limit \in Nat PROVE Spec => []ReclamationOrder
  <1>1. ASSUME IInv PROVE ReclamationOrder
    <2> DEFINE n == Len(terminal_order)
    <2>1. terminal_order \in Bijection(1 .. n, TerminalIn(records))
      <3>1. /\ DOMAIN terminal_order = 1 .. n
            /\ terminal_order \in [1 .. n -> Deliveries]
        BY <1>1 DEF IInv, TypeOK
      <3>2. {terminal_order[i] : i \in 1 .. n} = TerminalIn(records)
        BY <1>1, <3>1 DEF IInv
      <3>3. terminal_order \in [1 .. n -> TerminalIn(records)]
        BY <3>1, <3>2
      <3>4. \A i, j \in 1 .. n : terminal_order[i] = terminal_order[j] => i = j
        BY <1>1, <3>1 DEF IInv
      <3> HIDE DEF n
      <3> QED BY <3>2, <3>3, <3>4 DEF Bijection, Injection, Surjection, IsInjective
    <2>2. n \in Nat /\ IsFiniteSet(1 .. n) /\ Cardinality(1 .. n) = n
      BY <1>1, FS_Interval DEF IInv, TypeOK
    <2>3. Cardinality(TerminalIn(records)) = n
      BY <2>1, <2>2, FS_Bijection DEF ExistsBijection
    <2> QED BY <1>1, <2>3 DEF IInv, ReclamationOrder
  <1> QED BY <1>1, Invariant, PTL

(* For every capacity, making room takes at most the record that became     *)
(* terminal first (memory_log.rs:91-102).                                   *)
THEOREM OnlyOldestReclaimed ==
    ASSUME Limit \in Nat PROVE Spec => [][OldestFirst]_vars
  <1>1. ASSUME IInv, Next PROVE OldestFirst
    <2> SUFFICES ASSUME NEW d \in Deliveries, records[d] # Absent,
                        records'[d] = Absent
                 PROVE  d = Head(terminal_order)
      BY DEF OldestFirst, Present
    <2>1. records \in Logs /\ terminal_order \in Seq(Deliveries)
      BY <1>1 DEF IInv, TypeOK, Logs
    <2>2. PICK e \in Deliveries :
             \/ InsertIntent(e)
             \/ \E count \in 1 .. MaxAttempts : RecordAttempt(e, count)
             \/ \E outcome \in Outcomes \ {"unknown_after_crash"} :
                   RecordOutcome(e, outcome)
      BY <1>1 DEF Next
    <2>3. CASE InsertIntent(e)
      <3>1. PICK k \in 0 .. Len(terminal_order) :
               /\ \A i \in 0 .. k - 1 : Full(AfterPops(i))
               /\ records' \in {WithIntent(AfterPops(k), e), AfterPops(k)}
        BY <2>3 DEF InsertIntent
      <3>2. k \in {0, 1}
        BY <1>1, <2>1, <3>1, OnePass
      <3>3. /\ AfterPops(k) \in Logs
            /\ AfterPops(k)[d] = Absent => d \in {terminal_order[i] : i \in 1 .. k}
        BY <1>1, PopsRemoveFront
      <3>4. AfterPops(k)[d] = Absent
        BY <3>1, <3>3, IntentType DEF Absent
      <3>5. k = 1 /\ d = terminal_order[1] /\ Len(terminal_order) >= 1
        BY <2>1, <3>2, <3>3, <3>4
      <3> QED BY <2>1, <3>5
    <2>4. ASSUME NEW count \in 1 .. MaxAttempts, RecordAttempt(e, count) PROVE FALSE
      <3>1. /\ count \in Nat
            /\ AcceptsAttempt(records, e, count)
            /\ records' = WithAttempt(records, e, count)
        BY <2>4 DEF RecordAttempt
      <3>2. /\ records'[e] = [state |-> "pending", attempts |-> count]
            /\ d # e => records'[d] = records[d]
        BY <2>1, <3>1, AttemptType DEF AcceptsAttempt
      <3> QED BY <3>2 DEF Absent
    <2>5. ASSUME NEW outcome \in Outcomes, RecordOutcome(e, outcome) PROVE FALSE
      <3>1. records' = WithOutcome(records, e, outcome)
        BY <2>5 DEF RecordOutcome
      <3>2. /\ records'[e] = [state |-> outcome, attempts |-> records[e].attempts]
            /\ \A f \in Deliveries \ {e} : records'[f] = records[f]
        BY <2>1, <3>1, OutcomeType
      <3> QED BY <3>2 DEF Absent, Outcomes
    <2> QED BY <2>2, <2>3, <2>4, <2>5
  <1>2. IInv /\ [Next]_vars => [OldestFirst]_vars
    BY <1>1
  <1> QED BY <1>2, Invariant, PTL DEF Spec

(* The in-memory log implements the contract of the DeliveryLog trait, for  *)
(* every capacity: each of its steps is the contract's step of the same     *)
(* name (memory_log.rs:83-167).                                             *)
THEOREM Refinement == ASSUME Limit \in Nat PROVE Spec => ImplementsDeliveryLog
  <1> USE DEF Contract!Absent, Contract!Outcomes, Contract!IsTerminal,
              Contract!TerminalIn, Contract!Without, Contract!WithIntent,
              Contract!WithAttempt, Contract!WithOutcome, Contract!AcceptsAttempt
  <1>1. Init => Contract!Init
    BY DEF Init, Contract!Init, EmptyLog, Contract!EmptyLog, Absent, Contract!Absent
  <1>2. ASSUME IInv, NEW d \in Deliveries, InsertIntent(d)
        PROVE  Contract!InsertIntent(d)
    <2>1. CASE records[d] # Absent
      <3>1. Without(records, {}) = records
        BY <1>2 DEF Without, IInv, TypeOK
      <3>2. {} \in SUBSET Contract!TerminalIn(records)
        OBVIOUS
      <3>3. /\ records[d] # Absent
            /\ records' = Without(records, {})
            /\ answer' = "conflict"
        BY <1>2, <2>1, <3>1 DEF InsertIntent
      <3> QED BY Zenon, <2>1, <3>1, <3>2, <3>3 DEF Contract!InsertIntent, Absent, Without
    <2>2. CASE records[d] = Absent
      <3>1. PICK k \in 0 .. Len(terminal_order) :
               \/ records' = WithIntent(AfterPops(k), d) /\ answer' = "ok"
               \/ records' = AfterPops(k) /\ answer' = "capacity"
        BY <1>2, <2>2 DEF InsertIntent
      <3> DEFINE forgotten ==
                    {terminal_order[i] : i \in 1 .. k} \cap TerminalIn(records)
      <3>2. forgotten \in SUBSET TerminalIn(records) /\ AfterPops(k) = Without(records, forgotten)
        BY DEF AfterPops
      <3>3. AfterPops(k)[d] = Absent
        BY <1>2, <2>2, PopsRemoveFront
      <3> HIDE DEF forgotten
      <3> QED BY <3>1, <3>2, <3>3 DEF Contract!InsertIntent, Absent, Without,
              WithIntent, TerminalIn, IsTerminal, Outcomes
    <2> QED BY <2>1, <2>2
  <1>3. ASSUME IInv, NEW d \in Deliveries, NEW count \in 1 .. MaxAttempts,
               RecordAttempt(d, count)
        PROVE  Contract!RecordAttempt(d, count)
    BY <1>3 DEF RecordAttempt, Refuses, Contract!RecordAttempt, Contract!Write,
                AcceptsAttempt, WithAttempt, Absent
  <1>4. ASSUME NEW d \in Deliveries, NEW outcome \in Outcomes \ {"unknown_after_crash"},
               RecordOutcome(d, outcome)
        PROVE  Contract!RecordOutcome(d, outcome)
    BY <1>4 DEF RecordOutcome, Refuses, AcceptsOutcome, Contract!RecordOutcome,
                Contract!Write, WithOutcome, Absent
  <1>5. IInv /\ [Next]_vars => [Contract!Next]_(Contract!vars)
    <2>1. ASSUME IInv, Next PROVE Contract!Next
      BY <1>2, <1>3, <1>4, <2>1 DEF Next, Contract!Next, Outcomes
    <2>2. ASSUME UNCHANGED vars PROVE UNCHANGED Contract!vars
      BY <2>2 DEF vars, Contract!vars
    <2> QED BY <2>1, <2>2
  <1> QED BY <1>1, <1>5, Invariant, PTL DEF Spec, ImplementsDeliveryLog, Contract!Spec

(* A step of the contract moves every record forward. *)
LEMMA ContractForward ==
    ASSUME records \in Logs, Contract!Next
    PROVE  \A e \in Deliveries : MovesForward(records[e], records'[e])
  <1> USE DEF Contract!Absent, Contract!Outcomes, Contract!IsTerminal,
              Contract!TerminalIn, Contract!Without, Contract!WithIntent, Contract!Recovered,
              Contract!WithAttempt, Contract!WithOutcome, Contract!AcceptsAttempt
  <1>1. ASSUME records' = records PROVE \A e \in Deliveries : MovesForward(records[e], records'[e])
    BY Zenon, <1>1 DEF MovesForward
  <1>2. ASSUME NEW d \in Deliveries, Contract!InsertIntent(d)
        PROVE  \A e \in Deliveries : MovesForward(records[e], records'[e])
    <2>1. PICK forgotten \in SUBSET TerminalIn(records) :
             \/ records' = Without(records, forgotten)
             \/ /\ Without(records, forgotten)[d] = Absent
                /\ records' = WithIntent(Without(records, forgotten), d)
      BY Zenon, <1>2 DEF Contract!InsertIntent, Absent, Without, WithIntent, TerminalIn,
         IsTerminal, Outcomes
    <2>2. 0 \in Nat /\ "failed" \in Outcomes
      BY DEF Outcomes
    <2> QED BY Zenon, <2>1, <2>2, WritesForward
  <1>3. ASSUME NEW d \in Deliveries, NEW count \in 1 .. MaxAttempts,
               Contract!RecordAttempt(d, count)
        PROVE  \A e \in Deliveries : MovesForward(records[e], records'[e])
    <2>1. \/ records' = records
          \/ AcceptsAttempt(records, d, count) /\ records' = WithAttempt(records, d, count)
      BY Zenon, <1>3 DEF Contract!RecordAttempt, Contract!Write, AcceptsAttempt, WithAttempt
    <2>2. count \in Nat /\ "failed" \in Outcomes /\ {} \in SUBSET TerminalIn(records)
      BY DEF Outcomes
    <2> QED BY Zenon, <1>1, <2>1, <2>2, WritesForward
  <1>4. ASSUME NEW d \in Deliveries, NEW outcome \in Outcomes,
               Contract!RecordOutcome(d, outcome)
        PROVE  \A e \in Deliveries : MovesForward(records[e], records'[e])
    <2>1. \/ records' = records
          \/ records[d].state = "pending" /\ records' = WithOutcome(records, d, outcome)
      BY Zenon, <1>4 DEF Contract!RecordOutcome, Contract!Write, WithOutcome
    <2>2. 0 \in Nat /\ {} \in SUBSET TerminalIn(records)
      OBVIOUS
    <2> QED BY Zenon, <1>1, <2>1, <2>2, WritesForward
  <1>5. ASSUME Contract!RecoverUnfinished, NEW d \in Deliveries
        PROVE  MovesForward(records[d], records'[d])
    <2>1. records' = records \/ records' = Recovered(records)
      BY Zenon, <1>5 DEF Contract!RecoverUnfinished, Recovered
    <2>2. 0 \in Nat /\ "failed" \in Outcomes /\ {} \in SUBSET TerminalIn(records)
      BY DEF Outcomes
    <2> QED BY Zenon, <1>1, <2>1, <2>2, WritesForward
  <1> QED BY Zenon, <1>2, <1>3, <1>4, <1>5 DEF Contract!Next, Outcomes

(* What the contract promises therefore holds of this log: a record only    *)
(* moves forward (memory_log.rs:83-167).                                   *)
THEOREM RecordsMoveForward == ASSUME Limit \in Nat PROVE Spec => Contract!Forward
  <1>1. IInv /\ [Contract!Next]_(Contract!vars) =>
           [\A d \in Deliveries : Contract!MovesForward(records[d], records'[d])]_(Contract!vars)
    <2>1. IInv => records \in Logs
      BY Zenon DEF IInv, TypeOK, Logs
    <2> QED BY Zenon, <2>1, ContractForward DEF MovesForward, Contract!MovesForward, Absent,
            Contract!Absent, IsTerminal, Contract!IsTerminal, Outcomes, Contract!Outcomes
  <1> QED BY <1>1, Invariant, Refinement, PTL
          DEF ImplementsDeliveryLog, Contract!Spec, Contract!Forward
=============================================================================
