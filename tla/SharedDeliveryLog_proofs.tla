---------------------- MODULE SharedDeliveryLog_proofs ----------------------
(***************************************************************************)
(* Proofs about SharedDeliveryLog, for any number of runtimes, deliveries, *)
(* attempts and starts.                                                    *)
(*                                                                         *)
(* HeldOnce alone is not inductive: that a delivery is admitted only when  *)
(* nobody holds it is known from the log, which has a record of everything *)
(* that is held (Owned).  The holder's count is the log's, which bounds    *)
(* what was sent (Recorded), and an outcome is either in the log or in the *)
(* process (Kept).                                                         *)
(***************************************************************************)
EXTENDS SharedDeliveryLog

Owned(e, d) ==
    held[e][d] # "none" =>
        /\ mode[e] # "off"
        /\ log[d].state # "absent"
        /\ attempts[e][d] = log[d].attempts
        /\ held[e][d] = "queued" => attempts[e][d] < MaxAttempts
        /\ held[e][d] = "spawned" => sent[d] < log[d].attempts
        /\ overrides[e][d] = "none"

Recorded(d) ==
    /\ sent[d] <= log[d].attempts
    /\ log[d].state = "absent" => log[d].attempts = 0

Kept(e, d) ==
    mode[e] # "off" =>
        \/ overrides[e][d] = "none" /\ told[e][d] \in {"none", log[d].state}
        \/ /\ overrides[e][d] # "none" /\ told[e][d] = overrides[e][d]
           /\ log[d].state # "absent"

IInv ==
    /\ TypeOK
    /\ HeldOnce
    /\ \A d \in Deliveries : Recorded(d)
    /\ \A e \in Engines, d \in Deliveries : Owned(e, d) /\ Kept(e, d)

Bounded == [Deliveries -> [state : LogStates, attempts : 0..MaxAttempts]]

(* A log with counts within the limit is one of the logs TypeOK admits. *)
LEMMA BoundedLogs ==
    /\ Bounded \subseteq Logs
    /\ \A l \in Logs :
          (\A d \in Deliveries : l[d].attempts <= MaxAttempts) => l \in Bounded
  BY SharedLogAssumption DEF Bounded, Logs, Records

(* One entry of a table with a row per runtime is changed. *)
LEMMA Entry ==
    ASSUME NEW S, NEW f \in [Engines -> [Deliveries -> S]],
           NEW e \in Engines, NEW d \in Deliveries, NEW v \in S
    PROVE  /\ [f EXCEPT ![e][d] = v] \in [Engines -> [Deliveries -> S]]
           /\ [f EXCEPT ![e][d] = v][e][d] = v
           /\ \A x \in Engines, y \in Deliveries :
                 x # e \/ y # d => [f EXCEPT ![e][d] = v][x][y] = f[x][y]
  OBVIOUS

(* One row is emptied (Nothing). *)
LEMMA Row ==
    ASSUME NEW S, "none" \in S, NEW f \in [Engines -> [Deliveries -> S]],
           NEW e \in Engines
    PROVE  /\ [f EXCEPT ![e] = Nothing] \in [Engines -> [Deliveries -> S]]
           /\ \A y \in Deliveries : [f EXCEPT ![e] = Nothing][e][y] = "none"
           /\ \A x \in Engines \ {e}, y \in Deliveries :
                 [f EXCEPT ![e] = Nothing][x][y] = f[x][y]
  BY DEF Nothing

(* EgressRuntime::start of every runtime lies ahead. *)
LEMMA InitHolds == Init => IInv
  BY SharedLogAssumption
  DEF Init, IInv, TypeOK, HeldOnce, Recorded, Owned, Kept, EmptyLog, Absent, Nothing,
      Places, LogStates, Outcomes

(* Recovery changes no count and no record that is settled or missing. *)
LEMMA StartHolds ==
    ASSUME IInv, NEW e \in Engines, Start(e) PROVE IInv'
  <1> USE DEF IInv
  <1>1. log \in Logs /\ log \in Bounded
    BY BoundedLogs DEF TypeOK, Bounded
  <1>2. /\ log' \in Logs
        /\ \A d \in Deliveries :
              /\ log[d].state # "pending" => log'[d] = log[d]
              /\ log[d].state = "pending" => log'[d].state = "unknown_after_crash"
              /\ log'[d].attempts = log[d].attempts
    <2>1. log' = Recovered(log)
      BY DEF Start
    <2>2. /\ log' \in Logs
          /\ \A d \in Deliveries :
                /\ log[d].state # "pending" => log'[d] = log[d]
                /\ log[d].state = "pending" =>
                      log'[d] = [state |-> "unknown_after_crash",
                                 attempts |-> log[d].attempts]
      BY <1>1, <2>1, RecoveredType
    <2>3. ASSUME NEW d \in Deliveries
          PROVE  /\ log[d].state = "pending" => log'[d].state = "unknown_after_crash"
                 /\ log'[d].attempts = log[d].attempts
      <3>1. CASE log[d].state = "pending"
        BY <1>1, <2>2, <3>1 DEF Logs, Records
      <3>2. CASE log[d].state # "pending"
        BY Zenon, <2>2, <3>2
      <3> QED BY <3>1, <3>2
    <2> QED BY Zenon, <2>2, <2>3
  <1>3. log' \in Bounded
    BY <1>1, <1>2, BoundedLogs DEF Bounded
  <1>4. /\ overrides' \in [Engines -> [Deliveries -> Outcomes \cup {"none"}]]
        /\ told' \in [Engines -> [Deliveries -> Outcomes \cup {"none"}]]
        /\ \A d \in Deliveries : overrides'[e][d] = "none" /\ told'[e][d] = "none"
        /\ \A x \in Engines \ {e}, d \in Deliveries :
              overrides'[x][d] = overrides[x][d] /\ told'[x][d] = told[x][d]
    BY ZenonT(60), Row DEF Start, TypeOK
  <1>5. TypeOK'
    BY <1>3, <1>4, SharedLogAssumption DEF Start, TypeOK, Bounded
  <1>6. HeldOnce' /\ \A d \in Deliveries : Recorded(d)'
    BY <1>2 DEF Start, HeldOnce, Recorded
  <1>7. ASSUME NEW x \in Engines, NEW d \in Deliveries
        PROVE  Owned(x, d)' /\ Kept(x, d)'
    <2>1. held[e][d] = "none"
      BY DEF Start, Owned
    <2>2. told[x][d] # "pending"
      BY Zenon DEF TypeOK, Outcomes
    <2> QED BY <1>2, <1>4, <2>1, <2>2 DEF Start, Owned, Kept, TypeOK
  <1> QED BY <1>5, <1>6, <1>7

(* insert_intent takes only what the log does not know, and nobody holds that. *)
LEMMA AdmitHolds ==
    ASSUME IInv, NEW e \in Engines, NEW d \in Deliveries, Admit(e, d) PROVE IInv'
  <1> USE DEF IInv
  <1>1. log \in Logs /\ log \in Bounded
    BY BoundedLogs DEF TypeOK, Bounded
  <1>2. /\ log' \in Logs
        /\ log'[d] = [state |-> "pending", attempts |-> 0]
        /\ \A y \in Deliveries \ {d} : log'[y] = log[y]
    BY <1>1, IntentType DEF Admit
  <1>3. log' \in Bounded
    BY <1>1, <1>2, BoundedLogs, SharedLogAssumption DEF Bounded
  <1>4. /\ held' \in [Engines -> [Deliveries -> Places]]
        /\ held'[e][d] = "queued"
        /\ \A x \in Engines, y \in Deliveries :
              x # e \/ y # d => held'[x][y] = held[x][y]
    BY Entry DEF Admit, TypeOK, Places
  <1>5. /\ attempts' \in [Engines -> [Deliveries -> 0..MaxAttempts]]
        /\ attempts'[e][d] = 0
        /\ \A x \in Engines, y \in Deliveries :
              x # e \/ y # d => attempts'[x][y] = attempts[x][y]
    <2>1. 0 \in 0..MaxAttempts
      BY SharedLogAssumption
    <2> QED BY <2>1, Entry DEF Admit, TypeOK
  <1>6. TypeOK'
    BY <1>3, <1>4, <1>5 DEF Admit, TypeOK, Bounded
  <1>7. \A x \in Engines : held[x][d] = "none" /\ log[d].state = "absent"
    BY DEF Admit, Owned
  <1>8. HeldOnce'
    BY <1>4, <1>7 DEF HeldOnce
  <1>9. \A y \in Deliveries : Recorded(y)'
    BY <1>2 DEF Admit, Recorded, TypeOK
  <1>10. ASSUME NEW x \in Engines, NEW y \in Deliveries
         PROVE  Owned(x, y)' /\ Kept(x, y)'
    <2>1. told[x][d] # "absent"
      BY Zenon DEF TypeOK, Outcomes
    <2>2. CASE y # d
      BY <1>2, <1>4, <1>5, <2>2 DEF Admit, Owned, Kept
    <2>3. CASE y = d
      BY <1>2, <1>4, <1>5, <1>7, <2>1, <2>3, SharedLogAssumption
      DEF Admit, Owned, Kept
    <2> QED BY <2>2, <2>3
  <1> QED BY <1>6, <1>8, <1>9, <1>10

(* The others' view of a delivery is not changed by its holder's count. *)
CountsOnlyItsOwn(e, d) ==
    /\ attempts' \in [Engines -> [Deliveries -> 0..MaxAttempts]]
    /\ \A x \in Engines, y \in Deliveries :
          x # e \/ y # d => attempts'[x][y] = attempts[x][y]

(* persist_terminal: the log takes the outcome only while pending, and what it *)
(* does not take and does not say is kept by the runtime.                      *)
LEMMA EndHolds ==
    ASSUME IInv, NEW e \in Engines, NEW d \in Deliveries, held[e][d] # "none",
           NEW outcome \in Outcomes \ {"unknown_after_crash"}, NEW closes \in BOOLEAN,
           End(e, d, outcome, closes), CountsOnlyItsOwn(e, d)
    PROVE  IInv'
  <1> USE DEF IInv
  <1> DEFINE persisted == AcceptsOutcome(log, d, outcome)
             kept == persisted \/ log[d].state = outcome
  <1>1. log \in Logs /\ log \in Bounded
    BY BoundedLogs DEF TypeOK, Bounded
  <1>2. /\ log' \in Logs
        /\ persisted => log[d].state = "pending" /\ log'[d].state = outcome
        /\ ~persisted => log'[d] = log[d]
        /\ log'[d].attempts = log[d].attempts
        /\ \A y \in Deliveries \ {d} : log'[y] = log[y]
    <2>1. CASE persisted
      <3>1. log' = WithOutcome(log, d, outcome) /\ log[d].state = "pending"
        BY <2>1 DEF End, AcceptsOutcome
      <3>2. /\ log' \in Logs
            /\ log'[d] = [state |-> outcome, attempts |-> log[d].attempts]
            /\ \A y \in Deliveries \ {d} : log'[y] = log[y]
        BY <1>1, <3>1, OutcomeType
      <3>3. log'[d].state = outcome /\ log'[d].attempts = log[d].attempts
        BY <1>1, <3>2 DEF Logs, Records
      <3> QED BY <2>1, <3>1, <3>2, <3>3
    <2>2. CASE ~persisted
      BY <1>1, <2>2 DEF End
    <2> QED BY <2>1, <2>2
  <1>3. log' \in Bounded
    BY <1>1, <1>2, BoundedLogs DEF Bounded
  <1>4. /\ held' \in [Engines -> [Deliveries -> Places]]
        /\ held'[e][d] = "none"
        /\ \A x \in Engines, y \in Deliveries :
              x # e \/ y # d => held'[x][y] = held[x][y]
    BY Entry DEF End, TypeOK, Places
  <1>5. /\ told' \in [Engines -> [Deliveries -> Outcomes \cup {"none"}]]
        /\ told'[e][d] = outcome
        /\ \A x \in Engines, y \in Deliveries :
              x # e \/ y # d => told'[x][y] = told[x][y]
    BY Entry DEF End, TypeOK
  <1>6. /\ overrides' \in [Engines -> [Deliveries -> Outcomes \cup {"none"}]]
        /\ kept => overrides' = overrides
        /\ ~kept => overrides'[e][d] = outcome
        /\ \A x \in Engines, y \in Deliveries :
              x # e \/ y # d => overrides'[x][y] = overrides[x][y]
    <2>1. CASE kept
      BY <2>1 DEF End, TypeOK
    <2>2. CASE ~kept
      BY <2>2, Entry DEF End, TypeOK
    <2> QED BY <2>1, <2>2
  <1>7. degraded' \in [Engines -> BOOLEAN]
    <2> DEFINE closed == degraded[e] \/ closes \/ ~kept
    <2>1. degraded' = [degraded EXCEPT ![e] = closed]
      BY DEF End
    <2>2. closed \in BOOLEAN
      <3>1. degraded[e] \in BOOLEAN
        BY DEF TypeOK
      <3> QED BY Zenon, <3>1
    <2> HIDE DEF closed
    <2> QED BY <2>1, <2>2 DEF TypeOK
  <1> HIDE DEF kept, persisted
  <1>8. TypeOK'
    BY <1>3, <1>4, <1>5, <1>6, <1>7 DEF End, TypeOK, Bounded, CountsOnlyItsOwn
  <1>9. HeldOnce'
    BY SMTT(30), <1>4 DEF HeldOnce
  <1>10. log[d].state # "absent" /\ mode[e] # "off" /\ overrides[e][d] = "none"
    BY DEF Owned
  <1>11. \A y \in Deliveries : Recorded(y)'
    BY SMTT(30), <1>2, <1>10 DEF Recorded, End, persisted, Outcomes
  <1>12. ASSUME NEW x \in Engines, NEW y \in Deliveries
         PROVE  Owned(x, y)' /\ Kept(x, y)'
    <2>1. CASE y # d
      <3>1. /\ log'[y] = log[y] /\ held'[x][y] = held[x][y] /\ told'[x][y] = told[x][y]
            /\ overrides'[x][y] = overrides[x][y] /\ attempts'[x][y] = attempts[x][y]
        BY <1>2, <1>4, <1>5, <1>6, <2>1 DEF CountsOnlyItsOwn
      <3>2. mode' = mode /\ sent' = sent
        BY SMTT(30) DEF End
      <3> QED BY <3>1, <3>2 DEF Owned, Kept
    <2>2. CASE y = d /\ x # e
      <3>1. held'[x][y] = "none"
        BY <1>4, <2>2 DEF HeldOnce
      <3>2. told[x][y] # "pending"
        BY ZenonT(60) DEF TypeOK, Outcomes
      <3>3. outcome # "absent"
        BY DEF Outcomes
      <3> QED
        BY <1>2, <1>5, <1>6, <1>10, <2>2, <3>1, <3>2, <3>3 DEF End, Owned, Kept
    <2>3. CASE y = d /\ x = e
      <3>1. Owned(x, y)'
        BY <1>4, <2>3 DEF Owned
      <3>2. outcome # "none" /\ outcome # "absent"
        BY DEF Outcomes
      <3> QED
        BY <1>2, <1>5, <1>6, <1>10, <2>3, <3>1, <3>2 DEF Kept, kept
    <2> QED BY <2>1, <2>2, <2>3
  <1> QED BY <1>8, <1>9, <1>11, <1>12

(* start_attempt: the record is one ahead of what was sent. *)
LEMMA StartAttemptHolds ==
    ASSUME IInv, NEW e \in Engines, NEW d \in Deliveries, StartAttempt(e, d)
    PROVE  IInv'
  <1> USE DEF IInv
  <1> DEFINE n == attempts[e][d] + 1
  <1>1. log \in Logs /\ log \in Bounded
    BY BoundedLogs DEF TypeOK, Bounded
  <1>2. /\ n \in 0..MaxAttempts /\ n \in Nat
        /\ n = log[d].attempts + 1 /\ log[d].state = "pending"
    <2>1. attempts[e][d] \in 0..MaxAttempts
      BY DEF TypeOK
    <2>2. attempts[e][d] < MaxAttempts /\ attempts[e][d] = log[d].attempts
      BY DEF StartAttempt, Owned
    <2>3. log[d].state = "pending"
      BY DEF StartAttempt, AcceptsAttempt
    <2> QED BY <2>1, <2>2, <2>3, SharedLogAssumption
  <1>3. /\ log' \in Logs
        /\ log'[d].state = "pending" /\ log'[d].attempts = n
        /\ \A y \in Deliveries \ {d} : log'[y] = log[y]
    <2>1. /\ log' \in Logs
          /\ log'[d] = [state |-> log[d].state, attempts |-> n]
          /\ \A y \in Deliveries \ {d} : log'[y] = log[y]
      BY <1>1, <1>2, AttemptType DEF StartAttempt
    <2> QED BY <1>1, <1>2, <2>1 DEF Logs, Records
  <1>4. /\ held' \in [Engines -> [Deliveries -> Places]]
        /\ held'[e][d] = "spawned"
        /\ \A x \in Engines, y \in Deliveries :
              x # e \/ y # d => held'[x][y] = held[x][y]
    BY Entry DEF StartAttempt, TypeOK, Places
  <1>5. /\ attempts' \in [Engines -> [Deliveries -> 0..MaxAttempts]]
        /\ attempts'[e][d] = n
        /\ \A x \in Engines, y \in Deliveries :
              x # e \/ y # d => attempts'[x][y] = attempts[x][y]
    BY <1>2, Entry DEF StartAttempt, TypeOK
  <1> HIDE DEF n
  <1>6. log' \in Bounded
    BY <1>1, <1>2, <1>3, BoundedLogs DEF Bounded
  <1>7. UNCHANGED <<mode, degraded, overrides, sent, told, lost, starts>>
    BY DEF StartAttempt
  <1>8. TypeOK'
    BY <1>4, <1>5, <1>6, <1>7 DEF TypeOK, Bounded
  <1>9. HeldOnce'
    BY <1>4 DEF HeldOnce, StartAttempt
  <1>10. sent[d] \in Nat /\ sent[d] < n
    BY <1>1, <1>2 DEF Recorded, TypeOK, Logs, Records
  <1>11. ASSUME NEW y \in Deliveries PROVE Recorded(y)'
    <2>1. CASE y = d
      BY <1>2, <1>3, <1>7, <1>10, <2>1 DEF Recorded
    <2>2. CASE y # d
      BY <1>3, <1>7, <2>2 DEF Recorded
    <2> QED BY SMTT(30), <2>1, <2>2
  <1>12. ASSUME NEW x \in Engines, NEW y \in Deliveries
         PROVE  Owned(x, y)' /\ Kept(x, y)'
    <2>1. CASE y # d
      <3>1. /\ log'[y] = log[y] /\ held'[x][y] = held[x][y]
            /\ attempts'[x][y] = attempts[x][y]
        BY <1>3, <1>4, <1>5, <2>1
      <3> QED BY <1>7, <3>1 DEF Owned, Kept
    <2>2. CASE y = d /\ x # e
      <3>1. held'[x][y] = "none"
        BY SMTT(30), <1>4, <2>2 DEF HeldOnce, StartAttempt
      <3> QED BY <1>2, <1>3, <1>7, <2>2, <3>1 DEF Owned, Kept
    <2>3. CASE y = d /\ x = e
      <3>1. mode[e] # "off" /\ overrides[e][d] = "none"
        BY DEF Owned, StartAttempt
      <3> QED BY <1>2, <1>3, <1>4, <1>5, <1>7, <1>10, <2>3, <3>1 DEF Owned, Kept
    <2> QED BY <2>1, <2>2, <2>3
  <1> QED BY <1>8, <1>9, <1>11, <1>12

(* start_attempt without its record ends the delivery. *)
LEMMA AttemptRefusedHolds ==
    ASSUME IInv, NEW e \in Engines, NEW d \in Deliveries, AttemptRefused(e, d)
    PROVE  IInv'
  <1>1. attempts[e][d] + 1 \in 0..MaxAttempts
    <2>1. attempts[e][d] \in 0..MaxAttempts
      BY DEF IInv, TypeOK
    <2>2. attempts[e][d] < MaxAttempts
      BY DEF IInv, AttemptRefused, Owned
    <2> QED BY <2>1, <2>2, SharedLogAssumption
  <1>2. CountsOnlyItsOwn(e, d)
    BY <1>1, Entry DEF AttemptRefused, CountsOnlyItsOwn, IInv, TypeOK
  <1>3. "failed" \in Outcomes \ {"unknown_after_crash"}
    BY DEF Outcomes
  <1> QED BY Zenon, <1>2, <1>3, EndHolds DEF AttemptRefused

(* complete_attempt, a cancelled route and expire_shutdown end the delivery. *)
LEMMA FinishHolds ==
    ASSUME IInv, NEW e \in Engines, NEW d \in Deliveries,
           Finish(e, d) \/ Shutdown(e, d)
    PROVE  IInv'
  <1>1. CountsOnlyItsOwn(e, d)
    BY Zenon DEF Finish, Shutdown, CountsOnlyItsOwn, IInv, TypeOK
  <1>2. \A o \in {"delivered", "failed", "cancelled", "lost_on_shutdown"} :
            o \in Outcomes \ {"unknown_after_crash"}
    BY DEF Outcomes
  <1>3. held[e][d] # "none"
    BY Zenon DEF Finish, Shutdown
  <1>4. \E o \in {"delivered", "failed", "cancelled", "lost_on_shutdown"} :
            End(e, d, o, FALSE)
    BY Zenon DEF Finish, Shutdown
  <1> QED BY Zenon, <1>1, <1>2, <1>3, <1>4, EndHolds

(* The task submits what start_attempt recorded. *)
LEMMA TransmitHolds ==
    ASSUME IInv, NEW e \in Engines, NEW d \in Deliveries, Transmit(e, d)
    PROVE  IInv'
  <1> USE DEF IInv
  <1>1. log \in Logs
    BY BoundedLogs DEF TypeOK, Bounded
  <1>2. UNCHANGED <<log, mode, attempts, degraded, overrides, told, lost, starts>>
    BY DEF Transmit
  <1>3. /\ held' \in [Engines -> [Deliveries -> Places]]
        /\ held'[e][d] = "sent" /\ held[e][d] = "spawned"
        /\ \A x \in Engines, y \in Deliveries :
              x # e \/ y # d => held'[x][y] = held[x][y]
    BY Entry DEF Transmit, TypeOK, Places
  <1>4. /\ sent' \in [Deliveries -> Nat]
        /\ sent'[d] = sent[d] + 1
        /\ \A y \in Deliveries \ {d} : sent'[y] = sent[y]
    BY DEF Transmit, TypeOK
  <1>5. sent[d] < log[d].attempts /\ sent[d] \in Nat /\ log[d].attempts \in Nat
    BY <1>1, <1>3 DEF Owned, TypeOK, Logs, Records
  <1>6. TypeOK'
    BY <1>2, <1>3, <1>4 DEF TypeOK
  <1>7. HeldOnce'
    BY <1>3 DEF HeldOnce
  <1>8. ASSUME NEW y \in Deliveries PROVE Recorded(y)'
    <2>1. CASE y = d
      BY <1>2, <1>4, <1>5, <2>1 DEF Recorded
    <2>2. CASE y # d
      BY <1>2, <1>4, <2>2 DEF Recorded
    <2> QED BY <2>1, <2>2
  <1>9. ASSUME NEW x \in Engines, NEW y \in Deliveries
        PROVE  Owned(x, y)' /\ Kept(x, y)'
    <2>1. CASE y # d
      BY <1>2, <1>3, <1>4, <2>1 DEF Owned, Kept
    <2>2. CASE y = d /\ x # e
      BY SMTT(30), <1>2, <1>3, <2>2 DEF HeldOnce, Owned, Kept
    <2>3. CASE y = d /\ x = e
      BY <1>2, <1>3, <2>3 DEF Owned, Kept
    <2> QED BY <2>1, <2>2, <2>3
  <1> QED BY <1>6, <1>7, <1>8, <1>9

(* process_retry_deadlines queues the delivery again while attempts are left. *)
LEMMA RetryHolds ==
    ASSUME IInv, NEW e \in Engines, NEW d \in Deliveries, Retry(e, d)
    PROVE  IInv'
  <1> USE DEF IInv
  <1>1. /\ UNCHANGED <<log, mode, attempts, degraded, overrides, sent, told, lost, starts>>
        /\ attempts[e][d] < MaxAttempts /\ held[e][d] # "none"
    BY DEF Retry
  <1>2. /\ held' \in [Engines -> [Deliveries -> Places]]
        /\ held'[e][d] = "queued"
        /\ \A x \in Engines, y \in Deliveries :
              x # e \/ y # d => held'[x][y] = held[x][y]
    BY Entry DEF Retry, TypeOK, Places
  <1>3. TypeOK'
    BY SMTT(30), <1>1, <1>2 DEF TypeOK
  <1>4. HeldOnce'
    BY SMTT(30), <1>1, <1>2 DEF HeldOnce
  <1>5. \A y \in Deliveries : Recorded(y)'
    BY <1>1 DEF Recorded
  <1>6. \A x \in Engines, y \in Deliveries : Owned(x, y)' /\ Kept(x, y)'
    BY <1>1, <1>2 DEF Owned, Kept
  <1> QED BY <1>3, <1>4, <1>5, <1>6

(* stop() changes no delivery; the engine ends when it holds none. *)
LEMMA StopHolds ==
    ASSUME IInv, NEW e \in Engines, Stop(e) \/ Stopped(e) PROVE IInv'
  <1> USE DEF IInv
  <1>1. /\ UNCHANGED <<log, held, attempts, degraded, overrides, sent, told, lost, starts>>
        /\ mode' \in [Engines -> {"off", "on", "stopping"}]
        /\ mode[e] # "off"
        /\ \A x \in Engines \ {e} : mode'[x] = mode[x]
        /\ mode'[e] = "off" => held[e] = Nothing
    BY Zenon DEF Stop, Stopped, TypeOK
  <1>2. mode'[e] = "off" => \A d \in Deliveries : held[e][d] = "none"
    BY <1>1 DEF Nothing
  <1>3. TypeOK' /\ HeldOnce' /\ \A d \in Deliveries : Recorded(d)'
    BY <1>1 DEF TypeOK, HeldOnce, Recorded
  <1>4. \A x \in Engines, d \in Deliveries : Owned(x, d)' /\ Kept(x, d)'
    BY <1>1, <1>2 DEF Owned, Kept
  <1> QED BY <1>3, <1>4

(* A crash leaves the log and forgets the rest. *)
LEMMA CrashHolds ==
    ASSUME IInv, NEW e \in Engines, Crash(e) PROVE IInv'
  <1> USE DEF IInv
  <1>1. /\ UNCHANGED <<log, attempts, degraded, overrides, sent, told, starts>>
        /\ mode' \in [Engines -> {"off", "on", "stopping"}]
        /\ mode'[e] = "off"
        /\ \A x \in Engines \ {e} : mode'[x] = mode[x]
        /\ lost' \in SUBSET Deliveries
    BY DEF Crash, TypeOK
  <1>2. /\ held' \in [Engines -> [Deliveries -> Places]]
        /\ \A d \in Deliveries : held'[e][d] = "none"
        /\ \A x \in Engines \ {e}, d \in Deliveries : held'[x][d] = held[x][d]
    <2>1. "none" \in Places
      BY DEF Places
    <2> QED BY Zenon, <2>1, Row DEF Crash, TypeOK
  <1>3. TypeOK'
    BY <1>1, <1>2 DEF TypeOK
  <1>4. HeldOnce' /\ \A d \in Deliveries : Recorded(d)'
    BY <1>1, <1>2 DEF HeldOnce, Recorded
  <1>5. \A x \in Engines, d \in Deliveries : Owned(x, d)' /\ Kept(x, d)'
    BY <1>1, <1>2 DEF Owned, Kept
  <1> QED BY <1>3, <1>4, <1>5

(* Every step of every runtime preserves the invariant. *)
LEMMA StepHolds == IInv /\ [Next]_vars => IInv'
  <1> SUFFICES ASSUME IInv, [Next]_vars PROVE IInv'
    OBVIOUS
  <1>1. CASE UNCHANGED vars
    BY <1>1 DEF vars, IInv, TypeOK, HeldOnce, Recorded, Owned, Kept
  <1>2. CASE Next
    <2>1. PICK e \in Engines :
             \/ Start(e) \/ Stop(e) \/ Stopped(e) \/ Crash(e)
             \/ \E d \in Deliveries :
                   \/ Admit(e, d) \/ StartAttempt(e, d) \/ AttemptRefused(e, d)
                   \/ Transmit(e, d) \/ Retry(e, d) \/ Finish(e, d) \/ Shutdown(e, d)
      BY <1>2 DEF Next
    <2> QED
      BY <2>1, StartHolds, StopHolds, CrashHolds, AdmitHolds, StartAttemptHolds,
         AttemptRefusedHolds, TransmitHolds, RetryHolds, FinishHolds
  <1> QED BY <1>1, <1>2

(* The log, the holders and the process-local records agree at all times. *)
LEMMA Invariant == Spec => []IInv
  BY InitHolds, StepHolds, PTL DEF Spec

(* Whatever recovery marks, no delivery has two runtimes (HeldOnce). *)
THEOREM OneOwner == Spec => []HeldOnce
  <1>1. IInv => HeldOnce
    BY DEF IInv
  <1> QED BY <1>1, Invariant, PTL

(* All runtimes together send no more than the log records (SentRecorded). *)
THEOREM NothingSentUnrecorded == Spec => []SentRecorded
  <1>1. IInv => SentRecorded
    BY DEF IInv, SentRecorded, Recorded
  <1> QED BY <1>1, Invariant, PTL

(* A runtime keeps answering with the outcome it gave (StatusKept). *)
THEOREM OutcomeKept == Spec => []StatusKept
  <1>1. IInv => StatusKept
    BY DEF IInv, StatusKept, Status, Kept
  <1> QED BY <1>1, Invariant, PTL
=============================================================================
