-------------------------- MODULE DeliveryRecords --------------------------
(***************************************************************************)
(* The contents of a delivery log and the five ways the egress runtime may *)
(* change it: crates/contract/bondry-delivery-store/src/delivery.rs.       *)
(*                                                                         *)
(* A log is a function from delivery identifiers to records.  A record     *)
(* keeps what the runtime reads back: the lifecycle state and the number   *)
(* of transport attempts.  Routes, timestamps and result metadata are      *)
(* carried along by the code and never inspected, so they are left out.    *)
(***************************************************************************)
EXTENDS Naturals, TLAPS

CONSTANT Deliveries      \* the delivery identifiers a host may use

(* DeliveryOutcome: the failure kinds other than Cancelled are one value. *)
Outcomes == {"delivered", "failed", "cancelled", "lost_on_shutdown",
             "unknown_after_crash"}

LogStates == {"absent", "pending"} \cup Outcomes

Records == [state : LogStates, attempts : Nat]

Absent == [state |-> "absent", attempts |-> 0]

EmptyLog == [d \in Deliveries |-> Absent]

(* DeliveryState::is_terminal *)
IsTerminal(record) == record.state \in Outcomes

(* insert_intent: a fresh record, pending and without attempts. *)
WithIntent(l, d) == [l EXCEPT ![d] = [state |-> "pending", attempts |-> 0]]

(* record_attempt: only while pending, only upwards. *)
AcceptsAttempt(l, d, n) == l[d].state = "pending" /\ l[d].attempts < n
WithAttempt(l, d, n) == [l EXCEPT ![d].attempts = n]

(* record_outcome: pending to exactly one outcome. *)
AcceptsOutcome(l, d, outcome) ==
    l[d].state = "pending" /\ outcome # "unknown_after_crash"
WithOutcome(l, d, outcome) == [l EXCEPT ![d].state = outcome]

(* Mutated Recovered: the state is not looked at. *)
RecoveredAll(l) ==
    [d \in Deliveries |->
        IF l[d] # Absent THEN [l[d] EXCEPT !.state = "unknown_after_crash"]
                         ELSE l[d]]

(* recover_unfinished: every unfinished intent becomes unknown. *)
Recovered(l) ==
    [d \in Deliveries |->
        IF l[d].state = "pending"
        THEN [l[d] EXCEPT !.state = "unknown_after_crash"]
        ELSE l[d]]

(* Reclaimed records: only terminal ones ever are. *)
Without(l, forgotten) ==
    [d \in Deliveries |-> IF d \in forgotten THEN Absent ELSE l[d]]

TerminalIn(l) == {d \in Deliveries : IsTerminal(l[d])}

(* How one record may change. *)
MovesForward(old, new) ==
    \/ new = old
    \/ old = Absent /\ new = [state |-> "pending", attempts |-> 0]
    \/ /\ old.state = "pending"
       /\ new.state = "pending"
       /\ new.attempts > old.attempts
    \/ /\ old.state = "pending"
       /\ IsTerminal(new)
       /\ new.attempts = old.attempts
    \/ /\ IsTerminal(old)
       /\ new \in {Absent, [state |-> "pending", attempts |-> 0]}

-----------------------------------------------------------------------------
(* What these operators yield, for any set of identifiers. *)

Logs == [Deliveries -> Records]

(* A new log is a log (DeliveryLog trait; no operation has been called). *)
LEMMA EmptyLogType == EmptyLog \in Logs /\ Absent \in Records
  BY DEF EmptyLog, Absent, Logs, Records, LogStates

(* insert_intent touches one record. *)
LEMMA IntentType ==
    ASSUME NEW l \in Logs, NEW d \in Deliveries
    PROVE  /\ WithIntent(l, d) \in Logs
           /\ WithIntent(l, d)[d] = [state |-> "pending", attempts |-> 0]
           /\ \A e \in Deliveries \ {d} : WithIntent(l, d)[e] = l[e]
  BY DEF WithIntent, Logs, Records, LogStates

(* record_attempt sets the attempts of one record. *)
LEMMA AttemptType ==
    ASSUME NEW l \in Logs, NEW d \in Deliveries, NEW n \in Nat
    PROVE  /\ WithAttempt(l, d, n) \in Logs
           /\ WithAttempt(l, d, n)[d] = [state |-> l[d].state, attempts |-> n]
           /\ \A e \in Deliveries \ {d} : WithAttempt(l, d, n)[e] = l[e]
  BY DEF WithAttempt, Logs, Records

(* record_outcome sets the state of one record. *)
LEMMA OutcomeType ==
    ASSUME NEW l \in Logs, NEW d \in Deliveries, NEW outcome \in Outcomes
    PROVE  /\ WithOutcome(l, d, outcome) \in Logs
           /\ WithOutcome(l, d, outcome)[d]
                 = [state |-> outcome, attempts |-> l[d].attempts]
           /\ \A e \in Deliveries \ {d} : WithOutcome(l, d, outcome)[e] = l[e]
  BY DEF WithOutcome, Logs, Records, LogStates

(* recover_unfinished leaves no pending record and no other one changed. *)
LEMMA RecoveredType ==
    ASSUME NEW l \in Logs
    PROVE  /\ Recovered(l) \in Logs
           /\ \A d \in Deliveries :
                 /\ l[d].state # "pending" => Recovered(l)[d] = l[d]
                 /\ l[d].state = "pending" =>
                       Recovered(l)[d] = [state |-> "unknown_after_crash",
                                          attempts |-> l[d].attempts]
  BY DEF Recovered, Logs, Records, LogStates, Outcomes

(* Reclaiming removes what it is told to and nothing else. *)
LEMMA WithoutType ==
    ASSUME NEW l \in Logs, NEW S
    PROVE  /\ Without(l, S) \in Logs
           /\ \A d \in Deliveries :
                 Without(l, S)[d] = IF d \in S THEN Absent ELSE l[d]
  BY EmptyLogType DEF Without, Logs

(* Every write moves every record forward. *)
LEMMA WritesForward ==
    ASSUME NEW l \in Logs, NEW d \in Deliveries, NEW forgotten \in SUBSET TerminalIn(l),
           NEW n \in Nat, NEW outcome \in Outcomes
    PROVE  \A e \in Deliveries :
              /\ MovesForward(l[e], l[e])
              /\ MovesForward(l[e], Without(l, forgotten)[e])
              /\ Without(l, forgotten)[d] = Absent =>
                    MovesForward(l[e], WithIntent(Without(l, forgotten), d)[e])
              /\ AcceptsAttempt(l, d, n) => MovesForward(l[e], WithAttempt(l, d, n)[e])
              /\ l[d].state = "pending" => MovesForward(l[e], WithOutcome(l, d, outcome)[e])
              /\ MovesForward(l[e], Recovered(l)[e])
  <1> TAKE e \in Deliveries
  <1>1. l[e] \in Records /\ l[d] \in Records
    BY Zenon DEF Logs
  <1>2. MovesForward(l[e], l[e])
    BY Zenon DEF MovesForward
  <1>3. /\ Without(l, forgotten) \in Logs
        /\ Without(l, forgotten)[e] = IF e \in forgotten THEN Absent ELSE l[e]
        /\ e \in forgotten => IsTerminal(l[e])
    BY WithoutType DEF TerminalIn
  <1>4. MovesForward(l[e], Without(l, forgotten)[e])
    BY Zenon, <1>3 DEF MovesForward
  <1>5. Without(l, forgotten)[d] = Absent =>
           MovesForward(l[e], WithIntent(Without(l, forgotten), d)[e])
    <2>1. /\ WithIntent(Without(l, forgotten), d)[d] = [state |-> "pending", attempts |-> 0]
          /\ e # d => WithIntent(Without(l, forgotten), d)[e] = Without(l, forgotten)[e]
      BY Zenon, <1>3, IntentType
    <2> QED BY Zenon, <1>3, <1>4, <2>1 DEF MovesForward
  <1>6. AcceptsAttempt(l, d, n) => MovesForward(l[e], WithAttempt(l, d, n)[e])
    <2>1. /\ WithAttempt(l, d, n)[d] = [state |-> l[d].state, attempts |-> n]
          /\ e # d => WithAttempt(l, d, n)[e] = l[e]
      BY AttemptType
    <2>2. AcceptsAttempt(l, d, n) => MovesForward(l[d], [state |-> l[d].state, attempts |-> n])
      BY <1>1 DEF AcceptsAttempt, MovesForward, Records
    <2> QED BY Zenon, <1>2, <2>1, <2>2
  <1>7. l[d].state = "pending" => MovesForward(l[e], WithOutcome(l, d, outcome)[e])
    <2>1. /\ WithOutcome(l, d, outcome)[d] = [state |-> outcome, attempts |-> l[d].attempts]
          /\ e # d => WithOutcome(l, d, outcome)[e] = l[e]
      BY OutcomeType
    <2>2. l[d].state = "pending" =>
             MovesForward(l[d], [state |-> outcome, attempts |-> l[d].attempts])
      BY Zenon DEF MovesForward, IsTerminal
    <2> QED BY Zenon, <1>2, <2>1, <2>2
  <1>8. MovesForward(l[e], Recovered(l)[e])
    <2>1. /\ l[e].state # "pending" => Recovered(l)[e] = l[e]
          /\ l[e].state = "pending" =>
                Recovered(l)[e] = [state |-> "unknown_after_crash", attempts |-> l[e].attempts]
      BY Zenon, RecoveredType
    <2>2. l[e].state = "pending" => MovesForward(l[e], [state |-> "unknown_after_crash",
                                                       attempts |-> l[e].attempts])
      BY Zenon DEF MovesForward, IsTerminal, Outcomes
    <2> QED BY Zenon, <1>2, <2>1, <2>2
  <1> QED BY Zenon, <1>2, <1>4, <1>5, <1>6, <1>7, <1>8
=============================================================================
