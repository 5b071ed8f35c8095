---------------------------- MODULE EgressHandle ----------------------------
(***************************************************************************)
(* How host threads reach the egress engine.  The Swift class BondryEgress *)
(* counts the operations in progress under one condition variable and      *)
(* stops the runtime only when there is none.  An operation sends one      *)
(* command to the engine's bounded channel and blocks until the engine     *)
(* hands it the answer, over a channel without a buffer, so the engine     *)
(* also waits for the thread.  The engine thread runs a loop: complete     *)
(* drained routes, leave when stopping and idle, else take one event.      *)
(*                                                                         *)
(* Deliveries are counted for each route; what an attempt does, the log    *)
(* and the quotas in bytes are in EgressRuntime.                           *)
(***************************************************************************)
EXTENDS Naturals, Sequences, FiniteSets, SequencesExt

CONSTANTS
    Threads,     \* host threads that share one BondryEgress
    Routes,
    Capacity,    \* global_pending_deliveries: deliveries, and channel slots
    CallLimit,   \* call_in_flight
    None

VARIABLES
    handle,      \* BondryEgress.handle is not nil
    stopping,    \* BondryEgress.stopping
    active,      \* BondryEgress.activeOperations
    parked,      \* threads asleep in condition.wait()
    pc,          \* where each thread is
    command,     \* the command of each thread inside an operation, or None
    result,      \* the answer a thread leaves its operation with, or None
    queue,       \* threads whose commands are in the channel
    shutdown,    \* the watch channel holds TRUE
    engine,      \* "top" and "select" of the loop, or "exited"
    ending,      \* the loop's local `stopping`
    owed,        \* answers the engine has still to hand over, in order
    enabled,     \* routes open to admission
    work,        \* accepted deliveries of each route not yet concluded
    calls,       \* threads whose call is in active_calls
    drains       \* for each route, the thread waiting for its drain

host == <<handle, stopping, active, parked>>
loop == <<shutdown, engine, ending>>
state == <<enabled, work, calls, drains>>
vars == <<handle, stopping, active, parked, pc, command, result, queue,
          shutdown, engine, ending, owed, enabled, work, calls, drains>>

Commands == [kind : {"emit", "call", "drain", "enable", "query"}, route : Routes]

Results == {"ok", "rejected", "busy", "stopped", None}

Answer(t, r) == [to |-> t, result |-> r]

\* An operation holds the handle in these places, a stop is under way in those.
Inside == {"inside", "sent", "receiving", "leaving"}
StopPlaces == {"entering", "closing", "taken", "joining", "joined"}

Goto(t, place) == pc' = [pc EXCEPT ![t] = place]

Pending == FoldFunction(+, 0, work)

\* RouteUsage::is_idle
IsIdle(r) == work[r] = 0 /\ \A t \in calls : command[t].route # r

\* commands.close() was called, or the receiver is dropped.
Closed == ending \/ engine = "exited"

Init ==
    /\ handle = TRUE
    /\ stopping = FALSE
    /\ active = 0
    /\ parked = {}
    /\ pc = [t \in Threads |-> "idle"]
    /\ command = [t \in Threads |-> None]
    /\ result = [t \in Threads |-> None]
    /\ queue = <<>>
    /\ shutdown = FALSE
    /\ engine = "top"
    /\ ending = FALSE
    /\ owed = <<>>
    /\ enabled = Routes
    /\ work = [r \in Routes |-> 0]
    /\ calls = {}
    /\ drains = [r \in Routes |-> None]

(***************************************************************************)
(* BondryEgress.  Every step between taking and releasing the lock of the  *)
(* condition is one action; a thread in parked waits to be woken.          *)
(***************************************************************************)

\* withHandle, until the lock is released.  Without a handle, or while it is
\* being stopped, the operation throws and nothing changes.
Enter(t, c) ==
    /\ pc[t] = "idle"
    /\ handle /\ ~stopping
    /\ active' = active + 1
    /\ Goto(t, "inside")
    /\ command' = [command EXCEPT ![t] = c]
    /\ UNCHANGED <<handle, stopping, parked, result, queue, loop, owed, state>>

\* The deferred block of withHandle.
Leave(t) ==
    /\ pc[t] = "leaving"
    /\ active' = active - 1
    /\ parked' = IF active = 1 THEN {} ELSE parked
    /\ Goto(t, "idle")
    /\ command' = [command EXCEPT ![t] = None]
    /\ result' = [result EXCEPT ![t] = None]
    /\ UNCHANGED <<handle, stopping, queue, loop, owed, state>>

\* stop() is called.
CallStop(t) ==
    /\ pc[t] = "idle"
    /\ Goto(t, "entering")
    /\ UNCHANGED <<host, command, result, queue, loop, owed, state>>

\* Mutant: a second stop does not wait for the first.
EnterStopOnce(t) ==
    /\ pc[t] = "entering"
    /\ t \notin parked
    /\ IF stopping \/ ~handle
       THEN Goto(t, "idle") /\ UNCHANGED <<stopping, handle, parked>>
       ELSE /\ stopping' = TRUE
            /\ handle' = (active > 0)
            /\ parked' = IF active > 0 THEN parked \cup {t} ELSE parked
            /\ Goto(t, IF active > 0 THEN "closing" ELSE "taken")
    /\ UNCHANGED <<active, command, result, queue, loop, owed, state>>

\* stop, the first loop and the guard, and the first test of the second loop.
EnterStop(t) ==
    /\ pc[t] = "entering"
    /\ t \notin parked
    /\ IF stopping
       THEN parked' = parked \cup {t} /\ UNCHANGED <<stopping, handle, pc>>
       ELSE IF ~handle
       THEN Goto(t, "idle") /\ UNCHANGED <<stopping, handle, parked>>
       ELSE /\ stopping' = TRUE
            /\ handle' = (active > 0)
            /\ parked' = IF active > 0 THEN parked \cup {t} ELSE parked
            /\ Goto(t, IF active > 0 THEN "closing" ELSE "taken")
    /\ UNCHANGED <<active, command, result, queue, loop, owed, state>>

\* Mutant: the second loop is an if, and a wake-up is believed.
TakeHandleWoken(t) ==
    /\ pc[t] = "closing"
    /\ t \notin parked
    /\ handle' = FALSE
    /\ Goto(t, "taken")
    /\ UNCHANGED <<stopping, active, parked, command, result, queue, loop, owed,
                   state>>

\* stop, the second loop after a wake-up, and the handle taken out.
TakeHandle(t) ==
    /\ pc[t] = "closing"
    /\ t \notin parked
    /\ handle' = (active > 0)
    /\ parked' = IF active > 0 THEN parked \cup {t} ELSE parked
    /\ Goto(t, IF active > 0 THEN "closing" ELSE "taken")
    /\ UNCHANGED <<stopping, active, command, result, queue, loop, owed, state>>

\* bondry_egress_stop_v1 and EgressRuntime::stop, up to the join.
SendShutdown(t) ==
    /\ pc[t] = "taken"
    /\ shutdown' = TRUE
    /\ Goto(t, "joining")
    /\ UNCHANGED <<host, command, result, queue, engine, ending, owed, state>>

Join(t) ==
    /\ pc[t] = "joining"
    /\ engine = "exited"
    /\ Goto(t, "joined")
    /\ UNCHANGED <<host, command, result, queue, loop, owed, state>>

\* Mutant: the end of a stop is not announced.
FinishStopSilent(t) ==
    /\ pc[t] = "joined"
    /\ stopping' = FALSE
    /\ Goto(t, "idle")
    /\ UNCHANGED <<handle, active, parked, command, result, queue, loop, owed,
                   state>>

\* stop, after bondry_egress_stop_v1.
FinishStop(t) ==
    /\ pc[t] = "joined"
    /\ stopping' = FALSE
    /\ parked' = {}
    /\ Goto(t, "idle")
    /\ UNCHANGED <<handle, active, command, result, queue, loop, owed, state>>

\* NSCondition may wake a thread that nobody signalled.
SpuriousWakeup(t) ==
    /\ t \in parked
    /\ parked' = parked \ {t}
    /\ UNCHANGED <<handle, stopping, active, pc, command, result, queue, loop,
                   owed, state>>

(***************************************************************************)
(* EgressRuntime::request.                                                 *)
(***************************************************************************)

\* try_send: the channel is closed, full, or takes the command.
TrySend(t) ==
    /\ pc[t] = "inside"
    /\ LET refusal == IF Closed THEN "stopped" ELSE "busy"
           sent == ~Closed /\ Len(queue) < Capacity
       IN  /\ queue' = IF sent THEN Append(queue, t) ELSE queue
           /\ result' = IF sent THEN result ELSE [result EXCEPT ![t] = refusal]
           /\ Goto(t, IF sent THEN "sent" ELSE "leaving")
    /\ UNCHANGED <<host, command, loop, owed, state>>

\* The thread reaches recv.
Receive(t) ==
    /\ pc[t] = "sent"
    /\ Goto(t, "receiving")
    /\ UNCHANGED <<host, command, result, queue, loop, owed, state>>

\* The engine's send meets the thread's recv; the engine waits in it.
HandOver ==
    /\ owed # <<>>
    /\ LET a == Head(owed)
       IN  /\ pc[a.to] = "receiving"
           /\ result' = [result EXCEPT ![a.to] = a.result]
           /\ Goto(a.to, "leaving")
    /\ owed' = Tail(owed)
    /\ UNCHANGED <<host, command, queue, loop, state>>

(***************************************************************************)
(* Engine::run.  Between two tops of the loop the engine takes one branch  *)
(* of the select; it does nothing else while it owes an answer.            *)
(***************************************************************************)

Drained == {r \in Routes : drains[r] # None /\ IsIdle(r)}

\* complete_empty_drains hands the answers over before the loop goes on.
CompleteEmptyDrains ==
    /\ engine = "top"
    /\ owed = <<>>
    /\ Drained # {}
    /\ owed' = [i \in 1..Cardinality(Drained) |->
                  Answer(drains[SetToSeq(Drained)[i]], "ok")]
    /\ drains' = [r \in Routes |-> IF r \in Drained THEN None ELSE drains[r]]
    /\ UNCHANGED <<host, pc, command, result, queue, loop, enabled, work, calls>>

\* Nothing is left to run.
Finished == ending /\ Pending = 0 /\ calls = {}

\* The run ends and drops the channel's receiver and every answer's sender.
Exit ==
    /\ engine = "top"
    /\ owed = <<>>
    /\ Drained = {}
    /\ Finished
    /\ engine' = "exited"
    /\ LET dropped == {t \in Threads : pc[t] \in {"sent", "receiving"}}
       IN  /\ pc' = [t \in Threads |-> IF t \in dropped THEN "leaving" ELSE pc[t]]
           /\ result' = [t \in Threads |->
                           IF t \in dropped THEN "stopped" ELSE result[t]]
    /\ queue' = <<>>
    /\ UNCHANGED <<host, command, shutdown, ending, owed, state>>

Select ==
    /\ engine = "top"
    /\ owed = <<>>
    /\ Drained = {}
    /\ ~Finished
    /\ engine' = "select"
    /\ UNCHANGED <<host, pc, command, result, queue, shutdown, ending, owed, state>>

\* A branch of the select runs to the next top of the loop.
Branch ==
    /\ engine = "select"
    /\ owed = <<>>
    /\ engine' = "top"
    /\ UNCHANGED <<host, pc, command, result, shutdown>>

Stopped(threads) == [i \in DOMAIN threads |-> Answer(threads[i], "stopped")]

RejectedAtShutdown ==
    Stopped(queue) \o Stopped(SetToSeq({drains[r] : r \in Routes} \ {None}))

\* The watch channel changed: the channel is closed and every command and drain
\* is rejected.
ShutdownChanged ==
    /\ Branch
    /\ shutdown /\ ~ending
    /\ ending' = TRUE
    /\ owed' = RejectedAtShutdown
    /\ queue' = <<>>
    /\ drains' = [r \in Routes |-> None]
    /\ UNCHANGED <<enabled, work, calls>>

\* handle_command answers at once with `r`.
Replies(t, r) == owed' = <<Answer(t, r)>>

\* admit_emit: route, then pending capacity.
AdmitEmit(t, r) ==
    LET accepted == r \in enabled /\ Pending < Capacity
    IN  /\ Replies(t, IF accepted THEN "ok" ELSE "rejected")
        /\ work' = IF accepted THEN [work EXCEPT ![r] = @ + 1] ELSE work
        /\ UNCHANGED <<enabled, calls, drains>>

\* admit_call: an accepted call is answered when it ends.
AdmitCall(t, r) ==
    LET accepted == r \in enabled /\ Cardinality(calls) < CallLimit
    IN  /\ owed' = IF accepted THEN <<>> ELSE <<Answer(t, "rejected")>>
        /\ calls' = IF accepted THEN calls \cup {t} ELSE calls
        /\ UNCHANGED <<enabled, work, drains>>

\* begin_drain: a drain with work left is answered when the route is idle.
BeginDrain(t, r) ==
    IF drains[r] # None
    THEN Replies(t, "rejected") /\ UNCHANGED state
    ELSE /\ enabled' = enabled \ {r}
         /\ owed' = IF IsIdle(r) THEN <<Answer(t, "ok")>> ELSE <<>>
         /\ drains' = IF IsIdle(r) THEN drains ELSE [drains EXCEPT ![r] = t]
         /\ UNCHANGED <<work, calls>>

Enable(t, r) ==
    /\ Replies(t, IF drains[r] = None THEN "ok" ELSE "rejected")
    /\ enabled' = IF drains[r] = None THEN enabled \cup {r} ELSE enabled
    /\ UNCHANGED <<work, calls, drains>>

HandleCommand ==
    /\ Branch
    /\ ~ending
    /\ queue # <<>>
    /\ queue' = Tail(queue)
    /\ LET t == Head(queue)
           c == command[t]
       IN  \/ c.kind = "emit" /\ AdmitEmit(t, c.route)
           \/ c.kind = "call" /\ AdmitCall(t, c.route)
           \/ c.kind = "drain" /\ BeginDrain(t, c.route)
           \/ c.kind = "enable" /\ Enable(t, c.route)
           \/ c.kind = "query" /\ Replies(t, "ok") /\ UNCHANGED state
    /\ UNCHANGED ending

\* An attempt is joined and was the delivery's last.
AttemptJoined(r) ==
    /\ Branch
    /\ work[r] > 0
    /\ work' = [work EXCEPT ![r] = @ - 1]
    /\ UNCHANGED <<queue, ending, owed, enabled, calls, drains>>

\* A call is joined; its caller is answered.
CallJoined(t) ==
    /\ Branch
    /\ t \in calls
    /\ calls' = calls \ {t}
    /\ \E r \in {"ok", "rejected"} : Replies(t, r)
    /\ UNCHANGED <<queue, ending, enabled, work, drains>>

Cancel(threads, r) ==
    LET s == SetToSeq(threads)
    IN  owed' = [i \in DOMAIN s |-> Answer(s[i], r)]

\* process_drain_deadlines
DrainDeadline(r) ==
    /\ Branch
    /\ drains[r] # None
    /\ LET ended == {t \in calls : command[t].route = r}
       IN  Cancel(ended, "rejected") /\ calls' = calls \ ended
    /\ work' = [work EXCEPT ![r] = 0]
    /\ UNCHANGED <<queue, ending, enabled, drains>>

\* expire_shutdown
ShutdownDeadline ==
    /\ Branch
    /\ ending
    /\ Cancel(calls, "stopped")
    /\ calls' = {}
    /\ work' = [r \in Routes |-> 0]
    /\ UNCHANGED <<queue, ending, enabled, drains>>

ThreadStep(t) ==
    \/ Leave(t) \/ EnterStop(t) \/ TakeHandle(t) \/ SendShutdown(t)
    \/ Join(t) \/ FinishStop(t) \/ TrySend(t) \/ Receive(t)

TopOfLoop == CompleteEmptyDrains \/ Exit \/ Select

Next ==
    \/ \E t \in Threads :
          \/ \E c \in Commands : Enter(t, c)
          \/ CallStop(t)
          \/ ThreadStep(t)
          \/ SpuriousWakeup(t)
          \/ CallJoined(t)
    \/ HandOver
    \/ TopOfLoop
    \/ ShutdownChanged
    \/ HandleCommand
    \/ \E r \in Routes : AttemptJoined(r) \/ DrainDeadline(r)
    \/ ShutdownDeadline

Spec == Init /\ [][Next]_vars

-----------------------------------------------------------------------------
(***************************************************************************)
(* Properties.                                                             *)
(***************************************************************************)

\* The state has its type; the channel and the pending deliveries keep to the
\* limit they share and the answers are owed to threads that wait for them.
TypeOK ==
    /\ handle \in BOOLEAN /\ stopping \in BOOLEAN
    /\ active = Cardinality({t \in Threads : pc[t] \in Inside})
    /\ parked \subseteq {t \in Threads : pc[t] \in {"entering", "closing"}}
    /\ pc \in [Threads -> {"idle"} \cup Inside \cup StopPlaces]
    /\ command \in [Threads -> Commands \cup {None}]
    /\ result \in [Threads -> Results]
    /\ queue \in Seq(Threads) /\ Len(queue) <= Capacity
    /\ shutdown \in BOOLEAN /\ ending \in BOOLEAN
    /\ engine \in {"top", "select", "exited"}
    /\ \A i \in DOMAIN owed :
          pc[owed[i].to] \in {"sent", "receiving"} /\ owed[i].result \in Results
    /\ enabled \subseteq Routes
    /\ work \in [Routes -> Nat] /\ Pending <= Capacity
    /\ calls \subseteq Threads /\ Cardinality(calls) <= CallLimit
    /\ drains \in [Routes -> Threads \cup {None}]

\* bondry_egress_stop_v1 asks for a handle that is "live and exclusively owned
\* for this call": from the moment BondryEgress.stop takes the handle out, one
\* thread has it and no thread is inside an operation.
ExclusiveHandle ==
    /\ ~handle => \A t \in Threads : pc[t] \notin Inside
    /\ \A t, u \in Threads :
          pc[t] \in {"taken", "joining", "joined"}
             /\ pc[u] \in {"taken", "joining", "joined"} => t = u

\* An operation that BondryEgress let in is answered by what the engine did
\* with it, or refused because the channel is full: it is never told that the
\* runtime stopped, since stop waits for it.  The rejections of
\* reject_pending_commands and reject_drains_for_shutdown meet no request.
AnsweredInFull ==
    \A t \in Threads : pc[t] = "leaving" => result[t] # "stopped"

\* BondryEgress.stop returns, to the thread that stopped the runtime and to
\* those that called it meanwhile or later, only when the engine's thread has
\* ended with nothing accepted left unconcluded.
StopReturnsAfterExit ==
    \A t \in Threads :
        pc[t] \in StopPlaces /\ pc'[t] = "idle" =>
            engine = "exited" /\ Pending = 0 /\ calls = {}

\* Every operation and every stop returns: no thread sleeps through the last
\* wake-up, waits for an answer that is not sent, or for an engine that waits
\* for it.
Returned(t) == pc[t] = "idle"
=============================================================================
