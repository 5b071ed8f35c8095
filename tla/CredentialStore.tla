--------------------------- MODULE CredentialStore ---------------------------
(***************************************************************************)
(* The credential store of a private Unix directory: one file for each     *)
(* credential, replaced by writing a temporary file, synchronising it,     *)
(* renaming it over the credential and synchronising the directory.        *)
(* UnixFileCredentialStore takes no lock, and several threads and          *)
(* processes may use one directory; every system call is a step.  Swift    *)
(* callers load in two calls, the first to learn the length.               *)
(*                                                                         *)
(* Credentials do not share files, so one is modelled.  A temporary name   *)
(* is 128 random bits: the file it names stands for it.  The kernel keeps  *)
(* what programs see and, behind it, what a power loss leaves: the data of *)
(* a file and the directory are written back when they are synchronised    *)
(* or at any other time, the directory as a whole, as a journal does.      *)
(***************************************************************************)
EXTENDS Naturals, Sequences, SequencesExt, TLC

CONSTANTS
    Threads,
    Files,        \* inodes
    Values,       \* credential values
    Long,         \* those longer than the others
    MaxChanges,   \* bound: renames and removals
    MaxFaults,    \* bound: failing system calls, kills and power losses
    None

VARIABLES
    entry,     \* the file under the credential's name, or None
    temps,     \* files under temporary names
    data,      \* what is in each file
    onDisk,    \* entry, temps and data as a power loss would leave them
    thread,    \* each thread's operation and how far it is
    history,   \* what each change made of the credential: a value, or None
    durable,   \* how many changes a power loss would keep
    acked,     \* the newest change whose operation returned success
    faults,    \* failures so far
    dirty      \* a failure may have left a temporary file

vars == <<entry, temps, data, onDisk, thread, history, durable, acked, faults, dirty>>
files == <<entry, temps, data, onDisk>>
ghosts == <<history, durable, acked>>
bounds == <<faults, dirty>>

Idle == [at |-> "idle", op |-> None, value |-> None, fd |-> None, temp |-> None,
         need |-> 0, tries |-> 0, since |-> 0, change |-> 0, result |-> None]

Contents == Values \cup {"empty", "part"}

LoadAttempts == 3

Size(v) == IF v \in Long THEN 2 ELSE 1

\* The number of names of a file; temporary files are renamed, never linked.
Links(f) == IF f = entry \/ f \in temps THEN 1 ELSE 0

Unused == {f \in Files :
             /\ f # entry /\ f \notin temps
             /\ f # onDisk.entry /\ f \notin onDisk.temps
             /\ \A t \in Threads : thread[t].fd # f /\ thread[t].temp # f}

Init ==
    /\ entry = None
    /\ temps = {}
    /\ data = [f \in Files |-> "empty"]
    /\ onDisk = [entry |-> None, temps |-> {}, data |-> data]
    /\ thread = [t \in Threads |-> Idle]
    /\ history = <<None>>
    /\ durable = 1
    /\ acked = 1
    /\ faults = 0
    /\ dirty = FALSE

Set(t, changes) == thread' = [thread EXCEPT ![t] = changes @@ @]

\* An operation ends and its caller has the result.
End(t, r) ==
    thread' = [thread EXCEPT ![t] =
                 [at |-> "done", op |-> @.op, since |-> @.since, result |-> r] @@ Idle]

\* A system call of `t` fails.
Fault(t, at) ==
    /\ thread[t].at = at
    /\ faults < MaxFaults
    /\ faults' = faults + 1

-----------------------------------------------------------------------------

Begin(t, op, v) ==
    /\ thread[t].at = "idle"
    /\ Set(t, [at |-> "open", op |-> op, value |-> v,
               since |-> IF op = "load" THEN Len(history) ELSE 0])
    /\ UNCHANGED <<files, ghosts, bounds>>

Forget(t) ==
    /\ thread[t].at = "done"
    /\ thread' = [thread EXCEPT ![t] = Idle]
    /\ UNCHANGED <<files, ghosts, bounds>>

\* open_credential, validate_directory and openat: without the file a load and
\* a delete end, a store goes on.
OpenCredential(t) ==
    /\ thread[t].at = "open"
    /\ IF entry # None
       THEN Set(t, [at |-> "check", fd |-> entry])
       ELSE IF thread[t].op = "store"
            THEN Set(t, [at |-> "create"])
            ELSE End(t, "missing")
    /\ UNCHANGED <<files, ghosts, bounds>>

\* validated_credential_size: one link and a length within the limits.
Validated(f) ==
    IF Links(f) # 1 THEN "unsafe"
    ELSE IF data[f] = "empty" THEN "invalid" ELSE "ok"

\* open_credential, validate_credential.
Check(t) ==
    /\ thread[t].at = "check"
    /\ LET verdict == Validated(thread[t].fd)
       IN  IF verdict # "ok" THEN End(t, verdict)
           ELSE Set(t, CASE thread[t].op = "load" -> [at |-> "size"]
                         [] thread[t].op = "store" -> [at |-> "create", fd |-> None]
                         [] thread[t].op = "delete" -> [at |-> "unlink", fd |-> None])
    /\ UNCHANGED <<files, ghosts, bounds>>

\* load, the size it expects.
CheckSize(t) ==
    /\ thread[t].at = "size"
    /\ LET verdict == Validated(thread[t].fd)
       IN  IF verdict # "ok" THEN End(t, verdict) ELSE Set(t, [at |-> "read"])
    /\ UNCHANGED <<files, ghosts, bounds>>

\* write_bytes: the value fits the caller's buffer.
Fits(v, capacity) == Size(v) <= capacity

\* BondryCredentialStore.load: the first call tells the length, the second fills
\* the buffer or finds it short, and both are made again.
Take(t, v) ==
    LET s == thread[t]
        again == [at |-> "open", fd |-> None]
    IN  IF s.need = 0 THEN Set(t, [need |-> Size(v)] @@ again)
        ELSE IF Fits(v, s.need) THEN End(t, v)
        ELSE IF s.tries + 1 < LoadAttempts
        THEN Set(t, [need |-> 0, tries |-> s.tries + 1] @@ again)
        ELSE End(t, "unavailable")

\* load, read_to_end.
Read(t) ==
    /\ thread[t].at = "read"
    /\ LET v == data[thread[t].fd]
       IN  IF v \in Values THEN Take(t, v) ELSE End(t, v)
    /\ UNCHANGED <<files, ghosts, bounds>>

\* create_temporary: a new file of mode 0600 under an unused name.
CreateTemporary(t) ==
    /\ thread[t].at = "create"
    /\ \E f \in Unused :
          /\ temps' = temps \cup {f}
          /\ data' = [data EXCEPT ![f] = "empty"]
          /\ onDisk' = [onDisk EXCEPT !.data[f] = "empty"]
          /\ Set(t, [at |-> "write", temp |-> f])
    /\ UNCHANGED <<entry, ghosts, bounds>>

\* store, write_all: the value reaches the file in one or more parts.
Write(t) ==
    /\ thread[t].at = "write"
    /\ LET f == thread[t].temp
       IN  \/ /\ data[f] = "empty"
              /\ data' = [data EXCEPT ![f] = "part"]
              /\ UNCHANGED thread
           \/ /\ data' = [data EXCEPT ![f] = thread[t].value]
              /\ Set(t, [at |-> "sync"])
    /\ UNCHANGED <<entry, temps, onDisk, ghosts, bounds>>

\* store, sync_all.
Sync(t) ==
    /\ thread[t].at = "sync"
    /\ onDisk' = [onDisk EXCEPT !.data[thread[t].temp] = data[thread[t].temp]]
    /\ Set(t, [at |-> "rename"])
    /\ UNCHANGED <<entry, temps, data, ghosts, bounds>>

\* What every reader finds from now on.
Change(t, v) ==
    /\ Len(history) <= MaxChanges
    /\ history' = Append(history, v)
    /\ Set(t, [at |-> "syncdir", change |-> Len(history) + 1, temp |-> None])

\* store, renameat and disarm.
Rename(t) ==
    /\ thread[t].at = "rename"
    /\ entry' = thread[t].temp
    /\ temps' = temps \ {thread[t].temp}
    /\ Change(t, thread[t].value)
    /\ UNCHANGED <<data, onDisk, durable, acked, bounds>>

\* delete, unlinkat: another thread may have removed the file by now.
Unlink(t) ==
    /\ thread[t].at = "unlink"
    /\ IF entry = None
       THEN End(t, "unavailable") /\ UNCHANGED <<entry, history>>
       ELSE entry' = None /\ Change(t, None)
    /\ UNCHANGED <<temps, data, onDisk, durable, acked, bounds>>

\* The directory as it is reaches the disk.
DirectoryWritten ==
    /\ onDisk' = [onDisk EXCEPT !.entry = entry, !.temps = temps]
    /\ durable' = Len(history)

\* Mutant: the directory is not synchronised.
SyncDirectorySkipped(t) ==
    /\ thread[t].at = "syncdir"
    /\ acked' = IF thread[t].change > acked THEN thread[t].change ELSE acked
    /\ End(t, "ok")
    /\ UNCHANGED <<files, history, durable, bounds>>

\* store and delete, fsync of the directory.
SyncDirectory(t) ==
    /\ thread[t].at = "syncdir"
    /\ DirectoryWritten
    /\ acked' = IF thread[t].change > acked THEN thread[t].change ELSE acked
    /\ End(t, "ok")
    /\ UNCHANGED <<entry, temps, data, history, bounds>>

-----------------------------------------------------------------------------
(***************************************************************************)
(* Failures.                                                               *)
(***************************************************************************)

\* A call fails that has no temporary file to remove.
CallFails(t) ==
    /\ \E at \in {"open", "check", "size", "read", "create", "unlink", "syncdir"} :
          Fault(t, at)
    /\ End(t, "unavailable")
    /\ UNCHANGED <<files, ghosts, dirty>>

\* fchmod or fstat of the new file, a write, sync_all or renameat fails:
\* TemporaryCredential removes the file, and cannot tell when that fails too.
WriteFails(t) ==
    /\ \E at \in {"write", "sync", "rename"} : Fault(t, at)
    /\ \/ temps' = temps \ {thread[t].temp} /\ UNCHANGED dirty
       \/ UNCHANGED temps /\ dirty' = TRUE
    /\ End(t, "unavailable")
    /\ UNCHANGED <<entry, data, onDisk, ghosts>>

\* The process of a thread is killed.
Kill(t) ==
    /\ thread[t].at \notin {"idle", "done"}
    /\ faults < MaxFaults
    /\ faults' = faults + 1
    /\ thread' = [thread EXCEPT ![t] = Idle]
    /\ dirty' = TRUE
    /\ UNCHANGED <<files, ghosts>>

\* Everything in memory is lost.
PowerLoss ==
    /\ faults < MaxFaults
    /\ faults' = faults + 1
    /\ entry' = onDisk.entry
    /\ temps' = onDisk.temps
    /\ data' = onDisk.data
    /\ thread' = [t \in Threads |-> Idle]
    /\ history' = SubSeq(history, 1, durable)
    /\ dirty' = TRUE
    /\ UNCHANGED <<onDisk, durable, acked>>

\* The kernel writes back when it likes.
WriteBack ==
    /\ \/ \E f \in temps :
             /\ onDisk.data[f] # data[f]
             /\ onDisk' = [onDisk EXCEPT !.data[f] = data[f]]
             /\ UNCHANGED durable
       \/ /\ durable < Len(history) \/ onDisk.temps # temps
          /\ DirectoryWritten
    /\ UNCHANGED <<entry, temps, data, thread, history, acked, bounds>>

Next ==
    \/ \E t \in Threads :
          \/ Begin(t, "load", None) \/ Begin(t, "delete", None)
          \/ \E v \in Values : Begin(t, "store", v)
          \/ Forget(t)
          \/ OpenCredential(t) \/ Check(t) \/ CheckSize(t) \/ Read(t)
          \/ CreateTemporary(t) \/ Write(t) \/ Sync(t) \/ Rename(t)
          \/ Unlink(t) \/ SyncDirectory(t)
          \/ CallFails(t) \/ WriteFails(t) \/ Kill(t)
    \/ PowerLoss
    \/ WriteBack

\* What was in a file that nobody can reach is of no consequence.
Reachable(f) == f = entry \/ f \in temps \/ \E t \in Threads : thread[t].fd = f
ReachableOnDisk(f) == f = onDisk.entry \/ f \in onDisk.temps \/ f \in temps

View ==
    <<entry, temps, [f \in Files |-> IF Reachable(f) THEN data[f] ELSE None],
      onDisk.entry, onDisk.temps,
      [f \in Files |-> IF ReachableOnDisk(f) THEN onDisk.data[f] ELSE None],
      thread, history, durable, acked, faults, dirty>>

Spec == Init /\ [][Next]_vars

-----------------------------------------------------------------------------
(***************************************************************************)
(* Properties.                                                             *)
(***************************************************************************)

\* The state has its type, and no file has two names.
TypeOK ==
    /\ entry \in Files \cup {None}
    /\ temps \subseteq Files \ {entry}
    /\ data \in [Files -> Contents]
    /\ onDisk.entry \in Files \cup {None}
    /\ onDisk.temps \subseteq Files
    /\ onDisk.data \in [Files -> Contents]
    /\ \A t \in Threads : DOMAIN thread[t] = DOMAIN Idle
    /\ history \in Seq(Values \cup {None}) /\ Len(history) <= MaxChanges + 1
    /\ acked \in 1..Len(history)
    /\ durable \in 1..Len(history)
    /\ faults \in 0..MaxFaults
    /\ dirty \in BOOLEAN

\* The file under the credential's name holds the whole value of the last store,
\* and so does the one a power loss would leave: UnixFileCredentialStore::store
\* synchronises the file before it renames it.
StoredWhole ==
    /\ IF entry = None THEN Last(history) = None ELSE data[entry] = Last(history)
    /\ IF onDisk.entry = None THEN history[durable] = None
       ELSE onDisk.data[onDisk.entry] = history[durable]

\* A store or delete that returned success survives a power loss, also when
\* others changed the credential meanwhile.
AckedDurable ==
    acked <= durable

\* A load returns what the credential was at some moment between its call and
\* its return: never a part, never "missing" while one value replaces another,
\* although the Swift caller reads twice.
LoadsLinearize ==
    \A t \in Threads :
        LET s == thread[t]
        IN  s.at = "done" /\ s.op = "load" /\ s.result \in Values \cup {"part", "missing"} =>
               \E i \in s.since..Len(history) :
                  history[i] = IF s.result = "missing" THEN None ELSE s.result

\* Without a kill, a power loss or a failed removal, a temporary file in the
\* directory belongs to a store under way: an error leaves none behind
\* (TemporaryCredential).
NothingLeftBehind ==
    dirty \/ temps \subseteq {thread[t].temp : t \in Threads}

\* "Filesystem or platform metadata violates the backend's safety policy": as
\* long as only the store itself changes the directory, no operation says so.
UnsafeMeansUnsafe ==
    \A t \in Threads : thread[t].result # "unsafe"

=============================================================================
