----------------------------- MODULE UnixSocket -----------------------------
(***************************************************************************)
(* The socket file of a Unix-domain server:                                *)
(* crates/engine/bondry-http-server/src/unix_socket.rs, with the order of  *)
(* start and stop of run_unix_server (server.rs).                          *)
(*                                                                         *)
(* Servers of one path run in processes of their own; a step is one system *)
(* call.  A file is known by its inode, which the file system may give     *)
(* away again once nothing refers to it.  The parent directory is private  *)
(* (validate_parent), so only these servers touch the path.                *)
(***************************************************************************)
EXTENDS Integers, FiniteSets

CONSTANTS
    Servers, Inodes, None,
    Exclusive     \* the hosts never start two servers of the path at once

VARIABLES
    path,      \* the inode under the path, or None
    files,     \* what each inode is
    servers,   \* the servers' progress
    left,      \* inodes under the path that no server answers for
    torn       \* inodes left by a crash between bind and set_permissions

vars == <<path, files, servers, left, torn>>

(* kind "alien": no socket, or a socket of another owner. *)
File == [kind : {"socket", "alien"}, private : BOOLEAN,
         listener : Servers \cup {None}]
Starting == {"stat", "probe", "recheck", "unlink", "bind",
             "identify", "secure", "verify"}
Removing == {"check", "remove"}
Server == [pc : {"off", "serving"} \cup Starting \cup Removing,
           seen : Inodes \cup {None}]

(* Types, and: a listener belongs to a server past its bind, and is closed  *)
(* on every way out (unix_socket.rs:80-100).                                *)
TypeOK ==
    /\ path \in Inodes \cup {None}
    /\ files \in [Inodes -> File]
    /\ servers \in [Servers -> Server]
    /\ torn \subseteq left /\ left \subseteq Inodes
    /\ \A i \in Inodes : files[i].listener # None =>
          servers[files[i].listener].pc \notin {"off", "stat", "probe", "bind"}

(* What an earlier program may have left: nothing, a stale socket, or       *)
(* something that is not ours.                                              *)
Init ==
    /\ path \in {None, CHOOSE i \in Inodes : TRUE}
    /\ \E k \in {"socket", "alien"} :
          files = [i \in Inodes |->
                     [kind |-> k, private |-> TRUE, listener |-> None]]
    /\ servers = [s \in Servers |-> [pc |-> "off", seen |-> None]]
    /\ left = {path} \ {None}
    /\ torn = {}

To(s, pc) == servers' = [servers EXCEPT ![s].pc = pc]
At(s, pc) == servers[s].pc = pc
Closed(s) == [i \in Inodes |->
                 IF files[i].listener = s THEN [files[i] EXCEPT !.listener = None]
                 ELSE files[i]]
(* The server gives up: its listener, if any, is closed with it. *)
Off(s) ==
    /\ servers' = [servers EXCEPT ![s] = [pc |-> "off", seen |-> None]]
    /\ files' = Closed(s)
Ghosts == UNCHANGED <<left, torn>>

-----------------------------------------------------------------------------
(* recover_stale_socket *)

Start(s) ==
    /\ At(s, "off")
    /\ Exclusive => \A t \in Servers : servers[t].pc \notin Starting
    /\ To(s, "stat")
    /\ UNCHANGED <<path, files>> /\ Ghosts

(* The first look at the path: free, a private socket of ours, or refused. *)
Stat(s) ==
    /\ At(s, "stat")
    /\ IF path = None THEN To(s, "bind") /\ UNCHANGED files
       ELSE IF files[path].kind = "socket" /\ files[path].private
       THEN /\ servers' = [servers EXCEPT ![s] = [pc |-> "probe", seen |-> path]]
            /\ UNCHANGED files
       ELSE Off(s)
    /\ UNCHANGED path /\ Ghosts

(* connect: no file, a live listener (or no answer in time), or refused. *)
Probe(s) ==
    /\ At(s, "probe")
    /\ IF path = None THEN To(s, "bind") /\ UNCHANGED files
       ELSE IF files[path].listener # None THEN Off(s)
       ELSE To(s, "recheck") /\ UNCHANGED files
    /\ UNCHANGED path /\ Ghosts

(* remove_owned_path, its look and then its unlink. *)
Recheck(s) ==
    /\ At(s, "recheck")
    /\ IF path = None THEN To(s, "bind") /\ UNCHANGED files
       ELSE IF path = servers[s].seen THEN To(s, "unlink") /\ UNCHANGED files
       ELSE Off(s)
    /\ UNCHANGED path /\ Ghosts

Unlink(s) ==
    /\ At(s, "unlink")
    /\ path' = None
    /\ IF path = None THEN Off(s) ELSE To(s, "bind") /\ UNCHANGED files
    /\ Ghosts

-----------------------------------------------------------------------------
(* UnixListener::bind and secure_bound_socket *)

(* A free inode is any that nothing refers to. *)
Bind(s) ==
    /\ At(s, "bind")
    /\ IF path # None THEN Off(s) /\ UNCHANGED <<path, left, torn>>
       ELSE \E i \in Inodes :
              /\ files[i].listener = None
              /\ path' = i
              /\ files' = [files EXCEPT ![i] =
                    [kind |-> "socket", private |-> FALSE, listener |-> s]]
              /\ To(s, "identify")
              /\ torn' = torn \ {i} /\ left' = left \ {i}

Identify(s) ==
    /\ At(s, "identify")
    /\ IF path = None THEN Off(s)
       ELSE /\ servers' = [servers EXCEPT ![s] = [pc |-> "secure", seen |-> path]]
            /\ UNCHANGED files
    /\ UNCHANGED path /\ Ghosts

(* set_permissions follows the path, whatever is there by now. *)
Secure(s) ==
    /\ At(s, "secure")
    /\ IF path = None THEN To(s, "check") /\ UNCHANGED files
       ELSE /\ files' = [files EXCEPT ![path].private = TRUE]
            /\ To(s, "verify")
    /\ UNCHANGED path /\ Ghosts

Verify(s) ==
    /\ At(s, "verify")
    /\ IF path # None /\ path = servers[s].seen /\ files[path].private
       THEN To(s, "serving") ELSE To(s, "check")
    /\ UNCHANGED <<path, files>> /\ Ghosts

-----------------------------------------------------------------------------
(* stop, or the drop of a failed start: SocketPathOwner::remove *)

Stop(s) ==
    /\ At(s, "serving")
    /\ To(s, "check")
    /\ UNCHANGED <<path, files>> /\ Ghosts

Check(s) ==
    /\ At(s, "check")
    /\ IF path = servers[s].seen THEN To(s, "remove") /\ UNCHANGED files
       ELSE Off(s)
    /\ UNCHANGED path /\ Ghosts

Remove(s) ==
    /\ At(s, "remove")
    /\ path' = None
    /\ Off(s)
    /\ Ghosts

(* The process dies: the kernel closes the listener, the file stays. *)
Crash(s) ==
    /\ ~At(s, "off")
    /\ Off(s)
    /\ left' = left \cup ({path} \ {None})
    /\ torn' = IF servers[s].pc \in {"identify", "secure"} /\ path # None
               THEN torn \cup {path} ELSE torn
    /\ UNCHANGED path

Step(s) ==
    \/ Start(s) \/ Stat(s) \/ Probe(s) \/ Recheck(s) \/ Unlink(s)
    \/ Bind(s) \/ Identify(s) \/ Secure(s) \/ Verify(s)
    \/ Stop(s) \/ Check(s) \/ Remove(s) \/ Crash(s)

Next == \E s \in Servers : Step(s)

Spec == Init /\ [][Next]_vars

(* A start or a stop goes on to its end unless its process dies. *)
LiveSpec ==
    /\ Spec
    /\ \A s \in Servers :
          WF_vars(Stat(s) \/ Probe(s) \/ Recheck(s) \/ Unlink(s) \/ Bind(s)
                  \/ Identify(s) \/ Secure(s) \/ Verify(s)
                  \/ Check(s) \/ Remove(s))

-----------------------------------------------------------------------------
(* Properties *)

(* A server that serves is reachable: neither another server's recovery,    *)
(* nor its own late clean-up, takes its socket away (unix_socket.rs:139-172,*)
(* 237-275).                                                                *)
Reachable ==
    \A s \in Servers : At(s, "serving") =>
        path # None /\ path = servers[s].seen /\ files[path].listener = s

(* Servers that are stopped, and starts that fail, leave no socket behind   *)
(* that was not left by a crash before (unix_socket.rs:256-275;             *)
(* server.rs:405-410).                                                      *)
NothingLeft ==
    (\A s \in Servers : At(s, "off")) /\ path # None => path \in left

(* Once no server is left, whatever a crash left under the path is a        *)
(* private socket that the next start removes - unless the crash fell       *)
(* between bind and set_permissions (unix_socket.rs:83-84, 139-156).        *)
RestartFindsItsWay ==
    (\A s \in Servers : At(s, "off")) /\ path # None =>
        \/ files[path].kind = "alien"
        \/ files[path].private /\ files[path].listener = None
        \/ path \in torn

(* Only an object whose listener is gone, or its own, is unlinked by a      *)
(* server: "so Bondry does not unlink an unrelated or replaced filesystem   *)
(* object" (docs/c-abi.md:86).                                              *)
UnlinkOwn ==
    path # None /\ path' = None =>
        \E s \in Servers :
            servers[s].pc \in {"unlink", "remove"} /\ path = servers[s].seen
            /\ servers'[s] # servers[s]
UnlinksItsOwn == [][UnlinkOwn]_vars

=============================================================================
