---------------------------- MODULE AccessControl ----------------------------
(***************************************************************************)
(* Clients, tokens and grants: AuthManager                                 *)
(* (crates/contract/bondry-auth/src/manager.rs, token.rs) over the         *)
(* SQLCipher store (crates/store/bondry-store-sqlcipher/src/auth.rs,       *)
(* grants.rs), called by several threads through the C ABI                 *)
(* (crates/ffi/bondry-runtime-ffi/src/auth.rs, grants.rs).                 *)
(*                                                                         *)
(* A store call is atomic; a manager call is several of them with the      *)
(* clock read in between.  The clock does not move back here.              *)
(***************************************************************************)
EXTENDS Naturals, FiniteSets

CONSTANTS
    Clients,
    Tokens,        \* identifiers a generation may draw; the secret goes with it
    Threads,
    MaxTime,       \* bound on the clock
    Lifetimes,     \* lifetimes asked for; zero for none
    Used,          \* the operations the threads call
    Attempts       \* GENERATION_ATTEMPTS

Times == 0 .. MaxTime
Never == MaxTime + 2        \* no expiry, or not revoked

VARIABLES
    now,
    clients,      \* each client: absent, enabled or disabled
    tokens,       \* TokenRecord, or NoRecord
    grants,       \* clients with the grant requests ask for
    calls,        \* what every thread is doing
    replaced      \* for every token, the tokens it was rotated into

vars == <<now, clients, tokens, grants, calls, replaced>>
store == <<clients, tokens, grants, replaced>>

NoRecord == [client |-> "none", expires |-> Never, revoked |-> Never]
Exists(t) == tokens[t] # NoRecord

(* TokenRecord::is_active_at *)
ActiveAt(record, time) == record.revoked = Never /\ time < record.expires

Operations == {"none", "issue", "rotate", "revoke", "access"}
Answers == {"none", "issued", "rotated", "revoked", "unchanged", "allowed", "rejected",
            "denied", "not_found", "disabled", "inactive", "exhausted", "unavailable"}

(* justified and granted record whether a moment of the call warranted a     *)
(* positive answer.                                                          *)
Call == [op : Operations, at : {"done", "start", "store", "clock", "policy"},
         client : Clients \cup {"none"}, token : Tokens \cup {"none"},
         time : Times, expires : Times \cup {MaxTime + 1, Never}, left : 0 .. Attempts,
         record : [client : Clients \cup {"none"}, expires : Times \cup {MaxTime + 1, Never},
                   revoked : Times \cup {Never}],
         enabled : BOOLEAN, justified : BOOLEAN, granted : BOOLEAN, answer : Answers]

Idle == [op |-> "none", at |-> "done", client |-> "none", token |-> "none",
         time |-> 0, expires |-> Never, left |-> 0, record |-> NoRecord, enabled |-> FALSE,
         justified |-> FALSE, granted |-> FALSE, answer |-> "none"]

(* Types: every token in the store belongs to a client that exists, the     *)
(* foreign key of the tokens table (database.rs).                           *)
TypeOK ==
    /\ now \in Times
    /\ clients \in [Clients -> {"absent", "enabled", "disabled"}]
    /\ \A t \in Tokens : Exists(t) => clients[tokens[t].client] # "absent"
    /\ grants \subseteq Clients
    /\ calls \in [Threads -> Call]
    /\ replaced \in [Tokens -> SUBSET Tokens]

Init ==
    /\ now = 0
    /\ clients = [c \in Clients |-> "absent"]
    /\ tokens = [t \in Tokens |-> NoRecord]
    /\ grants = {}
    /\ calls = [h \in Threads |-> Idle]
    /\ replaced = [t \in Tokens |-> {}]

(* What would warrant the answer of a pending call in the current state. *)
Warranted(call) ==
    CASE call.op = "issue" -> clients[call.client] = "enabled"
      [] call.op = "access" ->
            /\ Exists(call.token)
            /\ ActiveAt(tokens[call.token], now)
            /\ clients[tokens[call.token].client] = "enabled"
      [] OTHER -> FALSE

Granted(call) == call.op = "access" /\ call.token # "none" /\ Exists(call.token) /\ tokens[call.token].client \in grants

(* Every pending call notes what held just before its next step. *)
Noted(h) ==
    [calls[h] EXCEPT !.justified = @ \/ Warranted(calls[h]),
                     !.granted = @ \/ Granted(calls[h])]

Moves(h, call) ==
    calls' = [g \in Threads |-> IF g = h THEN call
                                ELSE IF calls[g].at = "done" THEN calls[g] ELSE Noted(g)]

Answer(h, answer) ==
    Moves(h, [Idle EXCEPT !.op = calls[h].op, !.justified = Noted(h).justified,
                          !.granted = Noted(h).granted, !.answer = answer])

At(h, op, place) == calls[h].op = op /\ calls[h].at = place

-----------------------------------------------------------------------------
(* Administration *)

(* insert_client, set_client_enabled *)
Created(c) == [clients EXCEPT ![c] = "enabled"]
Switched(c, state) == [clients EXCEPT ![c] = state]

AllNoted == calls' = [h \in Threads |-> IF calls[h].at = "done" THEN calls[h] ELSE Noted(h)]

(* bondry_client_create_v1.  A drawn identifier that exists is drawn again. *)
CreateClient(c) ==
    /\ clients[c] = "absent"
    /\ clients' = Created(c)
    /\ AllNoted
    /\ UNCHANGED <<now, tokens, grants, replaced>>

(* bondry_client_set_enabled_v1 *)
SetClientEnabled(c, state) ==
    /\ clients[c] \notin {"absent", state}
    /\ clients' = Switched(c, state)
    /\ AllNoted
    /\ UNCHANGED <<now, tokens, grants, replaced>>

(* bondry_grant_add_v1, bondry_grant_remove_v1.  A grant may name a principal *)
(* that is not a client.                                                      *)
UpdateGrant(c, add) ==
    /\ grants' = IF add THEN grants \cup {c} ELSE grants \ {c}
    /\ grants' # grants
    /\ AllNoted
    /\ UNCHANGED <<now, clients, tokens, replaced>>

Tick ==
    /\ now < MaxTime
    /\ now' = now + 1
    /\ AllNoted
    /\ UNCHANGED store

-----------------------------------------------------------------------------
(* Issuing and rotating *)

(* expiration.  Lifetimes are none or one unit of the clock. *)
Expiration(time, lifetime) == IF lifetime = 0 THEN Never ELSE time + lifetime

(* load_enabled_client, then the clock and the lifetime *)
IssueToken(h, c, lifetime) ==
    /\ calls[h].at = "done"
    /\ LET call == [Idle EXCEPT !.op = "issue", !.client = c] IN
       \/ /\ clients[c] = "enabled"
          /\ Moves(h, [call EXCEPT !.at = "store", !.expires = Expiration(now, lifetime),
                                   !.left = Attempts, !.justified = TRUE])
       \/ /\ clients[c] # "enabled"
          /\ Moves(h, [call EXCEPT !.answer = IF clients[c] = "absent" THEN "not_found"
                                              ELSE "disabled"])
       \/ Moves(h, [call EXCEPT !.answer = "unavailable"])
    /\ UNCHANGED <<now, store>>

(* insert_token: the identifier and the digest are unique. *)
Inserted(t, client, expires) ==
    [tokens EXCEPT ![t] = [client |-> client, expires |-> expires, revoked |-> Never]]

(* An identifier is drawn; when it conflicts, another one, Attempts times. *)
IssueInsert(h) ==
    LET call == calls[h] IN
    /\ At(h, "issue", "store")
    /\ \/ \E t \in Tokens :
             \/ /\ ~Exists(t)
                /\ tokens' = Inserted(t, call.client, call.expires)
                /\ Answer(h, "issued")
             \/ /\ Exists(t)
                /\ IF call.left > 1 THEN Moves(h, [Noted(h) EXCEPT !.left = @ - 1])
                                    ELSE Answer(h, "exhausted")
                /\ UNCHANGED tokens
       \/ Answer(h, "unavailable") /\ UNCHANGED tokens
    /\ UNCHANGED <<now, clients, grants, replaced>>

RotateToken(h, t, lifetime) ==
    /\ calls[h].at = "done"
    /\ \/ Moves(h, [Idle EXCEPT !.op = "rotate", !.at = "store", !.token = t, !.time = now,
                                !.expires = Expiration(now, lifetime), !.left = Attempts])
       \/ Moves(h, [Idle EXCEPT !.op = "rotate", !.answer = "unavailable"])
    /\ UNCHANGED <<now, store>>

(* SqlCipherStore::rotate_token, one transaction: the token is looked up,    *)
(* its client and its activity tested, the replacement inserted and the      *)
(* token revoked.                                                            *)
RotateStore(h) ==
    LET call == calls[h]
        current == tokens[call.token] IN
    /\ At(h, "rotate", "store")
    /\ \/ /\ ~Exists(call.token)
          /\ Answer(h, "not_found")
          /\ UNCHANGED <<tokens, replaced>>
       \/ /\ Exists(call.token)
          /\ clients[current.client] = "disabled"
          /\ Answer(h, "disabled")
          /\ UNCHANGED <<tokens, replaced>>
       \/ /\ Exists(call.token)
          /\ clients[current.client] = "enabled"
          /\ ~ActiveAt(current, call.time)
          /\ Answer(h, "inactive")
          /\ UNCHANGED <<tokens, replaced>>
       \/ /\ Exists(call.token)
          /\ clients[current.client] = "enabled"
          /\ ActiveAt(current, call.time)
          /\ \E t \in Tokens :
                \/ /\ ~Exists(t)
                   /\ tokens' = [Inserted(t, current.client, call.expires)
                                    EXCEPT ![call.token].revoked = call.time]
                   /\ replaced' = [replaced EXCEPT ![call.token] = @ \cup {t}]
                   /\ Answer(h, "rotated")
                \/ /\ Exists(t)
                   /\ IF call.left > 1 THEN Moves(h, [Noted(h) EXCEPT !.left = @ - 1])
                                       ELSE Answer(h, "exhausted")
                   /\ UNCHANGED <<tokens, replaced>>
       \/ Answer(h, "unavailable") /\ UNCHANGED <<tokens, replaced>>
    /\ UNCHANGED <<now, clients, grants>>

-----------------------------------------------------------------------------
(* Revoking *)

RevokeToken(h, t) ==
    /\ calls[h].at = "done"
    /\ \/ Moves(h, [Idle EXCEPT !.op = "revoke", !.at = "store", !.token = t, !.time = now])
       \/ Moves(h, [Idle EXCEPT !.op = "revoke", !.answer = "unavailable"])
    /\ UNCHANGED <<now, store>>

(* SqlCipherStore::revoke_token *)
RevokeStore(h) ==
    LET call == calls[h] IN
    /\ At(h, "revoke", "store")
    /\ \/ /\ Exists(call.token)
          /\ ActiveAt(tokens[call.token], call.time)
          /\ tokens' = [tokens EXCEPT ![call.token].revoked = call.time]
          /\ Answer(h, "revoked")
       \/ /\ Exists(call.token) => ~ActiveAt(tokens[call.token], call.time)
          /\ Answer(h, "unchanged")
          /\ UNCHANGED tokens
       \/ Answer(h, "unavailable") /\ UNCHANGED tokens
    /\ UNCHANGED <<now, clients, grants, replaced>>

-----------------------------------------------------------------------------
(* A request with a bearer token: authenticate, then the grant policy *)

(* PresentedToken::parse *)
Access(h, t) ==
    /\ calls[h].at = "done"
    /\ Moves(h, [Idle EXCEPT !.op = "access", !.at = "start", !.token = t])
    /\ UNCHANGED <<now, store>>

(* authentication_record: token and client in one query *)
AccessLoad(h) ==
    LET call == calls[h] IN
    /\ At(h, "access", "start")
    /\ \/ Moves(h, [Noted(h) EXCEPT
                       !.at = "clock", !.record = tokens[call.token],
                       !.enabled = Exists(call.token) /\
                                   clients[tokens[call.token].client] = "enabled"])
       \/ Answer(h, "unavailable")
    /\ UNCHANGED <<now, store>>

(* Mutated AccessDecide: the client's state is not part of the decision. *)
AccessDecideToken(h) ==
    LET call == calls[h] IN
    /\ At(h, "access", "clock")
    /\ \/ /\ call.record # NoRecord
          /\ ActiveAt(call.record, now)
          /\ Moves(h, [Noted(h) EXCEPT !.at = "policy"])
       \/ Answer(h, "rejected")
    /\ UNCHANGED <<now, store>>

(* The clock is read after the record; then the secret, the activity and the *)
(* client's state decide.  A secret that does not match is rejected.         *)
AccessDecide(h) ==
    LET call == calls[h] IN
    /\ At(h, "access", "clock")
    /\ \/ /\ call.record # NoRecord
          /\ ActiveAt(call.record, now)
          /\ call.enabled
          /\ Moves(h, [Noted(h) EXCEPT !.at = "policy"])
       \/ Answer(h, "rejected")
    /\ UNCHANGED <<now, store>>

(* contains_grant *)
Contains(c) == c \in grants

(* StoredGrantPolicy::evaluate *)
AccessPolicy(h) ==
    LET call == calls[h] IN
    /\ At(h, "access", "policy")
    /\ \/ Contains(call.record.client) /\ Answer(h, "allowed")
       \/ ~Contains(call.record.client) /\ Answer(h, "denied")
       \/ Answer(h, "unavailable")
    /\ UNCHANGED <<now, store>>

Next ==
    \/ \E c \in Clients :
          \/ CreateClient(c)
          \/ \E state \in {"enabled", "disabled"} : SetClientEnabled(c, state)
          \/ "access" \in Used /\ \E add \in BOOLEAN : UpdateGrant(c, add)
    \/ Tick
    \/ \E h \in Threads :
          \/ "issue" \in Used /\ \E c \in Clients, lifetime \in Lifetimes : IssueToken(h, c, lifetime)
          \/ \E t \in Tokens :
                \/ "rotate" \in Used /\ \E lifetime \in Lifetimes : RotateToken(h, t, lifetime)
                \/ "revoke" \in Used /\ RevokeToken(h, t)
                \/ "access" \in Used /\ Access(h, t)
          \/ IssueInsert(h) \/ RotateStore(h) \/ RevokeStore(h)
          \/ AccessLoad(h) \/ AccessDecide(h) \/ AccessPolicy(h)

Spec == Init /\ [][Next]_vars

-----------------------------------------------------------------------------
(* Properties *)

(* A positive answer is warranted by one moment of the call: a request is   *)
(* let in only if its token was active and its client enabled at one and    *)
(* the same moment after it began, whatever administration was under way,   *)
(* and only if it had the grant at some moment; a token is issued only if   *)
(* its client was enabled (manager.rs:118-186, policy.rs:163-177).          *)
Justified ==
    \A h \in Threads :
        /\ calls[h].answer \in {"allowed", "issued"} => calls[h].justified
        /\ calls[h].answer = "allowed" => calls[h].granted

(* Rotation is a replacement: a token is rotated at most once, whoever      *)
(* rotates or revokes it at the same time, and is revoked when it is, so a  *)
(* client never ends up with two successors of one token                    *)
(* (SqlCipherStore::rotate_token).                                          *)
RotatedOnce ==
    \A t \in Tokens :
        /\ Cardinality(replaced[t]) <= 1
        /\ replaced[t] # {} => tokens[t].revoked # Never

(* What is stored of a token never changes, except that it is revoked,      *)
(* once: a revoked token stays revoked since the same time.                 *)
RevokedForGood ==
    \A t \in Tokens : Exists(t) =>
        /\ tokens'[t].client = tokens[t].client
        /\ tokens'[t].expires = tokens[t].expires
        /\ tokens[t].revoked # Never => tokens'[t].revoked = tokens[t].revoked
=============================================================================
