----------------------------- MODULE RuntimeAbi -----------------------------
(***************************************************************************)
(* The store handle of the runtime's C ABI and its administrative calls    *)
(* (crates/ffi/bondry-runtime-ffi/src/lib.rs, auth.rs, grants.rs, audit.rs,*)
(* records.rs, automation_service.rs).                                     *)
(*                                                                         *)
(* An entry point is the sequence of its steps: pointer tests, parsing,    *)
(* clearing the output, the operation, writing the answer.  The host's     *)
(* input may overlap its output record.  Other components own units of the *)
(* handle, and another thread adds records while the host lists them.      *)
(***************************************************************************)
EXTENDS Naturals, Sequences, FiniteSets

CONSTANTS
    Components,     \* owners of the handle besides the host
    MaxRows         \* bound on the records a list shows

VARIABLES
    strong,     \* the strong count of the handle's Arc
    owners,     \* who has a unit of it to close
    rows,       \* records in the store
    call,       \* the host's call
    listing     \* the list the host asks for until it has it

vars == <<strong, owners, rows, call, listing>>

Parse == <<"null", "length", "utf8", "valid">>

(* The steps of every entry point, in the code's order. *)
Opening == <<"out", "clear", "null", "length", "key", "utf8", "valid", "run", "write">>
Creating == <<"out", "null", "length", "utf8", "clear", "valid", "handle", "run", "write">>
Enabling == <<"handle", "flag">> \o Parse \o <<"run">>
Issuing == <<"out", "handle", "flag">> \o Parse \o <<"clear", "run", "write">>
Revoking == <<"out", "handle">> \o Parse \o <<"clear", "run", "write">>
Authenticating == <<"out", "handle", "null", "length", "utf8", "run", "clear", "write">>

Granting == <<"out", "handle">> \o Parse \o <<"clear", "run", "write">>
ListingClients == <<"out", "count", "handle", "run", "records">>
ListingTokens == <<"out", "count", "handle">> \o Parse \o <<"run", "records">>
ListingGrants == <<"out", "count", "handle">> \o Parse \o <<"run", "records">>
ListingAudit == <<"out", "count", "handle", "flag">> \o Parse \o <<"run", "convert", "records">>
Checking == <<"handle", "run">>

Entry(op) ==
    CASE op = "open" -> Opening
      [] op = "create" -> Creating
      [] op = "set_enabled" -> Enabling
      [] op \in {"issue", "rotate"} -> Issuing
      [] op = "revoke" -> Revoking
      [] op = "authenticate" -> Authenticating
      [] op \in {"grant_add", "grant_remove"} -> Granting
      [] op = "clients" -> ListingClients
      [] op = "tokens" -> ListingTokens
      [] op = "grants" -> ListingGrants
      [] op = "audit" -> ListingAudit
      [] op = "check" -> Checking

Lists == {"clients", "tokens", "grants", "audit"}
Plain == {"set_enabled", "check"}
Operations == Lists \cup Plain \cup
    {"open", "create", "issue", "rotate", "revoke", "authenticate", "grant_add", "grant_remove"}

(* What the store and the manager may answer, and the status it becomes. *)
StoreErrorStatus ==
    [FileSystem |-> "file_system", Database |-> "database",
     UnsupportedSchema |-> "unsupported_schema", InvalidKey |-> "invalid_database_key",
     InvalidData |-> "invalid_data", Unavailable |-> "unavailable"]
ClientErrorStatus ==
    [NotFound |-> "not_found", EntropyUnavailable |-> "entropy_unavailable",
     GenerationExhausted |-> "generation_exhausted", TimeUnavailable |-> "time_unavailable",
     StorageUnavailable |-> "unavailable"]
TokenErrorStatus ==
    [ClientNotFound |-> "not_found", NotFound |-> "not_found",
     ClientDisabled |-> "client_disabled", Inactive |-> "token_inactive",
     InvalidLifetime |-> "invalid_token_lifetime", EntropyUnavailable |-> "entropy_unavailable",
     GenerationExhausted |-> "generation_exhausted", TimeUnavailable |-> "time_unavailable",
     StorageUnavailable |-> "unavailable"]
Images(table) == {table[error] : error \in DOMAIN table}

Failures(op) ==
    CASE op \in {"open", "check", "audit"} -> Images(StoreErrorStatus)
      [] op \in {"create", "set_enabled", "clients"} -> Images(ClientErrorStatus)
      [] op \in {"issue", "rotate", "revoke", "tokens"} -> Images(TokenErrorStatus)
      [] op = "authenticate" -> {"authentication_rejected", "unavailable"}
      [] OTHER -> {"unavailable"}

-----------------------------------------------------------------------------
(* A call *)

(* out: the output's content, "null" when the pointer is.  text: the input.  *)
(* given: what the operation was given.  taken: the records it found.        *)
Texts == {"absent", "null", "long", "malformed", "invalid", "good"}
Outputs == {"null", "stale", "zero", "written"}
Statuses == {"none", "ok", "null_pointer", "invalid_length", "invalid_utf8", "invalid_path",
             "invalid_argument", "buffer_too_small", "internal_failure",
             "authentication_rejected"}
            \cup Images(StoreErrorStatus) \cup Images(ClientErrorStatus)
            \cup Images(TokenErrorStatus)
NoCall == [op |-> "check", left |-> <<>>, out |-> "null", text |-> "absent", flag |-> FALSE,
           handle |-> FALSE, alias |-> FALSE, given |-> "none", capacity |-> 0, count |-> 0,
           taken |-> 0, status |-> "none"]

(* Types: the strong count is the number of units still to be closed, so    *)
(* the handle is freed by the last close and not before (lib.rs:215-290,    *)
(* automation_service.rs:83-160).                                           *)
TypeOK ==
    /\ strong = Cardinality(owners)
    /\ owners \subseteq Components \cup {"host"}
    /\ rows \in 0 .. MaxRows
    /\ call.op \in Operations
    /\ call.out \in Outputs
    /\ call.text \in Texts \cup {"zeroed"}
    /\ call.status \in Statuses
    /\ {call.count, call.capacity, call.taken} \subseteq 0 .. MaxRows
    /\ listing \in Lists \cup {"none"}

Init ==
    /\ strong = 0
    /\ owners = {}
    /\ rows = 0
    /\ call = NoCall
    /\ listing = "none"

Busy == call.left # <<>>
Returned == ~Busy /\ call.status # "none"
Has(op, step) == \E i \in DOMAIN Entry(op) : Entry(op)[i] = step

(* What is left of a call that has returned. *)
Returns(out, count, status) ==
    call' = [NoCall EXCEPT !.op = call.op, !.out = out, !.given = call.given, !.count = count,
                           !.capacity = call.capacity, !.taken = call.taken, !.status = status]

(* The host calls: with any pointer null, any input, and an output record    *)
(* that may overlap the input.                                               *)
Begin(op, out, text, flag, handle, alias, capacity) ==
    /\ listing = "none"
    /\ op = "open" => "host" \notin owners
    /\ handle /\ Has(op, "handle") => "host" \in owners
    /\ alias => op \notin Lists \cup Plain \cup {"open"} /\ out # "null"
    /\ op \in Plain => out = "null"
    /\ capacity > 0 => op \in Lists
    /\ text = "absent" \/ Has(op, "null")
    /\ flag \/ Has(op, "flag") \/ Has(op, "key")
    /\ handle \/ Has(op, "handle")
    /\ call' = [NoCall EXCEPT !.op = op, !.left = Entry(op), !.out = out, !.text = text,
                              !.flag = flag, !.handle = handle, !.alias = alias,
                              !.capacity = capacity]
    /\ UNCHANGED <<strong, owners, rows, listing>>

ListCall(op, capacity) ==
    [NoCall EXCEPT !.op = op, !.left = Entry(op), !.out = IF capacity = 0 THEN "null" ELSE "stale",
                   !.text = "good", !.flag = TRUE, !.handle = TRUE, !.capacity = capacity]

(* The host lists: it asks for the count, then for that many records, and    *)
(* again when they have become more.                                         *)
ListBegin(op) ==
    /\ call = NoCall
    /\ listing = "none"
    /\ "host" \in owners
    /\ listing' = op
    /\ call' = ListCall(op, 0)
    /\ UNCHANGED <<strong, owners, rows>>

Unlisted == call.status = "buffer_too_small" \/ (call.status = "ok" /\ call.capacity < call.count)

(* The host has read the answer. *)
Read ==
    /\ Returned
    /\ listing = "none"
    /\ call' = NoCall
    /\ UNCHANGED <<strong, owners, rows, listing>>

ListNext ==
    /\ ~Busy
    /\ listing # "none"
    /\ IF Unlisted THEN call' = ListCall(listing, call.count) /\ UNCHANGED listing
                   ELSE listing' = "none" /\ UNCHANGED call
    /\ UNCHANGED <<strong, owners, rows>>

Step(name) == Busy /\ Head(call.left) = name

Goes(changed) == call' = [changed EXCEPT !.left = Tail(@)]

(* An early return; an output record is cleared by then. *)
Refused(status) ==
    Returns(IF call.out = "null" \/ call.op \in Lists THEN call.out ELSE "zero", call.count, status)

(* A pointer test, or a value test: go on, or answer. *)
Tests(name, passes, status) ==
    /\ Step(name)
    /\ IF passes THEN Goes(call) ELSE Refused(status)
    /\ UNCHANGED <<strong, owners, rows, listing>>

(* out_x.is_null().  The count of a list is a pointer of its own. *)
TestOut ==
    /\ Step("out")
    /\ \/ (call.out # "null" \/ call.op \in Lists) /\ Goes(call)
       \/ (call.out = "null" \/ call.op \in Lists)
            /\ Returns(call.out, call.count, "null_pointer")
    /\ UNCHANGED <<strong, owners, rows, listing>>

(* store_handle *)
TestHandle == Tests("handle", call.handle, "null_pointer")

(* required_utf8, optional_utf8 *)
Optional == call.op = "audit"
TestNull == Tests("null", call.text # "null" /\ (call.text = "absent" => Optional), "null_pointer")
TestLength == Tests("length", call.text # "long", "invalid_length")
(* What is parsed is a copy, except for a token that is authenticated. *)
TestUtf8 ==
    /\ Step("utf8")
    /\ IF call.text = "malformed" THEN Refused("invalid_utf8")
       ELSE Goes([call EXCEPT !.given = IF call.op = "authenticate" THEN @ ELSE call.text])
    /\ UNCHANGED <<strong, owners, rows, listing>>

(* The identifier, the name or the path. *)
TestValid ==
    /\ Step("valid")
    /\ IF call.given \in {"good", "absent"}
       THEN Goes(call)
       ELSE Refused(IF call.op = "open" THEN "invalid_path" ELSE "invalid_argument")
    /\ UNCHANGED <<strong, owners, rows, listing>>

(* The key's length; the flag, the limit or the lifetime and the label. *)
TestKey == Tests("key", call.flag, "invalid_length")
TestFlag ==
    /\ Step("flag")
    /\ \/ call.flag /\ Goes(call)
       \/ ~call.flag /\ \E status \in {"invalid_argument"} \cup
                IF call.op \in {"issue", "rotate"}
                THEN {"null_pointer", "invalid_length", "invalid_utf8"} ELSE {} : Refused(status)
    /\ UNCHANGED <<strong, owners, rows, listing>>

(* Zeroes the output record, and the input where they overlap. *)
Clear ==
    /\ Step("clear")
    /\ Goes([call EXCEPT !.out = "zero",
                         !.text = IF call.alias /\ @ = "good" THEN "zeroed" ELSE @])
    /\ UNCHANGED <<strong, owners, rows, listing>>

ZeroCount ==
    /\ Step("count")
    /\ Goes([call EXCEPT !.count = 0])
    /\ UNCHANGED <<strong, owners, rows, listing>>

(* The rows of one query, under the connection's lock *)
Found(op) == IF op \in Lists THEN rows ELSE 0

(* The operation: it succeeds, fails, or panics and is caught. *)
Run ==
    /\ Step("run")
    /\ \/ /\ IF Len(call.left) = 1 THEN Returns(call.out, call.count, "ok")
             ELSE Goes([call EXCEPT !.taken = Found(call.op),
                                    !.given = IF call.op = "authenticate" THEN call.text ELSE @])
          /\ IF call.op = "open" THEN strong' = strong + 1 /\ owners' = owners \cup {"host"}
                                 ELSE UNCHANGED <<strong, owners>>
       \/ /\ \E status \in Failures(call.op) : Refused(status)
          /\ UNCHANGED <<strong, owners>>
       \/ /\ Returns(call.out, call.count, "internal_failure")
          /\ UNCHANGED <<strong, owners>>
    /\ UNCHANGED <<rows, listing>>

(* BondryAuditEventV1::try_from_stored *)
Convert ==
    /\ Step("convert")
    /\ \/ Goes(call) \/ Refused("invalid_data")
    /\ UNCHANGED <<strong, owners, rows, listing>>

Write ==
    /\ Step("write")
    /\ Returns("written", call.count, "ok")
    /\ UNCHANGED <<strong, owners, rows, listing>>

(* write_records: all of them or none; the count always. *)
WriteRecords ==
    /\ Step("records")
    /\ \/ /\ call.out = "null"
          /\ Returns("null", call.taken, IF call.capacity = 0 THEN "ok" ELSE "null_pointer")
       \/ /\ call.out # "null"
          /\ call.capacity < call.taken
          /\ Returns(call.out, call.taken, "buffer_too_small")
       \/ /\ call.out # "null"
          /\ call.capacity >= call.taken
          /\ Returns("written", call.taken, "ok")
    /\ UNCHANGED <<strong, owners, rows, listing>>

-----------------------------------------------------------------------------
(* Ownership, and the other thread *)

(* bondry_store_retain_v1, for a component the host hands the handle to *)
Retain(c) ==
    /\ "host" \in owners
    /\ c \notin owners
    /\ strong' = strong + 1
    /\ owners' = owners \cup {c}
    /\ UNCHANGED <<rows, call, listing>>

(* bondry_automation_service_v1: the descriptor's context is a unit. *)
DeriveService(c) ==
    /\ "host" \in owners
    /\ c \notin owners
    /\ strong' = strong + 1
    /\ owners' = owners \cup {c}
    /\ UNCHANGED <<rows, call, listing>>

(* The descriptor's retain callback: a context begets another. *)
RetainContext(c, d) ==
    /\ c \in owners
    /\ d \notin owners
    /\ strong' = strong + 1
    /\ owners' = owners \cup {d}
    /\ UNCHANGED <<rows, call, listing>>

(* bondry_store_close_v1, the release callback *)
Close(c) ==
    /\ c \in owners
    /\ c = "host" => ~Busy /\ listing = "none"
    /\ strong' = strong - 1
    /\ owners' = owners \ {c}
    /\ rows' = IF strong' = 0 THEN 0 ELSE rows
    /\ UNCHANGED <<call, listing>>

(* Another owner of the handle adds a record. *)
Insert ==
    /\ owners \ {"host"} # {}
    /\ rows < MaxRows
    /\ rows' = rows + 1
    /\ UNCHANGED <<strong, owners, call, listing>>

CallStep ==
    \/ TestOut \/ TestHandle \/ TestNull \/ TestLength \/ TestUtf8 \/ TestValid
    \/ TestKey \/ TestFlag \/ Clear \/ ZeroCount \/ Run \/ Convert \/ Write \/ WriteRecords

Next ==
    \/ /\ call = NoCall
       /\ \E op \in Operations, out \in {"null", "stale"}, text \in Texts, flag \in BOOLEAN,
             handle \in BOOLEAN, alias \in BOOLEAN, capacity \in 0 .. MaxRows :
             Begin(op, out, text, flag, handle, alias, capacity)
    \/ \E op \in Lists : ListBegin(op)
    \/ Read \/ ListNext \/ CallStep \/ Insert
    \/ \E c \in Components : Retain(c) \/ DeriveService(c) \/ \E d \in Components : RetainContext(c, d)
    \/ \E c \in Components \cup {"host"} : Close(c)

Spec == Init /\ [][Next]_vars

-----------------------------------------------------------------------------
(* Properties *)

(* The status says what the output holds: it is written exactly when the    *)
(* status is ok, and after any other answer but a caught panic nothing the  *)
(* host had in it is left to be taken for an answer (auth.rs, grants.rs).   *)
OutputTold ==
    Returned /\ call.out # "null" =>
        /\ call.status = "ok" <=> call.out = "written"
        /\ call.out = "stale" => call.status = "internal_failure" \/ call.op \in Lists

(* An output that overlaps an input is cleared only after the input has     *)
(* been read for the last time ("input parsing no longer borrows its        *)
(* memory").                                                                *)
InputsIntact == call.given # "zeroed"

(* A list is one moment of the store, whole: what is written is as many     *)
(* records as the store had when it was read, and the count says how many   *)
(* there are whether they were written or not (write_records).              *)
ListExact ==
    Returned /\ call.op \in Lists /\ call.status \in {"ok", "buffer_too_small"} =>
        /\ call.count = call.taken
        /\ call.out = "written" => call.capacity >= call.taken

(* A host that lists gets its list, or an error, although the records       *)
(* become more between its calls.                                           *)
Listed == listing = "none"
=============================================================================
