--------------------------- MODULE ForeignTransport ---------------------------
(***************************************************************************)
(* The host's HTTP transport and secret provider as the egress engine uses *)
(* them (crates/ffi/bondry-egress-ffi/src/transport.rs, secrets.rs).       *)
(*                                                                         *)
(* A request resolves its secret by a synchronous callback, hands the      *)
(* request and one unit of a completion cell to the host, and waits on the *)
(* cell.  The host completes from any thread: during the send itself, long *)
(* after the engine gave the request up, or never.                         *)
(***************************************************************************)
EXTENDS Naturals, Sequences, FiniteSets

-----------------------------------------------------------------------------
(***************************************************************************)
(* The decision whether an established connection may carry a route's      *)
(* bytes (crates/contract/bondry-transport/src/policy.rs, endpoint.rs):    *)
(* TLS to the endpoint's own name, or cleartext to a peer whose address    *)
(* class the route opted into.                                             *)
(*                                                                         *)
(* An address is its bytes.  A host is a record of what the code asks of   *)
(* its spelling; a server name is compared case-insensitively and without  *)
(* trailing dots, so a name stands for its whole equivalence class.        *)
(***************************************************************************)

V4(bytes) == [family |-> 4, bytes |-> bytes]
V6(bytes) == [family |-> 6, bytes |-> bytes]

Zeros(n) == [i \in 1 .. n |-> 0]

(* IpAddress::normalized: ::ffff:a.b.c.d is a.b.c.d *)
Normalized(ip) ==
    IF ip.family = 6 /\ SubSeq(ip.bytes, 1, 12) = Zeros(10) \o <<255, 255>>
    THEN V4(SubSeq(ip.bytes, 13, 16))
    ELSE ip

(* classify_ipv4 *)
ClassifyIpv4(b) ==
    CASE b[1] = 127 -> "loopback"
      [] b = Zeros(4) -> "unspecified"
      [] b[1] = 10 \/ (b[1] = 172 /\ b[2] \in 16 .. 31) \/ (b[1] = 192 /\ b[2] = 168) -> "private"
      [] b[1] = 169 /\ b[2] = 254 -> "link_local"
      [] b[1] = 100 /\ b[2] \in 64 .. 127 -> "carrier_grade_nat"
      [] b[1] \in 224 .. 239 -> "multicast"
      [] SubSeq(b, 1, 3) \in {<<192, 0, 2>>, <<198, 51, 100>>, <<203, 0, 113>>} -> "documentation"
      [] \/ b[1] = 0 \/ b[1] >= 240
         \/ SubSeq(b, 1, 3) \in {<<192, 0, 0>>, <<192, 88, 99>>}
         \/ b[1] = 198 /\ b[2] \in {18, 19} -> "reserved"
      [] OTHER -> "public"

(* classify_ipv6: the masks of the code as ranges of a byte *)
ClassifyIpv6(b) ==
    CASE b = Zeros(15) \o <<1>> -> "loopback"
      [] b = Zeros(16) -> "unspecified"
      [] b[1] \in {252, 253} -> "private"
      [] b[1] = 254 /\ b[2] \in 128 .. 191 -> "link_local"
      [] b[1] = 255 -> "multicast"
      [] SubSeq(b, 1, 4) = <<32, 1, 13, 184>> \/ (b[1] = 63 /\ b[2] = 255 /\ b[3] \in 0 .. 15) ->
            "documentation"
      [] b[1] \notin 32 .. 63 \/ (b[1] = 32 /\ b[2] = 1 /\ b[3] \in {0, 2}) -> "reserved"
      [] OTHER -> "public"

(* classify_ip *)
ClassifyIp(ip) ==
    IF Normalized(ip).family = 4
    THEN ClassifyIpv4(Normalized(ip).bytes)
    ELSE ClassifyIpv6(ip.bytes)

-----------------------------------------------------------------------------
(* An endpoint: its scheme needs TLS or not, its host and its port. *)
Endpoint(tls, host, port) == [tls |-> tls, host |-> host, port |-> port]

(* Spellings of a host.  Only an exact localhost, ::1 and a canonical 127/8 *)
(* literal show loopback intent; anything of digits and dots, or with a     *)
(* colon, looks like a literal.                                             *)
Hosts == {"name", "other_name", "localhost", "localhost_dots", "loopback_v6", "loopback_v4",
          "noncanonical_v4", "private_v4"}

(* loopback_intent *)
LoopbackIntent(host) == host \in {"localhost", "loopback_v6", "loopback_v4"}

(* looks_like_ip_literal *)
LooksLikeIpLiteral(host) ==
    host \in {"loopback_v6", "loopback_v4", "noncanonical_v4", "private_v4"}

(* ConnectionEvidence *)
Missing == [kind |-> "missing"]
Tls(name) == [kind |-> "tls", name |-> name]
Cleartext(ip, port, scope) == [kind |-> "cleartext", ip |-> ip, port |-> port, scope |-> scope]
NoScope == 0

(* The second half of verify_connection *)
VerifyCleartext(policy, endpoint, peer) ==
    LET class == ClassifyIp(peer.ip)
    IN  CASE peer.port # endpoint.port -> "evidence_mismatch"
          [] class = "loopback" ->
                IF \/ LoopbackIntent(endpoint.host)
                   \/ policy.hostnameLoopback /\ ~LooksLikeIpLiteral(endpoint.host)
                THEN "allowed" ELSE "loopback_intent_required"
          [] class = "private" ->
                IF policy.private THEN "allowed" ELSE "private_cleartext_denied"
          [] class = "link_local" ->
                CASE ~policy.linkLocal -> "link_local_cleartext_denied"
                  [] peer.scope = NoScope -> "link_local_scope_required"
                  [] OTHER -> "allowed"
          [] OTHER -> "cleartext_denied"

(* verify_connection *)
VerifyConnection(policy, endpoint, evidence) ==
    CASE evidence.kind = "missing" -> "missing_evidence"
      [] evidence.kind = "tls" /\ endpoint.tls ->
            IF evidence.name = endpoint.host THEN "allowed" ELSE "tls_identity_mismatch"
      [] evidence.kind = "cleartext" /\ ~endpoint.tls -> VerifyCleartext(policy, endpoint, evidence)
      [] OTHER -> "evidence_mismatch"

-----------------------------------------------------------------------------
CONSTANTS
    Requests,
    Ticks,          \* half milliseconds that may be left of a deadline
    Unknown         \* a code no table has

VARIABLES
    stage,      \* what the engine does with the request
    asked,      \* how the host answered the request for the secret
    cell,       \* the completion cell
    units,      \* owners of the cell
    owed,       \* the host has a completion to make
    runnable,   \* the task that waits will be polled
    said,       \* what the host completed with
    result,     \* what the engine got
    timeout     \* milliseconds the host was given, and ticks that were left

vars == <<stage, asked, cell, units, owed, runnable, said, result, timeout>>

-----------------------------------------------------------------------------
(* Completions *)

(* decode_transport_error *)
ErrorCodes ==
    <<"invalid_limits", "unsupported_endpoint", "request_too_large", "response_too_large",
      "missing_evidence", "evidence_mismatch", "tls_identity_mismatch",
      "loopback_intent_required", "private_cleartext_denied", "link_local_cleartext_denied",
      "link_local_scope_required", "cleartext_denied", "redirect_denied",
      "deadline_exceeded", "connection_failed", "tls_failed", "invalid_response",
      "invalid_message">>
DecodeTransportError(code) ==
    IF code \in DOMAIN ErrorCodes THEN ErrorCodes[code] ELSE "invalid_response"

(* BondryConnectionEvidenceV1 as hosts fill it in: a flag byte announces a  *)
(* scope.                                                                   *)
Raw(kind, name, ip, port, flag, scope) ==
    [kind |-> kind, name |-> name, ip |-> ip, port |-> port, flag |-> flag, scope |-> scope]
Nowhere == V4(<<0, 0, 0, 0>>)
Loopback == V4(<<127, 0, 0, 1>>)
RawTls(name) == Raw(1, name, Nowhere, 0, 0, 0)
RawMissing == Raw(0, "", Nowhere, 0, 0, 0)
RawEvidence ==
    {RawMissing, RawTls("name"), RawTls("other_name"), RawTls(""), Raw(2, "", Loopback, 80, 0, 0),
     Raw(2, "", Loopback, 0, 0, 0), Raw(2, "", Loopback, 80, 1, 0), Raw(2, "", Loopback, 80, 2, 4),
     Raw(3, "name", Loopback, 80, 0, 0)}

(* decode_connection, for an address of a known family *)
Undecodable(raw) ==
    \/ raw.kind \notin 0 .. 2
    \/ raw.kind = 1 /\ raw.name = ""
    \/ raw.kind = 2 /\ (raw.port = 0 \/ raw.flag > 1 \/ (raw.flag = 1 /\ raw.scope = 0))
DecodeConnection(raw) ==
    CASE raw.kind = 0 -> Missing
      [] raw.kind = 1 -> Tls(raw.name)
      [] OTHER -> Cleartext(raw.ip, raw.port, IF raw.flag = 1 THEN raw.scope ELSE NoScope)

(* BondryHTTPResultV1: a response, some part of which may be wrong, an      *)
(* error, or a null pointer.                                                *)
Response(fault, raw) == [kind |-> "response", fault |-> fault, raw |-> raw, code |-> 0]
Failure(code) == [kind |-> "error", fault |-> "none", raw |-> RawMissing, code |-> code]
Null == [kind |-> "null", fault |-> "none", raw |-> RawMissing, code |-> 0]
NoCompletion == [kind |-> "none", fault |-> "none", raw |-> RawMissing, code |-> 0]
Completions ==
    {Response("none", raw) : raw \in RawEvidence}
    \cup {Response(fault, RawTls("name")) :
             fault \in {"error_set", "status", "many_headers", "long_headers", "header", "body_size", "body"}}
    \cup {Failure(code) : code \in {4, 15, Unknown}} \cup {Null}

(* parse_result: the error, or "" for a response that is whole *)
ParseError(c) ==
    CASE c.kind = "error" -> DecodeTransportError(c.code)
      [] c.kind = "null" -> "invalid_response"
      [] c.fault \in {"many_headers", "long_headers", "body_size"} -> "response_too_large"
      [] c.fault \in {"error_set", "status", "header", "body"} -> "invalid_response"
      [] Undecodable(c.raw) -> "invalid_response"
      [] OTHER -> ""

(* The request's endpoint and the policy of its route *)
Target == Endpoint(TRUE, "name", 443)
RoutePolicy == [hostnameLoopback |-> FALSE, private |-> FALSE, linkLocal |-> FALSE]

(* Mutated Judged: a response is taken at its word. *)
JudgedUnverified(c) == IF ParseError(c) = "" THEN "response" ELSE ParseError(c)

(* What poll makes of a completion *)
Judged(c) ==
    CASE ParseError(c) # "" -> ParseError(c)
      [] VerifyConnection(RoutePolicy, Target, DecodeConnection(c.raw)) # "allowed" ->
            VerifyConnection(RoutePolicy, Target, DecodeConnection(c.raw))
      [] OTHER -> "response"

-----------------------------------------------------------------------------
(* The secret provider *)

(* What the host does in the callback: the status it returns and the        *)
(* completions it makes before.  One is valid when parse_secret takes its   *)
(* lengths and its rotation flag.                                           *)
Answers ==
    [status : {"ok", "not_found", "unavailable", Unknown},
     calls : UNION {[1 .. n -> {"valid", "invalid"}] : n \in 0 .. 2}]
NotAsked == [status |-> "not_asked", calls |-> <<>>]

(* complete_secret: a second completion spoils the first. *)
Completed(calls) ==
    CASE calls = <<>> -> "pending"
      [] Len(calls) = 1 -> calls[1]
      [] OTHER -> "invalid"

(* ForeignSecretProvider::resolve *)
Resolved(a) ==
    CASE a.status = "ok" -> IF Completed(a.calls) = "valid" THEN "secret" ELSE "invalid_material"
      [] a.status \in {"not_found", "unavailable"} -> a.status
      [] OTHER -> "invalid_material"

-----------------------------------------------------------------------------
Stages == {"new", "resolved", "sending", "waiting", "ended"}
Results ==
    {"none", "response", "not_found", "unavailable", "invalid_material"}
    \cup {ErrorCodes[i] : i \in DOMAIN ErrorCodes}

(* Types.  A cell holds the host's completion until it is consumed, and a   *)
(* cell nobody has completed holds none (transport.rs:356-389).             *)
TypeOK ==
    /\ stage \in [Requests -> Stages]
    /\ asked \in [Requests -> Answers \cup {NotAsked}]
    /\ cell \in [Requests -> {"pending", "waiting", "ready", "consumed"}]
    /\ units \in [Requests -> 0 .. 2]
    /\ result \in [Requests -> Results]
    /\ \A r \in Requests : cell[r] \in {"ready", "consumed"} <=> said[r] # NoCompletion

Init ==
    /\ stage = [r \in Requests |-> "new"]
    /\ asked = [r \in Requests |-> NotAsked]
    /\ cell = [r \in Requests |-> "pending"]
    /\ units = [r \in Requests |-> 0]
    /\ owed = [r \in Requests |-> FALSE]
    /\ runnable = [r \in Requests |-> FALSE]
    /\ said = [r \in Requests |-> NoCompletion]
    /\ result = [r \in Requests |-> "none"]
    /\ timeout = [r \in Requests |-> [ms |-> 0, left |-> 0]]

Ends(r, answer) ==
    /\ stage' = [stage EXCEPT ![r] = "ended"]
    /\ result' = [result EXCEPT ![r] = answer]

(* The secret the request needs, resolved before the request is built *)
Resolve(r, a) ==
    /\ stage[r] = "new"
    /\ asked' = [asked EXCEPT ![r] = a]
    /\ IF Resolved(a) = "secret"
       THEN stage' = [stage EXCEPT ![r] = "resolved"] /\ UNCHANGED result
       ELSE Ends(r, Resolved(a))
    /\ UNCHANGED <<cell, units, owed, runnable, said, timeout>>

(* remaining_timeout_milliseconds, of half milliseconds *)
RemainingTimeoutMilliseconds(left) == (left + 1) \div 2

(* ForeignHttpTransport::send, up to the host's callback.  The engine and   *)
(* the host own one unit of the cell each.                                  *)
Send(r, left) ==
    /\ stage[r] = "resolved"
    /\ IF left = 0
       THEN Ends(r, "deadline_exceeded") /\ UNCHANGED <<units, owed, timeout>>
       ELSE /\ stage' = [stage EXCEPT ![r] = "sending"]
            /\ units' = [units EXCEPT ![r] = 2]
            /\ owed' = [owed EXCEPT ![r] = TRUE]
            /\ timeout' = [timeout EXCEPT ![r] =
                             [ms |-> RemainingTimeoutMilliseconds(left), left |-> left]]
            /\ UNCHANGED result
    /\ UNCHANGED <<asked, cell, runnable, said>>

(* The callback returns STATUS_OK: the future is made and polled. *)
Accepted(r) ==
    /\ stage[r] = "sending"
    /\ stage' = [stage EXCEPT ![r] = "waiting"]
    /\ runnable' = [runnable EXCEPT ![r] = TRUE]
    /\ UNCHANGED <<asked, cell, units, owed, said, result, timeout>>

(* The callback returns another status; it may not have completed, so the   *)
(* engine takes both units back.                                            *)
Rejected(r) ==
    /\ stage[r] = "sending"
    /\ owed[r]
    /\ owed' = [owed EXCEPT ![r] = FALSE]
    /\ units' = [units EXCEPT ![r] = 0]
    /\ Ends(r, "connection_failed")
    /\ UNCHANGED <<asked, cell, runnable, said, timeout>>

(* complete_http and CompletionState::complete, on any thread of the host,  *)
(* as early as within the send and as late as after the future is gone.     *)
Complete(r, c) ==
    /\ owed[r]
    /\ owed' = [owed EXCEPT ![r] = FALSE]
    /\ units' = [units EXCEPT ![r] = @ - 1]
    /\ cell' = [cell EXCEPT ![r] = "ready"]
    /\ said' = [said EXCEPT ![r] = c]
    /\ runnable' = [runnable EXCEPT ![r] = @ \/ cell[r] = "waiting"]
    /\ UNCHANGED <<stage, asked, result, timeout>>

(* ForeignTransportFuture::poll.  A ready future is dropped with its unit. *)
Poll(r) ==
    /\ stage[r] = "waiting"
    /\ runnable[r]
    /\ runnable' = [runnable EXCEPT ![r] = FALSE]
    /\ IF cell[r] = "ready"
       THEN /\ cell' = [cell EXCEPT ![r] = "consumed"]
            /\ units' = [units EXCEPT ![r] = @ - 1]
            /\ Ends(r, Judged(said[r]))
       ELSE /\ cell' = [cell EXCEPT ![r] = "waiting"]
            /\ UNCHANGED <<stage, units, result>>
    /\ UNCHANGED <<asked, owed, said, timeout>>

(* Another future of the same task wakes it: the next poll leaves a new     *)
(* waker in the cell.                                                       *)
Stir(r) ==
    /\ stage[r] = "waiting"
    /\ ~runnable[r]
    /\ runnable' = [runnable EXCEPT ![r] = TRUE]
    /\ UNCHANGED <<stage, asked, cell, units, owed, said, result, timeout>>

(* The engine's own deadline drops the future. *)
GiveUp(r) ==
    /\ stage[r] = "waiting"
    /\ Ends(r, "deadline_exceeded")
    /\ units' = [units EXCEPT ![r] = @ - 1]
    /\ runnable' = [runnable EXCEPT ![r] = FALSE]
    /\ UNCHANGED <<asked, cell, owed, said, timeout>>

Next ==
    \E r \in Requests :
        \/ \E a \in Answers : Resolve(r, a)
        \/ \E left \in Ticks : Send(r, left)
        \/ Accepted(r)
        \/ Rejected(r)
        \/ \E c \in Completions : Complete(r, c)
        \/ Poll(r)
        \/ Stir(r)
        \/ GiveUp(r)

Spec == Init /\ [][Next]_vars

-----------------------------------------------------------------------------
(* Who owns the cell is who can still reach it: the future, as long as the  *)
(* engine waits, and the host, as long as it owes the completion.  A late   *)
(* completion finds the cell alive and frees it; a rejected send or an      *)
(* abandoned request leaks none (transport.rs:320-343, 438-459).            *)
UnitsBalanced ==
    \A r \in Requests :
        units[r] = (IF stage[r] \in {"sending", "waiting"} THEN 1 ELSE 0)
                   + (IF owed[r] THEN 1 ELSE 0)

(* Nothing reaches the network without its secret: the provider said OK and *)
(* delivered exactly one well-formed secret in that call                    *)
(* (secrets.rs:99-121, 129-160).                                            *)
SecretDelivered ==
    \A r \in Requests :
        stage[r] \in {"resolved", "sending", "waiting"} \/ owed[r] \/ said[r] # NoCompletion =>
            asked[r] = [status |-> "ok", calls |-> <<"valid">>]

(* A response reaches the engine only if the host completed it whole, and   *)
(* over a connection that authenticated the endpoint's name: evidence that  *)
(* is missing, malformed or of another connection never passes              *)
(* (transport.rs:401-435, 461-554).                                         *)
ResponseProven ==
    \A r \in Requests :
        result[r] = "response" =>
            said[r] = Response("none", RawTls("name"))

(* The host is never told to give up before the engine's deadline, nor      *)
(* given a zero timeout, and at most a millisecond more than is left        *)
(* (transport.rs:270-308, 347-349).                                         *)
HostHasTime ==
    \A r \in Requests :
        stage[r] \in {"sending", "waiting"} =>
            /\ timeout[r].ms > 0
            /\ 2 * timeout[r].ms >= timeout[r].left
            /\ 2 * (timeout[r].ms - 1) < timeout[r].left

(* No wake-up is lost: whenever the host completes - before the first poll, *)
(* between two polls, while the waker is replaced - the request ends        *)
(* (transport.rs:373-388, 401-435).                                         *)
Said(r) == stage[r] \in {"sending", "waiting"} /\ ~owed[r]
Ended(r) == stage[r] = "ended"
-----------------------------------------------------------------------------
(* The policy over addresses at the edges of every range, in both their     *)
(* IPv4 and their IPv4-mapped form, and over every combination of endpoint, *)
(* opt-ins and evidence for one address of each class.  The reference is a  *)
(* table of address prefixes, from the published ranges the code's comments *)
(* name.                                                                    *)

Policies == [hostnameLoopback : BOOLEAN, private : BOOLEAN, linkLocal : BOOLEAN]
Mapped(bytes) == V6(Zeros(10) \o <<255, 255>> \o bytes)

EdgeBytes ==
    {<<a, b, c, d>> :
        a \in {0, 9, 10, 100, 127, 128, 169, 172, 192, 198, 203, 223, 224, 239, 240, 255},
        b \in {0, 15, 16, 18, 19, 31, 32, 51, 63, 64, 88, 127, 128, 168, 254},
        c \in {0, 2, 99, 100, 113}, d \in {0, 1}}
EdgeV6 ==
    {<<a, b, c, d>> \o Zeros(11) \o <<e>> :
        a \in {0, 31, 32, 63, 64, 251, 252, 253, 254, 255}, b \in {0, 1, 127, 128, 191, 192, 255},
        c \in {0, 2, 13, 15, 16}, d \in {0, 184}, e \in {0, 1}}
OfEachClass ==
    {V4(<<127, 0, 0, 1>>), V4(<<10, 0, 0, 1>>), V4(<<169, 254, 1, 1>>), V4(<<8, 8, 8, 8>>),
     V4(<<100, 64, 0, 1>>), Mapped(<<127, 0, 0, 1>>), Mapped(<<192, 168, 0, 1>>),
     V6(Zeros(15) \o <<1>>), V6(<<254, 128>> \o Zeros(13) \o <<1>>),
     V6(<<253>> \o Zeros(14) \o <<1>>)}

OptedIn == [hostnameLoopback |-> TRUE, private |-> TRUE, linkLocal |-> TRUE]
Connection(endpoint, policy, evidence) ==
    [endpoint |-> endpoint, policy |-> policy, evidence |-> evidence]

(* Evidence of a connection to an endpoint the program builds *)
Claims ==
    {Missing, Tls("name"), Tls("other_name")}
    \cup {Cleartext(ip, port, scope) : ip \in OfEachClass, port \in {80, 81}, scope \in {NoScope, 4}}
Connections ==
    {Connection(Endpoint(FALSE, "name", 80), OptedIn, Cleartext(ip, 80, NoScope)) :
        ip \in {V4(b) : b \in EdgeBytes} \cup {Mapped(b) : b \in EdgeBytes} \cup {V6(b) : b \in EdgeV6}}
    \cup {Connection(Endpoint(tls, host, 80), policy, evidence) :
        tls \in BOOLEAN, host \in Hosts, policy \in Policies, evidence \in Claims}

(* Prefixes: leading bytes, how many bits of the last one count, the class. *)
V4Prefixes ==
    << <<<<127>>, 8, "loopback">>, <<<<0, 0, 0, 0>>, 8, "unspecified">>,
       <<<<10>>, 8, "private">>, <<<<172, 16>>, 4, "private">>, <<<<192, 168>>, 8, "private">>,
       <<<<169, 254>>, 8, "link_local">>, <<<<100, 64>>, 2, "carrier_grade_nat">>,
       <<<<224>>, 4, "multicast">>, <<<<192, 0, 2>>, 8, "documentation">>,
       <<<<198, 51, 100>>, 8, "documentation">>, <<<<203, 0, 113>>, 8, "documentation">>,
       <<<<0>>, 8, "reserved">>, <<<<240>>, 4, "reserved">>, <<<<192, 0, 0>>, 8, "reserved">>,
       <<<<192, 88, 99>>, 8, "reserved">>, <<<<198, 18>>, 7, "reserved">> >>
V6Prefixes ==
    << <<Zeros(15) \o <<1>>, 8, "loopback">>, <<Zeros(16), 8, "unspecified">>,
       <<<<252>>, 7, "private">>, <<<<254, 128>>, 2, "link_local">>, <<<<255>>, 8, "multicast">>,
       <<<<32, 1, 13, 184>>, 8, "documentation">>, <<<<63, 255, 0>>, 4, "documentation">>,
       <<<<32, 1, 0>>, 8, "reserved">>, <<<<32, 1, 2>>, 8, "reserved">>,
       <<<<32>>, 3, "public">> >>

HasPrefix(bytes, p) ==
    LET n == Len(p[1])
        unit == 2 ^ (8 - p[2])
    IN  /\ SubSeq(bytes, 1, n - 1) = SubSeq(p[1], 1, n - 1)
        /\ bytes[n] \div unit = p[1][n] \div unit

ClassInTable(bytes, table, otherwise) ==
    LET hits == SelectSeq(table, LAMBDA p : HasPrefix(bytes, p))
    IN  IF hits = <<>> THEN otherwise ELSE Head(hits)[3]

V4Class(bytes) == ClassInTable(bytes, V4Prefixes, "public")
TrueClass(ip) ==
    IF ip.family = 4 THEN V4Class(ip.bytes)
    ELSE IF SubSeq(ip.bytes, 1, 12) = Zeros(10) \o <<255, 255>> THEN V4Class(SubSeq(ip.bytes, 13, 16))
    ELSE ClassInTable(ip.bytes, V6Prefixes, "reserved")

(* classify_ip gives an address the class of its first prefix in the table  *)
(* of published ranges, at both edges of each range, and an IPv4-mapped     *)
(* IPv6 address the class of the IPv4 address in it (policy.rs:231-286, 414-480).    *)
ClassesAreRanges(input) ==
    input.evidence.kind = "cleartext" =>
        ClassifyIp(input.evidence.ip) = TrueClass(input.evidence.ip)

(* Cleartext goes only where the endpoint or an opt-in of the route says:   *)
(* a loopback peer for a loopback endpoint or an opted-in name, a private   *)
(* peer by opt-in, a link-local peer by opt-in and with its interface; to   *)
(* no other peer under any policy, and never for an endpoint with TLS       *)
(* (policy.rs:148-201).                                                     *)
CleartextOnlyWhereMeant(input, answer) ==
    answer = "allowed" /\ input.evidence.kind = "cleartext" =>
        /\ ~input.endpoint.tls
        /\ input.evidence.port = input.endpoint.port
        /\ LET class == TrueClass(input.evidence.ip)
           IN  \/ class = "loopback" /\ (input.policy.hostnameLoopback \/ LoopbackIntent(input.endpoint.host))
               \/ class = "private" /\ input.policy.private
               \/ class = "link_local" /\ input.policy.linkLocal /\ input.evidence.scope # NoScope

(* An endpoint with TLS is reached only over TLS to its own name, and a     *)
(* cleartext endpoint never on the strength of TLS evidence                 *)
(* (policy.rs:154-166).                                                     *)
NameProven(input, answer) ==
    answer = "allowed" /\ (input.endpoint.tls \/ input.evidence.kind = "tls") =>
        input.endpoint.tls /\ input.evidence = Tls(input.endpoint.host)

(* An opt-in only opens: what a policy allows, every policy with more       *)
(* opt-ins allows.  Without any opt-in an endpoint with loopback intent is  *)
(* still served (policy.rs:176-200).                                        *)
OptInsOnlyOpen(input, answer) ==
    answer = "allowed" =>
        \A wider \in Policies :
            (\A flag \in DOMAIN wider : input.policy[flag] => wider[flag]) =>
                VerifyConnection(wider, input.endpoint, input.evidence) = "allowed"
=============================================================================
