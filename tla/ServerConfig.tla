---------------------------- MODULE ServerConfig ----------------------------
(***************************************************************************)
(* What a local server may be started with: the four configurations of     *)
(* crates/ffi/bondry-local-server-ffi/src/lib.rs, the checked builders and *)
(* the exposure rules of crates/engine/bondry-http-server/src              *)
(* (configuration.rs, tls.rs, raw_body.rs, unix_socket.rs, server.rs).     *)
(*                                                                         *)
(* Each state holds one configuration and, once it was tried, its status.  *)
(***************************************************************************)
EXTENDS Integers, Sequences, FiniteSets

CONSTANT None

VARIABLES input, status

vars == <<input, status>>

Kinds == {"http", "rest", "tls", "unix"}

(* Numeric settings and their largest, least and ordinary values (times in  *)
(* milliseconds).  The ordinary raw-body limits are the default ones.       *)
Maximum ==
    [requests |-> 60000, failures |-> 60000, body |-> 8388608,
     connections |-> 1024, header |-> 300000, request |-> 300000,
     grace |-> 300000, handshake |-> 60000, certificates |-> 262144,
     key |-> 65536, retained |-> 33554432, drain |-> 60000]
Settings == DOMAIN Maximum
RawBodySettings == {"retained", "drain"}
TlsSettings == {"handshake", "certificates", "key"}
NetworkSettings == TlsSettings \cup {"failures"}
Least == [s \in Settings |-> CASE s = "retained" -> 1048576
                               [] s = "drain" -> 1000
                               [] OTHER -> 1]
Ordinary == [Least EXCEPT !.retained = 8388608, !.drain = 10000]

(* The settings a kind of server reads. *)
Reads(kind) ==
    CASE kind = "http" -> Settings \ TlsSettings
      [] kind = "rest" -> Settings \ (TlsSettings \cup RawBodySettings)
      [] kind = "tls"  -> Settings \ RawBodySettings
      [] kind = "unix" -> Settings \ (NetworkSettings \cup RawBodySettings)

(* bind: where the address or the socket's path points, or that it is not   *)
(* one; origins: one allowed origin, none, or one that is not an origin.    *)
(* odd: the setting that is not at its ordinary value, but at an edge;      *)
(* raw_body_limits is given when the odd setting is one of them.            *)
Configuration ==
    [kind : Kinds, version : BOOLEAN,
     bind : {"loopback", "network", "unparsed"},
     mode : {"bearer", "disabled"}, principal : {"none", "valid", "invalid"},
     kindGiven : BOOLEAN,
     origins : {"none", "one", "invalid"}, odd : Settings, edge : {"below", "largest", "beyond"},
     cleartext : BOOLEAN, unauthenticated : BOOLEAN,
     adapters : {<<>>, <<"rest">>, <<"mcp">>, <<"rest", "mcp">>, <<"rest", "rest">>,
                 <<"mcp", "rest", "mcp">>},
     mcpServer : {"none", "valid", "invalid"},
     listen : {"ok", "bind", "start"}]

(* Fields a kind does not have are at a fixed value; a wrong version and a   *)
(* listener that fails are tried with one setting at its limit.             *)
WellFormed(c) ==
    /\ c.odd \in Reads(c.kind)
    /\ c.kind # "http" => c.adapters = <<"rest">> /\ c.mcpServer = "none"
    /\ c.kind \in {"tls", "unix"} => ~c.cleartext
    /\ c.kind = "unix" =>
          /\ c.bind # "network" /\ c.mode = "disabled" /\ c.kindGiven
          /\ c.principal # "none" /\ c.origins = "none" /\ ~c.unauthenticated
    /\ ~c.version \/ c.listen # "ok" => c.edge = "largest" /\ c.odd = "requests"

Value(c, setting) ==
    IF setting = c.odd
    THEN CASE c.edge = "below" -> Least[setting] - 1
           [] c.edge = "largest" -> Maximum[setting]
           [] c.edge = "beyond" -> Maximum[setting] + 1
    ELSE Ordinary[setting]

-----------------------------------------------------------------------------
(* RateLimits::new, with_max_body_bytes, with_max_connections,             *)
(* with_timeouts, validate_material, RawBodyServerLimits::new: what is not  *)
(* refused.                                                                 *)
InRange(c, setting) ==
    Value(c, setting) >= Least[setting] /\ Value(c, setting) <= Maximum[setting]

RateLimitsNew(c) ==
    InRange(c, "requests") /\ (c.kind # "unix" => InRange(c, "failures"))
WithMaxBodyBytes(c) == InRange(c, "body")
WithMaxConnections(c) == InRange(c, "connections")
WithTimeouts(c) == \A t \in {"header", "request", "grace"} : InRange(c, t)
TlsServerConfigurationNew(c) == \A t \in TlsSettings : InRange(c, t)
RawBodyServerLimitsNew(c) ==
    c.odd \in RawBodySettings => \A s \in RawBodySettings : InRange(c, s)
UnixSocketConfigurationNew(c) == c.bind # "unparsed"
CopyTlsIdentity(c) == InRange(c, "certificates") /\ InRange(c, "key")

(* authentication(), explicit_principal() *)
AuthenticationOk(c) ==
    \/ c.mode = "bearer" /\ c.principal = "none" /\ ~c.kindGiven
    \/ c.mode = "disabled" /\ c.principal = "valid" /\ c.kindGiven

(* The part the three network starts have in common. *)
CommonOk(c) ==
    /\ c.version
    /\ c.bind # "unparsed"
    /\ AuthenticationOk(c)
    /\ RateLimitsNew(c)
    /\ c.origins # "invalid"
    /\ WithMaxBodyBytes(c) /\ WithMaxConnections(c) /\ WithTimeouts(c)

(* start_server mounts the adapters in the order they are listed: each at   *)
(* most once, MCP only with its server record.                              *)
AdaptersOk(c) ==
    /\ \A i \in DOMAIN c.adapters :
          /\ \A j \in 1 .. i - 1 : c.adapters[j] # c.adapters[i]
          /\ c.adapters[i] = "mcp" => c.mcpServer = "valid"
    /\ (\A i \in DOMAIN c.adapters : c.adapters[i] # "mcp") => c.mcpServer = "none"

Loopback(c) == c.bind = "loopback"
Unauthenticated(c) == c.mode = "disabled"

(* validate, validate_tls, validate_unix *)
Validate(c) ==
    /\ Loopback(c) \/ c.cleartext
    /\ Loopback(c) \/ ~Unauthenticated(c) \/ c.unauthenticated
ValidateTls(c) == Loopback(c) \/ ~Unauthenticated(c) \/ c.unauthenticated
ValidateUnix(c) == Unauthenticated(c) /\ c.origins = "none"

(* LocalHttpServer::start, start_with_protocols, start_tls_with_protocols,  *)
(* LocalUnixHttpServer::start_with_protocols; server_start_status and       *)
(* unix_server_start_status name the failure.                               *)
StartStatus(valid, c) ==
    IF ~valid THEN "invalid_argument"
    ELSE IF c.listen = "ok" THEN "ok" ELSE c.listen

StartServer(c) ==
    StartStatus(/\ CommonOk(c) /\ RawBodyServerLimitsNew(c)
                /\ AdaptersOk(c) /\ Validate(c), c)
StartRestServer(c) == StartStatus(CommonOk(c) /\ Validate(c), c)
StartRestTlsServer(c) ==
    StartStatus(CommonOk(c) /\ TlsServerConfigurationNew(c) /\ ValidateTls(c), c)
StartRestUnixServer(c) ==
    StartStatus(/\ c.version /\ c.principal = "valid" /\ RateLimitsNew(c)
                /\ WithMaxBodyBytes(c) /\ WithMaxConnections(c) /\ WithTimeouts(c)
                /\ UnixSocketConfigurationNew(c) /\ ValidateUnix(c), c)

(* The extern functions: the TLS identity is copied, within its bounds,     *)
(* before the store handle is retained.                                     *)
Started(c) ==
    CASE c.kind = "http" -> StartServer(c)
      [] c.kind = "rest" -> StartRestServer(c)
      [] c.kind = "tls"  -> IF CopyTlsIdentity(c) THEN StartRestTlsServer(c)
                            ELSE "invalid_argument"
      [] c.kind = "unix" -> StartRestUnixServer(c)

Init ==
    /\ input \in {c \in Configuration : WellFormed(c)}
    /\ status = None

Try ==
    /\ status = None
    /\ status' = Started(input)
    /\ UNCHANGED input

Next == Try

Spec == Init /\ [][Next]_vars

-----------------------------------------------------------------------------
(* Properties *)

(* Types; what is not started is named (lib.rs:1322-1340). *)
TypeOK ==
    /\ input \in Configuration
    /\ status \in {None, "ok", "invalid_argument", "bind", "start"}

Serves == status = "ok"

(* No server listens on a network address in clear text, or without         *)
(* authentication, unless each was acknowledged by name; acknowledging one  *)
(* is not acknowledging the other, and TLS needs only the second            *)
(* (configuration.rs:269-291).                                              *)
NoUnacknowledgedExposure ==
    Serves /\ input.bind = "network" =>
        /\ input.kind \in {"http", "rest"} => input.cleartext
        /\ input.mode = "disabled" => input.unauthenticated

(* A server that runs has every numeric limit its configuration names: none *)
(* below its least value, zero for most, which would mean no limit, and     *)
(* none beyond what the server is built for                                 *)
(* (configuration.rs:78-99, 191-228, tls.rs:68-96, raw_body.rs:37-54).      *)
RunsBounded ==
    Serves => \A s \in Reads(input.kind) :
                 Value(input, s) \in Least[s] .. Maximum[s]

(* What is not refused for a reason of its own is started: a configuration  *)
(* whose parts are all valid runs, whatever combination of adapters,        *)
(* authentication and acknowledgements it is (lib.rs:993-1269).             *)
ValidStarts ==
    status = "invalid_argument" =>
        \/ ~input.version \/ input.bind = "unparsed" \/ input.origins = "invalid"
        \/ input.edge \in {"below", "beyond"}
        \/ input.mode = "bearer" /\ (input.principal # "none" \/ input.kindGiven)
        \/ input.mode = "disabled" /\ (input.principal # "valid" \/ ~input.kindGiven)
        \/ input.bind = "network" /\ ~(input.cleartext /\ input.unauthenticated)
        \/ Cardinality({input.adapters[i] : i \in DOMAIN input.adapters})
              < Len(input.adapters)
        \/ (input.mcpServer = "valid") #
              (\E i \in DOMAIN input.adapters : input.adapters[i] = "mcp")
        \/ input.mcpServer = "invalid"

=============================================================================
