SPECIFICATION Spec
CONSTANTS
    Parts = {"http", "socket", "server_abi", "ingress_abi", "config", "mcp",
             "rest", "windows", "limiter", "route", "canonical", "dispatch",
             "runtime_abi"}
    Live = FALSE
    Solo = {p1}
    Pair = {p1, p2}
    Duo = {s1, s2}
    Trio = {t1, t2, t3}
    None = None
SYMMETRY Symmetric
INVARIANTS ListenersSound ForeignHandlesSound ProtocolsSound RatesKept RequestsGenuine
PROPERTIES ServerSteps
CHECK_DEADLOCK FALSE
