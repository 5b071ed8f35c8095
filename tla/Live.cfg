SPECIFICATION LiveSpec
CONSTANTS
    Parts = {"http", "http_drain", "ingress_abi", "server_abi", "dispatch",
             "runtime_abi", "schema", "handle", "transport", "retried",
             "discovery", "rotated", "claims"}
    Live = TRUE
    Solo = {p1}
    Pair = {p1, p2}
    Duo = {s1, s2}
    Trio = {t1, t2, t3}
    None = None
PROPERTIES CallsReturn WorkEnds
CHECK_DEADLOCK FALSE
