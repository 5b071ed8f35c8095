SPECIFICATION Spec
CONSTANTS
    Parts = {"handle", "egress_abi", "transport", "endpoint", "admission",
             "retries", "retried", "once", "result", "discovery", "adapter",
             "sent", "rotated"}
    Live = FALSE
    Solo = {p1}
    Pair = {p1, p2}
    Duo = {s1, s2}
    Trio = {t1, t2, t3}
    None = None
SYMMETRY Symmetric
INVARIANTS HandlesSound ExchangesSound SchedulesKept DeliveredOnce
PROPERTIES EngineSteps
CHECK_DEADLOCK FALSE
