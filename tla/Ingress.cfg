SPECIFICATION Spec
CONSTANTS
    NoKey = NoKey
    Requests = {q1, q2, q3}
    Keys = {k1, k2}
    Retained = {k2}
    StoreFaults = {"refused", "ambiguous"}
    AuditFaults = TRUE
    OtherHandle = TRUE
    MaxStarts = 2
    MaxDecisions = 2
INVARIANTS AtMostOnce SuccessAccounted
PROPERTIES DecidedByOperator
CHECK_DEADLOCK FALSE
