CONSTANTS
    Deliveries = {d1, d2}
    Engines = {e1, e2}
    MaxAttempts = 2
    MaxStarts = 3
SPECIFICATION Spec
INVARIANTS HeldOnce SentRecorded StatusKept
CHECK_DEADLOCK FALSE
