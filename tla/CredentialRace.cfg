CONSTANTS
    Threads = {t1, t2}
    Files = {f1, f2, f3, f4}
    Values = {short, long}
    Long = {long}
    MaxChanges = 2
    MaxFaults = 0
    None = none
SPECIFICATION Spec
INVARIANT UnsafeMeansUnsafe
CHECK_DEADLOCK FALSE
