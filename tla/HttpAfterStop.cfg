SPECIFICATION LiveSpec
CONSTANTS
    Parts = {"http"}
    Live = TRUE
    Solo = {p1}
    Pair = {p1, p2}
    Duo = {s1, s2}
    Trio = {t1, t2, t3}
    None = None
PROPERTIES NoRequestAfterStop
CHECK_DEADLOCK FALSE
