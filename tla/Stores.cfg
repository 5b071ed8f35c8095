SPECIFICATION Spec
CONSTANTS
    Parts = {"access", "rotation", "schema", "credentials", "memory", "sql",
             "log_bridge", "dedup", "scan", "dedup_bridge", "claims"}
    Live = FALSE
    Solo = {p1}
    Pair = {p1, p2}
    Duo = {s1, s2}
    Trio = {t1, t2, t3}
    None = None
VIEW View
SYMMETRY Alike
INVARIANTS AccessSound StorageSound LogsExact ReplayStoreSound
PROPERTIES StorageSteps LogsImplementContract ReplayStoreImplements
CHECK_DEADLOCK FALSE
