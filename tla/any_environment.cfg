CONSTANTS
    Workers = {w1}
    Client = client
    Iseqs = {i1}
    Units = {u1, u2}
    None = None
    Main = Main
    Aot = FALSE
    NumCallsToAdd = 1
    MaxMutations = 1
    MaxCache = 1
    UnloadShare = 2
    Events = {"cc_fail", "spawn_fail", "dl_fail", "pch_fail", "gc", "free", "redo", "bop", "trace", "fork", "finish", "profile", "spurious", "overlap"}
SPECIFICATION Spec
SYMMETRY Symmetry
CHECK_DEADLOCK FALSE
INVARIANTS
    TypeOK
    GcExcludesTranslation
    NotReadyIsQueued
