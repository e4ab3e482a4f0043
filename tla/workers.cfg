CONSTANTS
    Workers = {w1, w2}
    Client = client
    Iseqs = {i1, i2}
    Units = {u1, u2}
    None = None
    Main = Main
    Aot = FALSE
    NumCallsToAdd = 1
    MaxMutations = 1
    MaxCache = 2
    UnloadShare = 2
    Events = {"gc", "cc_fail", "finish", "spurious"}
SPECIFICATION FairSpec
INVARIANTS
    OnePlace
    FinishAfterWorkers
PROPERTIES
    ImplementsGcExclusion
    GcStarts
    FinishEnds
    QueueDrains
