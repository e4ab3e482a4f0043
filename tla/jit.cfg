CONSTANTS
    Workers = {w1}
    Client = client
    Iseqs = {i1, i2}
    Units = {u1, u2, u3}
    None = None
    Main = Main
    Aot = FALSE
    NumCallsToAdd = 2
    MaxMutations = 1
    MaxCache = 2
    UnloadShare = 2
    Events = {"gc", "redo", "cc_fail", "dl_fail", "pch_fail", "finish", "spurious"}
SPECIFICATION Spec
SYMMETRY Symmetry
INVARIANTS
    PublishedCodeIsLoaded
    ListsMatchStatus
    UnitsMatchIseqs
    NoFault
