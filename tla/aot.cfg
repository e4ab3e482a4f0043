CONSTANTS
    Workers = {w1}
    Client = client
    Iseqs = {i1, i2}
    Units = {u1, u2, u3}
    None = None
    Main = Main
    Aot = TRUE
    NumCallsToAdd = 1
    MaxMutations = 1
    MaxCache = 1
    UnloadShare = 2
    Events = {"redo", "finish", "spurious"}
SPECIFICATION FairSpec
INVARIANTS
    NoFault
PROPERTIES
    AotCallReturns
