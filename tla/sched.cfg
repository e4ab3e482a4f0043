SPECIFICATION FairSpec
CONSTANTS
  None = None
  Threads = {m, a}
  Main = m
  MaxSignals = 1
  Programs = {{"region","signal"},{"sleep","interrupt"},{"exit","pass","spurious"}}
INVARIANTS
    OneRuns
    NoLostWakeup
    InterruptArrives
PROPERTIES
    TimeSlice
    InterruptedLeaves
    SignalHandled
CHECK_DEADLOCK FALSE
