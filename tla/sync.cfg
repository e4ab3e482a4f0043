SPECIFICATION FairSpec
CONSTANTS
  None = None
  Threads = {m, a, b}
  Main = m
  Mutexes = {x}
  Items = {i}
  MaxLens = {1, 2}
  MaxInterrupts = 1
  Programs = {{"lock", "cv", "exit"}, {"queue", "exit", "kill", "create"},
              {"lock", "join", "create", "kill"}, {"lock", "cv", "raise"},
              {"lock", "join", "stop", "spurious"},
              {"queue", "close", "clear", "max", "wakeup"}, {"queue", "fork"},
              {"lock", "sleep", "timed"}}
INVARIANTS
    QueueServed
    OwnerKeeps
    NoLostUnlock
    SleepersAreListed
    SleepersCounted
    DeadlockReported
PROPERTIES
    ReportIsTrue
    ExitEnds
CHECK_DEADLOCK FALSE
