SPECIFICATION Spec
CONSTANTS
  Keys = {"a", "b", "c"}
  Values = {"v", "w"}
  HashOf <- Hashes
  HashWidth = 5
  MinPower2 = 1
  MaxPacked = 1
  PerturbShift = 3
  MaxPower2 = 4
  Programs <- AllPrograms
INVARIANTS
    FindsAll
PROPERTIES
    
    ForeachVisitsOnce
