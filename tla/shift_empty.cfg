SPECIFICATION Spec
CONSTANTS
  Keys = {"a", "b", "c", "d"}
  Values = {"v", "w"}
  HashOf <- FourHashes
  HashWidth = 5
  MinPower2 = 1
  MaxPacked = 0
  PerturbShift = 3
  MaxPower2 = 4
  Programs <- ShiftsEmpty
INVARIANTS StCheck
