CONSTANTS
  w1 = w1
  w2 = w2
  w3 = w3
  Writers <- MCWriters
  MaxCurrent = 2
  MaxHist = 4
  MaxSeq = 4
  MaxEvents = 14
  MaxCycles = 2
  MaxTorn = 1
SPECIFICATION StoreSpec
SYMMETRY WriterSymmetry
CHECK_DEADLOCK FALSE
INVARIANTS
  LogIsSuffix
  HistoryKeepsItsLimit
