SPECIFICATION StableSpec
CONSTANTS
  Node = {n1, n2}
  Leader = n1
  NoNode = NoNode
  Malformed = {}
  WriteErrors = {}
  MaxFaults = 1
  TxId = {t1, t2}
  Payload = {p1}
  MaxIndex = 3
  Index <- Indices
  NoEntry = NoEntry
INVARIANT DurableCommitsReopen
SYMMETRY TxSymmetry
