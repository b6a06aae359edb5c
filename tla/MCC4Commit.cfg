SPECIFICATION StableSpec
CONSTANTS
  Node = {n1, n2}
  Leader = n1
  NoNode = NoNode
  Malformed = {}
  WriteErrors = {"PREPARE", "COMMIT"}
  MaxFaults = 1
  TxId = {t1, t2}
  Payload = {p1}
  MaxIndex = 2
  Index <- Indices
  NoEntry = NoEntry
INVARIANTS
  AckedIsReplicated
  CommitAfterVotes
  LogsAgree
  DecisionsAgree
SYMMETRY TxSymmetry
