SPECIFICATION ElectionSpec
CONSTANTS
  Node = {1, 2}
  Leader = 2
  NoNode = 0
  Malformed = {p2}
  WriteErrors = {"entry"}
  MaxFaults = 1
  MaxMishaps = 1
  MaxTerm = 2
  Settled = TRUE
  Clients = {2}
  Mortal = {1}
  Restarts = TRUE
  TxId = {t1}
  Payload = {p1, p2}
  MaxIndex = 1
  Index <- Indices
  NoEntry = NoEntry
INVARIANT DirectoryFollowsLog
PROPERTIES CommitSpec CatchUpFirst
