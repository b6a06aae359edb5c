SPECIFICATION FairElectionSpec
CONSTANTS
  Node = {1, 2, 3}
  Leader = 3
  NoNode = 0
  Malformed = {}
  WriteErrors = {}
  MaxFaults = 1
  MaxMishaps = 1
  MaxTerm = 2
  Settled = TRUE
  Clients = {}
  Mortal = {1, 2, 3}
  Restarts = FALSE
  TxId = {t1}
  Payload = {p1}
  MaxIndex = 1
  Index <- Indices
  NoEntry = NoEntry
PROPERTY LeaderSettles
