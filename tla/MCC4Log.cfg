SPECIFICATION LogSpec
CONSTANTS
  Node = {n1}
  TxId = {t1, t2, t3}
  Payload = {p1}
  MaxIndex = 3
  Index <- Indices
  NoEntry = NoEntry
INVARIANTS
  LogReplayable
  JournalGrammar
  TableMatchesJournal
  ReservedOnce
  InStepReopens
PROPERTY
  TornEntryIsCut
SYMMETRY TxSymmetry
