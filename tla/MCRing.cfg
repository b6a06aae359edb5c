SPECIFICATION Spec
CONSTANTS
  SuperPeer = {1, 2, 3}
  Peer = {}
  Home <- NoHome
  NoMember = NoMember
  MaxCalls <- RingCalls
  Silent <- RingSilent
  MaxSequence = 3
  MaxEpoch = 2
  WriteErrors = TRUE
  MaxEvents = 2
INVARIANTS NothingAheadOfItsNode
PROPERTIES AdmittedByDirectEvidence
