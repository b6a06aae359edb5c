SPECIFICATION Spec
CONSTANTS
  SuperPeer = {1, 2}
  Peer = {7}
  Home <- OneHome
  NoMember = NoMember
  MaxCalls <- CopyCalls
  Silent <- CopySilent
  MaxSequence = 2
  MaxEpoch = 2
  WriteErrors = FALSE
  MaxEvents = 2
INVARIANTS GossipIsValid HomeIsAhead
PROPERTIES RecordsMoveForward LateLeaveIsHarmless
