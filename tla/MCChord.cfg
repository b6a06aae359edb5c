SPECIFICATION FairSpec
CONSTANTS
  Bits = 2
  Node = {0, 1, 3}
  Bootstrap = 0
  NoNode = NoNode
  MinRing = 2
  CallErrors = TRUE
  MaxChanges = 1
  MaxTasks = 1
INVARIANTS NoForgottenReference LookupsFindOwner
PROPERTIES RingStays RingForms
