SPECIFICATION FairSpec
CONSTANTS
  Peer = {p1}
  Self = sp
  a = a
  Object = {a, b}
  Stock <- OneEach
  NoObject = NoObject
  MaxEvents = 7
  Upload = {u}
  Download = {d1, d2}
  Chunks = 2
  Workers = 2
  NoFile = NoFile
INVARIANT AckedIsOffered
INVARIANT GoneIsNotOffered
INVARIANT PartFiles
PROPERTY PublishedOnce
PROPERTY CatalogReturns
