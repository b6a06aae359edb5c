SPECIFICATION CacheSpec
CONSTANTS
  Doc = {d1}
  Chunk = {0, 1}
  Variant = {good, bad}
  Good = good
  Size <- Sizes
  NoChunk = NoChunk
  NoDoc = NoDoc
  NoDir = NoDir
  Errors = {"write", "rename", "sync", "back"}
  Crashes = {"kill", "power"}
  MaxFaults = 5
  Reader = {r1, r2}
  Capacities = {0, 1, 2}
  Limit = 3
INVARIANT FinishedIsIntact
INVARIANT AckedChunksKept
PROPERTY ImplementsObjectStore
PROPERTY UploadCompletes
INVARIANT CacheIsSound
PROPERTY LeastUsedEvicted
