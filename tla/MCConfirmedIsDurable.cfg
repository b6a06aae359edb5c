SPECIFICATION CacheSpec
CONSTANTS
  Doc = {d1}
  Chunk = {0}
  Variant = {good, bad}
  Good = good
  Size <- Sizes
  NoChunk = NoChunk
  NoDoc = NoDoc
  NoDir = NoDir
  Errors = {}
  Crashes = {"kill", "power"}
  MaxFaults = 2
  Reader = {r1}
  Capacities = {0}
  Limit = 3
INVARIANT ConfirmedIsDurable
