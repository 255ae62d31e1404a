SPECIFICATION Spec
CONSTANTS
  c1 = c1
  c2 = c2
  Conns = {c1}
  MaxFds = 3
  MaxHeaders = 0
  MaxChunks <- MCMaxChunks
  ChunkLens <- MCChunkLens
  Prompt = {}
  MAX_CACHE_SIZE = 10
  MAX_OBJECT_SIZE = 5
INVARIANT EvictionSafe
CHECK_DEADLOCK FALSE
