SPECIFICATION Spec
CONSTANTS
  c1 = c1
  c2 = c2
  Conns = {c1, c2}
  MaxFds = 4
  MaxHeaders = 1
  MaxChunks <- MCMaxChunks
  ChunkLens <- MCChunkLens
  Prompt = {c1}
  MAX_CACHE_SIZE = 10
  MAX_OBJECT_SIZE = 5
INVARIANTS FdsOwned ReplyFaithful RequestComplete CacheSound
PROPERTY PromptServed
CHECK_DEADLOCK FALSE
