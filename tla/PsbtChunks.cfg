SPECIFICATION Spec
CONSTANTS
  MAX_LITOSHI = 4
  UINT64_MAX = 13
  None = None
  Docs <- MCDocs
  Records = {"r1", "r2"}
  CHUNK_SIZE = 2
  Lengths = {1, 2, 3, 5}
INVARIANTS ChunkLeftToSend
