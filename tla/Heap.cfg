\* The sizes of the C structures; of 192 bytes the buddy manager uses 128, the most it
\* allows, as in the kernel that is built: a block of order 4 has no node
SPECIFICATION HeapSpec
CONSTANTS
  memorySize = 192
  ALIGNMENT = 8
  SizeofBlock = 24
  WORD = 65536
  HDR_SIZE = 8
  MAX_ORDER_ALLOWED = 7
  Managers = {"naive", "buddy"}
  Requests = {1, 24, 50}
  MAX_BLOCKS = 3
  max_memory = 80
  SizeofNode = 16
  SizeofQueue = 16
  STACK_SIZE = 30
  Data = {"a", "b"}
INVARIANTS HeldIsLive FullyMerged StatusAddsUp
PROPERTIES ImplementsAllocator QueueKeepsOrder
