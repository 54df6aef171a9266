\* A process that ends by returning, with interrupts enabled, and the first-fit manager
SPECIFICATION HeapExitSpec
CONSTANTS
  memorySize = 192
  ALIGNMENT = 8
  SizeofBlock = 24
  WORD = 65536
  HDR_SIZE = 8
  MAX_ORDER_ALLOWED = 7
  Managers = {"naive"}
  Requests = {1, 24, 50}
  MAX_BLOCKS = 3
  max_memory = 80
  SizeofNode = 16
  SizeofQueue = 16
  STACK_SIZE = 30
  Data = {"a", "b"}
PROPERTY MergesFreeBlocks
