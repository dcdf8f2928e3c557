SPECIFICATION Spec
CONSTANTS
  num_gpu_blocks = 3
  hash_block_size = 1
  block_size = 2
  Tokens <- MCTokens
  Groups <- MCGroups
  Sparse <- MCSparse
  None = None
  enable_kv_cache_events = TRUE
  MaxRef = 2
  MaxEvents = 1
  MaxList = 2
INVARIANTS FreeListExact HashesAgree HitsServeTheirPrefix EventsNeverOverstate
CHECK_DEADLOCK FALSE
