SPECIFICATION Spec
CONSTANTS
  r1 = r1
  r2 = r2
  None = None
  Requests <- MCTwo
  Text <- MCText
  Prompt <- MCPrompt
  Tokens <- MCTokens
  Groups <- MCGroups
  Sparse <- MCSparse
  enable_kv_cache_events = FALSE
  num_gpu_blocks = 4
  hash_block_size = 2
  block_size = 2
  max_model_len = 5
  watermark_blocks = 1
  Window = 2
  MaxStep = 3
  MaxDrafts = 1
  MaxFlight = 2
INVARIANTS RefsAreHolders HitsServeTheirPrefix WindowIsBacked LoneRequestIsAdmitted
PROPERTIES AdmissionKeepsWatermark
CHECK_DEADLOCK FALSE
