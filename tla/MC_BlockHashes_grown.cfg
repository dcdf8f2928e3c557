SPECIFICATION Spec
CONSTANTS
  a = a
  b = b
  lora = lora
  salt = salt
  hash_block_size = 3
  target_block_size = 6
  Tokens = {0, 1}
  Placeholders = {0}
  Identifiers = {a, b}
  Loras = {lora}
  Salts = {lora, salt}
  Requests = {1, 2}
  Inputs <- MCInputs
  Sampled <- MCSampled
INVARIANT GrownBlocksSeparated
CHECK_DEADLOCK FALSE
