SPECIFICATION Spec
CONSTANTS
  num_blocks = 4
  fake_head = fake_head
  fake_tail = fake_tail
  None = None
INVARIANTS LinksAgree
PROPERTIES ImplementsQueue IterYieldsFree
CHECK_DEADLOCK FALSE
