SPECIFICATION Spec
CONSTANTS
  Size = 4
  Blocks = {1, 3}
  MaxSent = 6
  LoadsInOrder = FALSE
  Width = 9
INVARIANTS BlocksInOrder
