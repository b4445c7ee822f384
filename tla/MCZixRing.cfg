SPECIFICATION ReaderFairSpec
CONSTANTS
  Size = 4
  Blocks = {1, 3}
  MaxSent = 6
  LoadsInOrder = TRUE
  Width = 9
INVARIANTS TypeOK SizeIsRoundedUp HeadsCountBytes StaleHeadsAreSafe NoSlotRace BlocksInOrder
PROPERTIES StreamSpec ReadReturns
