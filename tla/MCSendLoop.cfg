SPECIFICATION Spec
CONSTANTS
  half = half
  whole = whole
  sliced = sliced
  Messages = {half, whole, sliced}
  Size <- MCSize
  ResendTime = 1
  MaxSendMemory = 4000
  Budgets = {600, 1300, 2500, 60000}
  MaxMessages = 3
  MaxNow = 2
INVARIANTS
  LoopIsDescribed
  SlicesTakeTurns
  PacketsSurviveTheWire
