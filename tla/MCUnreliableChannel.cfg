SPECIFICATION Spec
CONSTANTS
  short = short
  empty = empty
  long = long
  longer = longer
  Messages = {short, empty, long, longer}
  Size <- MCSize
  Budgets = {2400, 60000}
  MaxSendMemory = 3700
  MaxReceiveMemory = 4800
  DiscardAfter = 2
INVARIANTS
  SlicesHaveTimes
  MemoryIsAccounted
  DeliveredAtMostOnce
PROPERTIES
  IncompleteIsGivenUp
