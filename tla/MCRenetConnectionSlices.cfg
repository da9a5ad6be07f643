SPECIFICATION Spec
CONSTANTS
  small = small
  large = large
  ClientMessages = 2
  ServerMessages = 0
  ClientTime = 2
  ServerTime = 0
  ClientPackets = 6
  ServerPackets = 2
  Messages = {small, large}
  Size <- MCSize
  ResendTime = 1
  MaxSendMemory = 2600
  Orders = {FALSE}
  MaxReceiveMemory = 3000
  MaxAckRanges = 2
  AvailableBytes = {60000}
  DiscardAfter = 2
  Outgoing <- MCOutgoing
  MaxPackets <- MCMaxPackets
  MaxTime <- MCMaxTime
  Quitters = {}
INVARIANT
  AssembledOnce
CHECK_DEADLOCK FALSE
