SPECIFICATION Spec
CONSTANTS
  small = small
  large = large
  ClientMessages = 2
  ServerMessages = 0
  ClientPackets = 3
  ServerPackets = 2
  ClientTime = 1
  ServerTime = 1
  Messages = {small, large}
  Size <- MCSize
  ResendTime = 1
  MaxSendMemory = 2500
  Orders = {TRUE, FALSE}
  MaxReceiveMemory = 2400
  MaxAckRanges = 2
  AvailableBytes = {2000}
  DiscardAfter = 1
  Outgoing <- MCOutgoing
  MaxPackets <- MCMaxPackets
  MaxTime <- MCMaxTime
  Quitters = {"server"}
INVARIANTS
  TypeOK
  NothingAckedIsMissing
  MemoryIsAccounted
PROPERTY
  DeliversReliably
CHECK_DEADLOCK FALSE
