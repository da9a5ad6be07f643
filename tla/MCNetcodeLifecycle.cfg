SPECIFICATION Spec
CONSTANTS
  Second = 1
  SendRate = 1
  BufferSize = 256
  ServerSlots = 1
  MaxClientsLimit = 1
  MaxPendingClients = 2
  TokenEntries = 1
  ConnectKey = "secret"
  ProtocolId = 7
  Secure = TRUE
  ClientAddrs = {"c1"}
  ServerAddrs = {"s1"}
  Tokens <- OneClient
  OwnReasons = {}
  SocketFails = {FALSE}
  NewMaxClients = {0, 1}
  Expire = 1
  Timeout = 1
  MaxClientTime = 1
  MaxServerTime = 2
  MaxClientSequence = 0
  MaxServerSequence = 2
  MaxChallenges = 2
INVARIANTS TypeOK ConnectedWasSeated
 
CHECK_DEADLOCK FALSE
