SPECIFICATION Spec
CONSTANTS
  Second = 1
  SendRate = 1
  BufferSize = 256
  ServerSlots = 2
  MaxClientsLimit = 2
  MaxPendingClients = 2
  TokenEntries = 2
  ConnectKey = "secret"
  ProtocolId = 7
  Secure = TRUE
  ClientAddrs = {"c1", "c2"}
  ServerAddrs = {"s1"}
  Tokens <- SameUser
  OwnReasons = {}
  SocketFails = {TRUE, FALSE}
  NewMaxClients = {}
  Expire = 4
  Timeout = 2
  MaxClientTime = 0
  MaxServerTime = 0
  MaxClientSequence = 0
  MaxServerSequence = 0
  MaxChallenges = 3
INVARIANTS SeatsAreConsistent OneAddressPerToken
CHECK_DEADLOCK FALSE
