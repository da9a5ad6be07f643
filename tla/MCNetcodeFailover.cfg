SPECIFICATION FairSpec
CONSTANTS
  Second = 1
  SendRate = 1
  BufferSize = 256
  ServerSlots = 2
  MaxClientsLimit = 2
  MaxPendingClients = 2
  TokenEntries = 2
  ConnectKey = "secret"
  ProtocolId = 7
  Secure = TRUE
  ClientAddrs = {"c1"}
  ServerAddrs = {"s1", "s2"}
  Tokens <- TwoServers
  OwnReasons = {"DisconnectedByClient"}
  SocketFails = {FALSE}
  NewMaxClients = {}
  Expire = 4
  Timeout = 1
  MaxClientTime = 6
  MaxServerTime = 0
  MaxClientSequence = 3
  MaxServerSequence = 0
  MaxChallenges = 1
INVARIANT ConnectedWasSeated
PROPERTIES ConnectingEnds EndsTogether
CHECK_DEADLOCK FALSE
