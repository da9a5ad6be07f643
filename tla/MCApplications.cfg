SPECIFICATION Spec
CONSTANTS
  Ids = {1, 2, 3}
  RemoteIds = {1, 2}
  LocalIds = {3}
  Host = 0
  Bot = 9
  Apps = {"any", "chat", "game", "simple"}
  MaxPackets = 2
  MaxEvents = 1
  MaxSent = 0
INVARIANTS EventsTellTheTruth LayersAgree RostersConverge AuthorsAreKnown ProjectilesEnd
PROPERTY DisconnectedIsRemoved
