SPECIFICATION Spec
CONSTANTS
  Ids = {1, 2}
  MaxClients = 1
  Permitted = {1, 2}
  MaxEvents = 3
INVARIANTS SteamLayersAgree HeldConnectionsEnd
PROPERTIES EndReachesClient ConnectedIsServed
