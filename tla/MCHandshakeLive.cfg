CONSTANTS
  c1 = c1
  c2 = c2
  Server = Server
  Nobody = Nobody
  Clients <- MCClients
  Testers = {}
  MaxInFlight = 1
  MaxLosses = 1
  MaxCrashes = 1
SPECIFICATION FairSpec
PROPERTY RetriesReachServer
