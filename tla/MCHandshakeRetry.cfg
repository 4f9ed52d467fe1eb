CONSTANTS
  c1 = c1
  c2 = c2
  Server = Server
  Nobody = Nobody
  Clients <- MCClients
  Testers = {}
  MaxInFlight = 2
  MaxLosses = 1
  MaxCrashes = 0
SPECIFICATION FairSpec
PROPERTY RetrySucceeds
