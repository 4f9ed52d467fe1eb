CONSTANTS
  c1 = c1
  c2 = c2
  Server = Server
  Nobody = Nobody
  Clients <- MCClients
  Testers <- MCTesters
  MaxInFlight = 2
  MaxLosses = 0
  MaxCrashes = 0
SPECIFICATION Spec
INVARIANT AcksOnlyInit
