CONSTANTS
  c1 = c1
  c2 = c2
  Server = Server
  Nobody = Nobody
  Clients <- MCClients
  Testers <- MCTesters
  MaxInFlight = 3
  MaxLosses = 1
  MaxCrashes = 2
SPECIFICATION Spec
INVARIANTS
  TypeOK
  StreamerIsTheClient
  OneClientPerRun
