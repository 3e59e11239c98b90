CONSTANTS
  site = site
  Site = Site
  ip = ip
  Host = {site, Site, ip}
  Lower <- MCLower
  Rejected = {}
  LastPort = 3
  NoHost = nohost
  Targets <- MCTargets
  Scopes <- MCScopes
  Added <- MCAdded
  Loopback = {ip}
  Header = {csp}
  Responses <- MCResponses
  Servers <- MCServers
  Sighting <- MCSighting
  ChunkSize = 2
  MaxFaults = 1
  MaxScopeAdds = 1
SPECIFICATION Spec
INVARIANTS
  TypeOK
  OneHostKept
  ListedPortsOnly
  EachPortOnce
  ReportedIsStored
  RisksComplete
  PairReported
CHECK_DEADLOCK FALSE
