CONSTANTS
  Hosts = {h1, h2}
  ClientMtus = {5, 9}
  PreferredMtu = 7
  DefaultMtu = 4
  MaxPairings = 2
  MaxEvents = 3
SPECIFICATION FairSpec
INVARIANTS
  ConnectionIsCurrent
  BondIsKept
  OnlyTheBondedHost
PROPERTIES
  DeviceIsReachable
  BondedHostGetsIn
  SendGetsThrough
