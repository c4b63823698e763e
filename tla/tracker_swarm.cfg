SPECIFICATION SpecSwarm
CONSTANTS
  Hash = {h1}
  PeerId = {p1, p2}
  Uid = {1, 2}
  Pass = {"a"}
  Config <- Either
  UserRow <- WaitRows
  MaxBytes = 2
  MaxTime = 2
  PeerTimeout = 0
  BufferRows = 1
  MaxCompleted = 1
  MaxTid = 1
  MaxFaults = 1
  MaxSiteOps = 0
  Block <- OneWay
  MaxMoved = 2
  MaxInFlight = 1
INVARIANTS CountersMatchPeers ClientsCredited
PROPERTIES LimitOnJoin SwarmSilentPeerDropped
CHECK_DEADLOCK FALSE
