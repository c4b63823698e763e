SPECIFICATION SpecTables
CONSTANTS
  Hash = {h1, h2}
  PeerId = {p1}
  Uid = {1, 2}
  Pass = {"a", "b"}
  Config <- Toggling
  UserRow <- UserRows
  MaxBytes = 0
  MaxTime = 2
  PeerTimeout = 0
  BufferRows = 1
  MaxCompleted = 1
  MaxTid = 3
  MaxFaults = 1
  MaxSiteOps = 2
INVARIANTS TidsNameOwnRows StoredCountsCurrent PassesNameLiveUsers
PROPERTIES ListedDirtyIsWritten SiteObeyed
CHECK_DEADLOCK FALSE
