SPECIFICATION SpecServer
CONSTANTS
  Torrents = {a, b}
  FromUrl = {b}
  Hosts = {g, h}
  Size <- OneBlock
  Priorities = {0, 1}
  Limits = {0, 1}
  StopEvents = TRUE
  Periods <- Short
  MaxOps = 3
  Day = 3
  Values = {1, 2}
  MaxKeys = 2
  MaxEdits = 3
  MaxChanges = 3
INVARIANTS ServerKeeps ScheduleObeyed WindowFaithful TextsRead
PROPERTIES WithinLimit ServerMoves
CHECK_DEADLOCK FALSE
