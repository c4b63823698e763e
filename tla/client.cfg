SPECIFICATION SpecClient
CONSTANTS
  Offsets <- FiveFiles
  PieceBytes = 4
  ChunkBytes = 2
  MaxFaults = 3
  IdleTime = 2
  MaxStarts = 3
  Torrents = {"f", "g"}
  Sizes <- NoSizes
  PieceSize = 4
  MaxCommands = 3
  Addresses = {1, 2}
  LinkTime = 0
  Limits = {0, 1}
  MaxBacklog = 1
  MaxOps = 2
  LowPort = 1
  HighPort = 3
  MaxChanges = 4
INVARIANTS
  ListsFaithful
  ControlKept
  DataRecognised
  FilesHoldData
PROPERTY CommandsObeyed
