SPECIFICATION SpecLinks
CONSTANTS
  Size = 3
  Byte = {0, 1}
  BufferSize = 5
  Header = 2
  Handshake = 1
  PeerId = 1
  MaxMessage = 3
  Lengths = {2, 4}
  Asked <- Blocks
  Quotas = {3}
  Network = 3
  MaxMessages = 3
  Requests <- Announces
  Buffer = 8
  HeadSize = 1
  BodySize = 2
  Timeout = 1
INVARIANTS PartsSpeak AnswersFaithful
PROPERTIES IsQueue NothingLeft
CHECK_DEADLOCK FALSE
