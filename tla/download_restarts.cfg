SPECIFICATION Spec
CONSTANTS
  Link = {l1}
  Reliable = {l1}
  Pieces = 2
  SubPieces <- Two
  Priority <- Equal
  BeginPieces = 1
  Window = 1
  Budget <- Restarts
INVARIANTS TorrentKept ValidIsGood LeftIsMissing
CHECK_DEADLOCK FALSE
