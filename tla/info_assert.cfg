SPECIFICATION Spec
CONSTANTS
  Peers = {p, q}
  Old = {p}
  Pieces = 3
  ByteBits = 2
INVARIANTS OneBitPerPiece
CHECK_DEADLOCK FALSE
