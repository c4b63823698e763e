SPECIFICATION Spec
CONSTANTS
  Link = {l1, l2}
  Reliable = {l1}
  Pieces = 2
  SubPieces <- Two
  Priority <- Equal
  BeginPieces = 1
  Window = 2
  Budget <- Faulty
SYMMETRY Symmetry
INVARIANTS PiecesKept LinksAccounted HavesTold
