SPECIFICATION Spec
CONSTANTS
  p1 = p1
  p2 = p2
  p3 = p3
  p4 = p4
  f1 = f1
  f2 = f2
  Peer = {p1, p2, p3}
  File = {f1, f2}
  FileOf <- TwoTorrents
  Slots = 2
  SlotFloor = 1
  MinSlots <- Minimums
  MaxSlots <- Maximums
  Traits <- Kinds
  NoLink = NoLink
  RequestLimit = 1
SYMMETRY Symmetry
INVARIANTS
  ChokedAsksNothing
  AppliedBeforeSend
PROPERTY SlotsShared
