SPECIFICATION Spec
CONSTANTS
  p1 = p1
  p2 = p2
  p3 = p3
  p4 = p4
  f1 = f1
  f2 = f2
  Peer = {p1, p2, p3, p4}
  File = {f1}
  FileOf <- OneTorrent
  Slots = 3
  SlotFloor = 4
  MinSlots <- NoLimits
  MaxSlots <- NoLimits
  Traits <- Leecher
  NoLink = NoLink
  RequestLimit = 0
INVARIANT AtMostSlotsUnchoked
