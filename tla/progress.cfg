SPECIFICATION SpecLive
CONSTANTS
  h = h
  u = u
  x = x
  Url = {h, u, x}
  Protocol <- Mixed
  Reliable = {h}
  Lists <- Few
  Intervals = {0, 1800}
  AttemptCap = 6
  Budget <- Some
INVARIANTS
  TypeOK
  RequestCounted
  StopQuiets
PROPERTIES
  TriedInOrder
  RetryPause
  AnnouncesGoOn
  Completes
