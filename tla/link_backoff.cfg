SPECIFICATION Spec
CONSTANTS
  h = h
  u = u
  x = x
  Url = {u}
  Protocol <- OnlyUdp
  Reliable = {}
  Lists <- Alone
  Intervals = {0}
  AttemptCap = 31
  Budget <- Calm
PROPERTY RetryPause
