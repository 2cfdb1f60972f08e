CONSTANTS
  a = a
  b = b
  c = c
  Nil = Nil
  Sessions = {a, b}
  Talkers = {}
  Sharers = {a}
  Leavers = {a}
  ShareTracks = {"screen"}
  MaxShares = 2
  NumCPU = 2
  TracksChSize = 2
SPECIFICATION Spec
INVARIANTS OneScreen BlockedByOrphans
PROPERTIES LoopServes
CHECK_DEADLOCK FALSE
