CONSTANTS
  a = a
  b = b
  c = c
  Nil = Nil
  Sessions = {a, b}
  Talkers = {a, b}
  Sharers = {a}
  Leavers = {a}
  ShareTracks = {"audio"}
  MaxShares = 1
  NumCPU = 1
  TracksChSize = 3
SPECIFICATION Spec
INVARIANTS Heard SendersListed
CHECK_DEADLOCK FALSE
