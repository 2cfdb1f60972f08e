SPECIFICATION Spec
CONSTANTS
  DCSignaling = TRUE
  MaxChanges = 1
  MaxTracks = 2
  NumCandidates = 3
  SignalChSize = 2
  IceChSize = 2
INVARIANT QueueDrained
CHECK_DEADLOCK FALSE
