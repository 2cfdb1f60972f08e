SPECIFICATION Spec
CONSTANTS
  VoiceLevelsSampleSize = 3
  AudioLevels = {0, 5, 30}
  ShareBound = 2
  Estimates = {3, 25}
  ViewerChSize = 3
  NoTrack = NoTrack
  SamplingSize = 2
  PacketSizes = {1, 3}
  MaxClock = 7
  MaxPushes = 6
  Sockets = {1, 2}
  ReadResultChSize = 2
  MaxReads = 2
INVARIANTS VoiceAgrees ViewerServed RateOfWindow PacketsInOrder
PROPERTIES ConnCloseReturns
CHECK_DEADLOCK FALSE
