SPECIFICATION FairSpec
CONSTANTS
  MaxLinks = 2
  MaxFrames = 1
  LinkChSize = 2
  ReceiveChSize = 1
  MaxSends = 2
  CanGiveUp = TRUE
INVARIANTS NoPanic CloseFlushes
PROPERTIES CloseCompletes LostIsNoticed
CHECK_DEADLOCK FALSE
