SPECIFICATION FairSpec
CONSTANTS
  MaxConns = 4
INVARIANTS ClosesOnce
PROPERTIES GivesUpLate OutageEnds CloseCompletes
CHECK_DEADLOCK FALSE
