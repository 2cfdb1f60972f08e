SPECIFICATION FairSpec
CONSTANTS
  DCSignaling = TRUE
  MaxChanges = 1
  MaxTracks = 2
  NumCandidates = 3
  SignalChSize = 2
  IceChSize = 2
INVARIANTS AnswerFits AwaitedIsThere
PROPERTIES OfferSettles CandidateReaches
CHECK_DEADLOCK FALSE
