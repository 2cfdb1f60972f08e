SPECIFICATION FairSpec
CONSTANTS
  x = x
  y = y
  Nil = Nil
  Conns = {x, y}
  Chatty = {x}
  MaxFrames = 1
  MaxSends = 1
  ReceiveChSize = 1
  SendChSize = 2
INVARIANTS NoSendOnClosed SeenInOrder NothingLeftOpen HelloFirst
PROPERTIES CloseReturns
CHECK_DEADLOCK FALSE
