SPECIFICATION Spec
CONSTANTS
  j1 = j1
  j2 = j2
  A = A
  B = B
  c1 = c1
  n1 = n1
  n2 = n2
  Nil = Nil
  Joins = {j1, j2}
  SessionIDs = {A, B}
  Conns = {n1, n2}
  cfg <- rejoin
  home <- nodes
  MaxOut = 2
CHECK_DEADLOCK FALSE
INVARIANTS LiveRouted
PROPERTIES SpokenHome LoopReturns
