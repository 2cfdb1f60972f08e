SPECIFICATION FairSpec
CONSTANTS
  j1 = j1
  j2 = j2
  j3 = j3
  A = A
  B = B
  c1 = c1
  g1 = g1
  Nil = Nil
  Joins = {j1, j2}
  Closers = {k1, k2}
  GroupIDs = {g1}
  CallIDs = {c1}
  SessionIDs = {A, B}
  cfg <- rejoin
  MayStop = TRUE
PROPERTIES KeepsPromises CloseCompletes DrainReleases
