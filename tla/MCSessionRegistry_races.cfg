SPECIFICATION Spec
CONSTANTS
  j1 = j1
  j2 = j2
  j3 = j3
  A = A
  B = B
  c1 = c1
  g1 = g1
  Nil = Nil
  Joins = {j1, j2, j3}
  Closers = {k1}
  GroupIDs = {g1}
  CallIDs = {c1}
  SessionIDs = {A, B}
  cfg <- rejoin
  MayStop = FALSE
SYMMETRY twins
INVARIANTS NoRegistryPanic CallbackLast NoEmptyShells
PROPERTIES LiveCallKept
