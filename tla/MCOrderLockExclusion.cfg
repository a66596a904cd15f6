SPECIFICATION LockSpec
CONSTANTS
  Callers = {c1, c2}
  Ids = {i1}
  Mutexes = {m1, m2}
  NoCaller = NoCaller
  NoMutex = NoMutex
  NoId = NoId
SYMMETRY LockSymmetry
INVARIANT MutualExclusion
