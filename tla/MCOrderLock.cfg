SPECIFICATION FairLockSpec
CONSTANTS
  Callers = {c1, c2, c3}
  Ids = {i1, i2}
  Mutexes = {m1, m2, m3}
  NoCaller = NoCaller
  NoMutex = NoMutex
  NoId = NoId
INVARIANTS NoLeak ExclusiveUnlessOrphaned WaitsForOwnId
PROPERTY WaiterGetsLock
