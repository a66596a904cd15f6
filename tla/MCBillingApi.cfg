SPECIFICATION Spec
CONSTANTS
  Callers = {proc, api}
  Processor = proc
  Goroutines = {g1, g2}
  Tx = {t1}
  Ids = {t1, 1, 2}
  Mutexes = {m1, m2}
  Cards = {k1}
  WithCof = {k1}
  TagOf <- UserTags
  InitialMethods <- AnyMethod
  Amount = 1
  MaxRetryAttempts = 1
  MaxOrders = 2
  MaxCalls = 1
  DisablePayment = FALSE
  Api = {"pay", "force", "return", "returnByOrder"}
  Faults = {"reject"}
  CardEvents = {}
  NoCaller = NoCaller
  NoMutex = NoMutex
  NoId = NoId
  NoTx = NoTx
  NoCard = NoCard
SYMMETRY SlotSymmetry
INVARIANTS  OneOpenOrder
