SPECIFICATION Spec
CONSTANTS
  Callers = {proc}
  Processor = proc
  Goroutines = {g1}
  Tx = {t1, t2, t3}
  Ids = {t1, t2, t3, 1, 2}
  Mutexes = {m1}
  Cards = {k1}
  WithCof = {k1}
  TagOf <- MixedTags
  InitialMethods <- AnyMethod
  Amount = 1
  MaxRetryAttempts = 1
  MaxOrders = 2
  MaxCalls = 0
  DisablePayment = FALSE
  Api = {}
  Faults = {"reject", "error", "errorCharged", "deadline", "crash"}
  CardEvents = {"save", "delete"}
  NoCaller = NoCaller
  NoMutex = NoMutex
  NoId = NoId
  NoTx = NoTx
  NoCard = NoCard
INVARIANT NoDoubleCharge
