SPECIFICATION Spec
CONSTANTS
  Callers = {proc, api}
  Processor = proc
  Goroutines = {g1}
  Tx = {t1}
  Ids = {t1, 1, 2, 3}
  Mutexes = {m1}
  Cards = {k1}
  WithCof = {k1}
  TagOf <- UserTags
  InitialMethods <- OneMethod
  Amount = 1
  MaxRetryAttempts = 1
  MaxOrders = 3
  MaxCalls = 1
  DisablePayment = FALSE
  Api = {"return"}
  Faults = {"reject"}
  CardEvents = {}
  NoCaller = NoCaller
  NoMutex = NoMutex
  NoId = NoId
  NoTx = NoTx
  NoCard = NoCard
INVARIANT RetryMeansUnpaid
