SPECIFICATION FairSpec
CONSTANTS
  Callers = {proc}
  Processor = proc
  Goroutines = {g1}
  Tx = {t1}
  Ids = {t1, 1, 2, 3, 4, 5}
  Mutexes = {m1}
  Cards = {k1, k2}
  WithCof = {k1, k2}
  TagOf <- UserTags
  InitialMethods <- OneMethod
  Amount = 1
  MaxRetryAttempts = 2
  MaxOrders = 5
  MaxCalls = 0
  DisablePayment = FALSE
  Api = {}
  Faults = {"reject", "errorCharged"}
  CardEvents = {"save", "delete", "expire"}
  NoCaller = NoCaller
  NoMutex = NoMutex
  NoId = NoId
  NoTx = NoTx
  NoCard = NoCard
  
PROPERTIES ResultIsFinal  ImplementsDebt
