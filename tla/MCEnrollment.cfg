SPECIFICATION EnrollmentSpec
CONSTANTS
  u1 = u1  u2 = u2  c1 = c1  c2 = c2  c3 = c3
  Users = {u1, u2}
  Cards = {c1, c2, c3}
  Tx = {x1}
  HolderOf <- MCHolderOf
  Handlers = {h1, h2}
  Goroutines = {g1, g2}
  Docs = {1, 2, 3, 4}
  InitialMethods <- MCInitialMethods
  MaxOrders = 2
  MaxCalls = 2
  MaxBroken = 1
  MaxDeliveries <- MCMaxDeliveries
  Charge = 1
  NoUser = NoUser
  NoCard = NoCard
  NoTx = NoTx
INVARIANTS   OneDefault OneRefundPerNotification  ChargeReturned
SYMMETRY HandlerSymmetry
CHECK_DEADLOCK FALSE
