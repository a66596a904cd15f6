SPECIFICATION PreauthSpec
CONSTANTS
  Handlers = {h1, h2}
  Users = {u1, u2}
  PowerUsers = {u2}
  MaxAmount = 2
  MaxNum = 2
  MaxCalls = 4
  NoUser = NoUser
INVARIANTS  CapturedIsTaken HoldIsKnown
PROPERTY ImplementsHold
SYMMETRY HandlerSymmetry
CHECK_DEADLOCK FALSE
