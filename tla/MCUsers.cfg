SPECIFICATION UsersSpec
CONSTANTS
  Handlers = {h1, h2}
  Names = {n1, n2}
  Admin = n1
  FirebaseIds = {f1}
  MaxKeys = 4
  Ops = {"login", "token", "firebase", "register", "invite", "create", "update", "delete", "autoTag", "createTag", "updateTag", "deleteTag"}
  DbFaults = {"getUser", "deadline"}
  NoHandler = NoHandler
  NoUser = NoUser
INVARIANTS UniqueAccounts LoginHolds
 
SYMMETRY HandlerSymmetry
CHECK_DEADLOCK FALSE
