SPECIFICATION SessionsSpec
CONSTANTS
  Clients = {c1}
  People = {u1}
  Tags = {t1}
  TagsOf <- AllTags
  Trans = {x1}
  Jobs = {j1, j2}
  MaxClock = 3
  NoOne = NoOne
  NoTag = NoTag
  NoTrans = NoTrans
  NoClient = NoClient
INVARIANTS NoMissedStart  
PROPERTIES PanicOnlyWithoutTag 
CHECK_DEADLOCK FALSE
