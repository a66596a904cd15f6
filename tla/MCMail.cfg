SPECIFICATION MailSpec
CONSTANTS
  Subs = {s1}
  Groups = {g1}
  LastDay = 15
  Firsts <- MCFirsts
  MaxSets = 1
  MaxChanges = 1
  NoGroup = NoGroup
INVARIANTS ReportOfFullPeriod NoReportTwice NoReportSkipped
PROPERTIES StopEndsLoop
CHECK_DEADLOCK FALSE
