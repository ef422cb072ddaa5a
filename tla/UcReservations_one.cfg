CONSTANTS
  s1 = s1
  s2 = s2
  s3 = s3
  ana = ana
  ben = ben
  Session = {s1, s2}
  Developer = {ana, ben}
  DevOf <- TwoSessions
  UC = {u1}
  NoDev = NoDev
  NoSession = NoSession
  NoUC = NoUC
  Targets = {"backlog"}
  Deleters = {s1, s2}
  MaxCalls = 6
CHECK_DEADLOCK FALSE
SPECIFICATION FairSpec
INVARIANTS StartedIsHeld TrailIsComplete
PROPERTIES ActsAsLock PurgeLosesOnlyTheLate EveryCallReturns
