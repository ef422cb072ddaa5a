CONSTANTS
  s1 = s1
  s2 = s2
  s3 = s3
  ana = ana
  ben = ben
  Session = {s1, s2, s3}
  Developer = {ana, ben}
  DevOf <- ThreeSessions
  UC = {u1}
  NoDev = NoDev
  NoSession = NoSession
  NoUC = NoUC
  Targets = {"backlog"}
  Deleters = {}
  MaxCalls = 6
CHECK_DEADLOCK FALSE
SPECIFICATION Spec
PROPERTIES OwnerOnlyRelease
