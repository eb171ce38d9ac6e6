SPECIFICATION Spec
CONSTANTS
  s1 = s1
  s2 = s2
  s3 = s3
  i1 = i1
  i2 = i2
  b1 = b1
  b2 = b2
  alpha = alpha
  beta = beta
  small = small
  large = large
  Unnamed = Unnamed
  Custom = Custom
  otherService = otherService
  ServiceID = gaussdb
  ServiceIds = {gaussdb, otherService}
  Free = Free
  NoRequest = NoRequest
  NoRecord = NoRecord
  NoJob = NoJob
  NoBase = NoBase
  NoPlan = NoPlan
  NoPassword = NoPassword
  InstanceIds = {i1, i2}
  BindingIds = {b1, b2}
  Names = {Unnamed, Custom}
  Bases = {alpha, beta}
  Plans = {small, large}
  MaxConn <- MCMaxConn
  MaxGB <- MCMaxGB
  Sanitized <- MCSanitized
  ShortHash <- MCShortHash
  Slots = {s1}
  Passwords = {p1}
  Requests <- RacingCalls
  Faults = {"refuse"}
INVARIANTS
  FailedBindLeavesNothing
