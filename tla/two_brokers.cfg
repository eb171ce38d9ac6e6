SPECIFICATION Spec
CONSTANTS
  i1 = i1
  b1 = b1
  alpha = alpha
  small = small
  Unnamed = Unnamed
  ServiceID = gaussdb
  ServiceIds = {gaussdb}
  Free = Free
  NoRequest = NoRequest
  NoRecord = NoRecord
  NoJob = NoJob
  NoBase = NoBase
  NoPlan = NoPlan
  NoPassword = NoPassword
  InstanceIds = {i1}
  BindingIds = {b1}
  Names = {Unnamed}
  Prefix1 = gdb
  Prefix2 = tenants
  RawBases = {alpha}
  Plans = {small}
  MaxConn <- MCMaximum
  MaxGB <- MCMaximum
  RawSanitized <- MCSanitized
  RawHash <- MCHash
  Slots = {s1}
  Passwords = {p1}
  Requests <- SharedCalls
  Faults = {"refuse"}
INVARIANTS
  BothTellTheTruth
  
  BothRollBack
