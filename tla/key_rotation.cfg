SPECIFICATION FairSpec
CONSTANTS
  InstanceIds = {i1, i2}
  BindingIds = {b1, b2}
  Secrets = {s1, s2}
  NoSecret = NoSecret
  Keys = {k1, k2, k3}
  NoKey = NoKey
  NoRow = NoRow
  MaxInterruptions = 2
INVARIANTS
  TypeOK
  PreviousKeyRetirable
  ProcedureKeepsReadable
  NoInvisibleBinding
PROPERTIES
  KeepsCredentials
  RotationCompletes
