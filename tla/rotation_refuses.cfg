SPECIFICATION Spec
CONSTANTS
  InstanceIds = {i1}
  BindingIds = {b1, b2}
  Secrets = {s1}
  NoSecret = NoSecret
  Keys = {k1, k2, k3}
  NoKey = NoKey
  NoRow = NoRow
  MaxInterruptions = 2
PROPERTIES
  RefusesToStart
