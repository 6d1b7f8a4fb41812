CONSTANTS
  Ops = {o1, o2, o3, o4}
  Keys = {k1}
  Kinds = {"put", "delete", "expire"}
  Modes = {"Enabled"}
  Encs = {TRUE, FALSE}
  NullId = NullId
  None = None
  Torn = Torn
  NoBytes = NoBytes
  Empties = {}
  MaxVersions = 2
  MaxInFlight = 3
  MaxCrashes = 1
  MaxGone = 1
SYMMETRY Symmetry
SPECIFICATION Spec
INVARIANTS Durable ExpiresOnlyAged
PROPERTIES ImplementsObjectStore
CHECK_DEADLOCK FALSE
