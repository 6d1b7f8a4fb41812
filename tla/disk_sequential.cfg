CONSTANTS
  Ops = {o1, o2, o3}
  Keys = {k1, k2}
  Kinds = {"put", "copy", "complete", "delete", "get"}
  Modes = {"Enabled", "Suspended"}
  Encs = {TRUE, FALSE}
  NullId = NullId
  None = None
  Torn = Torn
  NoBytes = NoBytes
  Empties = {NoBytes}
  MaxVersions = 1
  MaxInFlight = 1
  MaxCrashes = 0
  MaxGone = 0
SYMMETRY Symmetry
SPECIFICATION Spec
INVARIANTS TypeOK SettledIntact ReadsServe
PROPERTIES ImplementsObjectStore
CHECK_DEADLOCK FALSE
