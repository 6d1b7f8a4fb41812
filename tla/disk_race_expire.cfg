CONSTANTS
  Ops = {o1, o2, o3}
  Keys = {k1}
  Kinds = {"put", "expire"}
  Modes = {"Suspended"}
  Encs = {FALSE}
  NullId = NullId
  None = None
  Torn = Torn
  NoBytes = NoBytes
  Empties = {}
  MaxVersions = 2
  MaxInFlight = 3
  MaxCrashes = 0
  MaxGone = 0
SYMMETRY Symmetry
SPECIFICATION Spec
INVARIANT ExpiresOnlyAged
CHECK_DEADLOCK FALSE
