CONSTANTS
  Ops = {o1, o2, o3}
  Keys = {k1}
  Kinds = {"put", "delete", "tag", "get"}
  Modes = {"Enabled", "Suspended"}
  Encs = {TRUE, FALSE}
  NullId = NullId
  None = None
  Torn = Torn
  NoBytes = NoBytes
  Empties = {}
  MaxVersions = 1
  MaxInFlight = 4
  MaxCrashes = 0
  MaxGone = 1
SPECIFICATION LiveSpec
INVARIANTS SettledIntact NoLeftovers VersionReadsExact
PROPERTIES ImplementsObjectStore EveryCallEnds
CHECK_DEADLOCK FALSE
