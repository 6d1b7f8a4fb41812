CONSTANTS
  Names = {n1}
  Keys = {k1, k2}
  Refs = {r1, r2}
  Ops = {o1, o2, o3}
  Statuses = {"", "Enabled"}
  PartNumbers = {1}
  Settings = {"lifecycle"}
  Tags = {NoTags, t1}
  NoTags = NoTags
  NullId = NullId
  None = None
  MaxInFlight = 2
  MaxListed = 2
SYMMETRY Symmetry
SPECIFICATION Spec
INVARIANTS StorageInv ObjectsWellFormed UploadsCompleteOnce WritesWhereCalled BucketsApart
PROPERTIES VersioningKeepsVersions ImplementsObjectStore
CHECK_DEADLOCK FALSE
