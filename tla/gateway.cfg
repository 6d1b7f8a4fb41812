SPECIFICATION Spec
CONSTANTS
  MaxRequests = 3
  MaxInFlight = 2
  MaxCrashes = 1
  Menu <- MCMenu
  Settings = {"versioning", "policy", "cors"}
  Unset = Unset
  None = None
  Malformed = Malformed
  User = User
  Users = {User}
  Nobody = Nobody
  NullDocument = NullDocument
  Anonymous = TRUE
  DefaultVersioning = TRUE
  Denying = {"onPut"}
INVARIANTS
  ConfigAsAcknowledged
  PutsAsAnswered
  MetricsAddUp
PROPERTIES
  PolicyInForce
CHECK_DEADLOCK FALSE
