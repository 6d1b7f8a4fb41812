CONSTANTS
  MaxCalls = 4
  Parts = {1, 2}
  None = None
  Torn = Torn
  MaxUploads = 2
  MaxListed = 2
  MaxInFlight = 3
  MaxCrashes = 1
  MaxGone = 1
SPECIFICATION LiveSpec
INVARIANTS BytesAsListed AckedPartStays GoneForGood
PROPERTIES EveryCallEnds
CHECK_DEADLOCK FALSE
