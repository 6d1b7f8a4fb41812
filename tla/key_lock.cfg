CONSTANTS
  Calls = {c1, c2, c3, c4}
  Keys = {k1, k2}
  NoCall = NoCall
SPECIFICATION LiveSpec
INVARIANTS IInv MutualExclusion ServedInOrder MapHoldsLastActive
PROPERTIES ImplementsFifoLock EveryCallReturns
CHECK_DEADLOCK FALSE
