SPECIFICATION Spec
CONSTANTS
  Writers = {w1, w2}
  MaxRows = 3
INVARIANT EveryHashCoversTheRest
CHECK_DEADLOCK FALSE
