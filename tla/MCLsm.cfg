CONSTANTS
  k1 = k1  k2 = k2  k3 = k3  k4 = k4
  Keys <- FourKeys
  Requests <- Trace
  NumSegments = 7
  SegmentSize = 2
  CleaningWidths = {1, 3}
SPECIFICATION Spec
CHECK_DEADLOCK FALSE
INVARIANTS TypeOK Consistent CleaningSuffices LowTimestampIsLow SurvivorsAreNewest
PROPERTIES IsCache RequestCompletes
