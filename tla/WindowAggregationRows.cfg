SPECIFICATION AggregationSpec
CONSTANTS
  NULL = NULL
  Frames <- TestFrames
  Values <- Times
  MaxTuples = 4
  MaxOutputs = 6
  SizeT = 64
INVARIANT StaysDefined
CHECK_DEADLOCK FALSE
