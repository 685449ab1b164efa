SPECIFICATION AggregationSpec
CONSTANTS
  NULL = NULL
  Frames <- TumblingFrames
  Values <- Times
  MaxTuples = 4
  MaxOutputs = 6
  SizeT = 64
INVARIANT AggregationsSlide
CHECK_DEADLOCK FALSE
