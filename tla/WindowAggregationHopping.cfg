SPECIFICATION AggregationSpec
CONSTANTS
  NULL = NULL
  Frames <- HoppingFrames
  Values <- Times
  MaxTuples = 4
  MaxOutputs = 6
  SizeT = 64
INVARIANT FrameNeverPassesTuple
CHECK_DEADLOCK FALSE
