\* A stream ends, an undefined handle stops, MaxOutputs ends a loop without end.
SPECIFICATION AggregationSpec
CONSTANTS
  NULL = NULL
  Frames <- AllFrames
  Values <- TimesOrNull
  MaxTuples = 5
  MaxOutputs = 7
  SizeT = 64
INVARIANTS
  SumIsOfWindow
  AtMostOneOutputPerTuple
  UnboundedKeepsEverything
PROPERTIES
  EmitsExactFrames
  EmitsWhatIsDue
  CalculateReturns
CHECK_DEADLOCK FALSE
