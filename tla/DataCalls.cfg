CONSTANTS
  TicksPerSecond = 100
  SubsecondDigits = 2
  SecondsInMinute = 2
  MinutesInHour = 2
  MillisecondsInSecond = 10
  HoursInDay = 2
  CallTypes <- MCCallTypes
  OperandTypes <- MCOperandTypes
  ComparedTypes <- MCComparedTypes
  ValuesOf <- MCValuesOf
  WideNumbers <- MCWideNumbers
  Crash = Crash
  IntLimit = 8
  FloatLimit = 4
  DoubleLimit = 16
  UnaryOps <- MCUnaryOps
  Datetimes <- MCDatetimes
  Months <- MCMonths
  Ticks <- MCTicks
  Dates <- MCDates
  SizeTBits = 3
  ShortBits <- MCShortBits
  Lengths <- MCLengths
  MostBits = 4
  ColumnTypes <- MCColumnTypes
  MostTuples = 3
  MostMoves = 4
  MostNodes = 4
  MostChanges = 4
  ChangedPositions = {0, 1}
  kCatalogMaxID = 2
  AttributeNames <- MCAttributeNames
  LowerOf <- MCLowerOf
  RelationTypes <- MCRelationTypes
  DatabaseNames = {"a", "A", "b", "c"}
  MostNames = 4
  Slots = {v1, v2, v3}
  Buffers <- MCBuffers
  Blocks = {1, 2, 3}
  Bytes = {5, 6}
SPECIFICATION DataSpec
CHECK_DEADLOCK FALSE
INVARIANTS
  CoercionsAreSafe
  SignaturesAgree
  EveryPathComputesTheSame
  EveryPathMatchesTheSame
  KnownDeviations
  WrittenIsReadBack
  MonthsMoveTheCalendar
  BitVectorsHoldTheirBits
  CursorsVisitTheirTuples
  StagesFollowTheLinks
  BlocksAreOwnedOnce
  SchemasDescribeTuples
