SPECIFICATION DeliverySpec
CONSTANTS
  Vaults = {}
  Jobs <- MCJobs
  Lower <- MCLower
  Responses <- MCResponses
  Down = Down
  NameOrder <- MCNameOrder
  Base <- MCBase
  Keys <- MCKeys
  Word = 1048576
  Absent = Absent
  Empty = Empty
  Failed = Failed
INVARIANTS
  DeliveryTypeOK
  KeysDistinct
  ValuesReadBack
  ExportIsWhole
  FailsClosed
  UnlockIsExact
  ValueIsHeld
  FailureIsReal
  FetchIsWhole
  HandOffHarmless
PROPERTIES
  FetchEnds
CHECK_DEADLOCK FALSE
