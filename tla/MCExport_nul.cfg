SPECIFICATION Spec
CONSTANTS
  Vaults <- MCVaults
  NameOrder <- MCNameOrder
  Base <- MCBase
  Keys <- MCKeys
  Word = 1048576
  Absent = Absent
  Empty = Empty
  Failed = Failed
INVARIANTS
  NoPartialOutput
CHECK_DEADLOCK FALSE
