CONSTANTS
  Ids = {1}
  Colls = {1, 2}
  Names = {n1, n2}
  CollNames = {c1, c2}
  MayBreak = {}
  Kinds = {"move"}
  MaxChanges = 1
  Unused = Unused
  Gone = Gone
  NoCache = NoCache
SPECIFICATION Spec
SYMMETRY Symmetry
INVARIANTS MoveIsSeen
