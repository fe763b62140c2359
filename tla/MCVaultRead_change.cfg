CONSTANTS
  Ids = {1, 2}
  Colls = {1}
  Names = {n1, n2}
  CollNames = {c1, 0}
  MayBreak = {1}
  Kinds = {"add", "delete", "rename", "move", "renameCollection", "rotate"}
  MaxChanges = 2
  Unused = Unused
  Gone = Gone
  NoCache = NoCache
SPECIFICATION Spec
SYMMETRY Symmetry
INVARIANTS TypeOK ReadWasTrue NotFoundIsReal EnumerationWhole IndexAgrees
