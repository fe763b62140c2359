CONSTANTS
  Procs = {p1, p2}
  Accounts = {a1, a2}
  MaxLogins = 1
  Empty = Empty
  Torn = Torn
SPECIFICATION Spec
SYMMETRY Symmetry
INVARIANT SaveIsAtomic
CHECK_DEADLOCK FALSE
