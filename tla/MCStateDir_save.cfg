SPECIFICATION Spec
CONSTANTS
  Procs = {p1, p2}
  Accounts = {a1, a2}
  MaxLogins = 3
  Empty = Empty
  Torn = Torn
SYMMETRY Symmetry
INVARIANT TypeOK
INVARIANT FilesWhole
INVARIANT ConfigLeads
PROPERTY LoginTakesEffect
PROPERTY SessionsAdvance
CHECK_DEADLOCK FALSE
