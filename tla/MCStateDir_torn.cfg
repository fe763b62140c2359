CONSTANTS
  Procs = {p1}
  Accounts = {a1, a2}
  MaxLogins = 2
  Empty = Empty
  Torn = Torn
SPECIFICATION Spec
INVARIANT NoTornState
CHECK_DEADLOCK FALSE
