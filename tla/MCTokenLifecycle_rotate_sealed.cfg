CONSTANTS
  Procs = {p1}
  RefreshPolicy = "rotate"
  NoToken = NoToken
  MaxGrants = 1
SPECIFICATION Spec
INVARIANT EndedCommandSealed
